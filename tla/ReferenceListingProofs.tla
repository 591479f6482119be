------------------------ MODULE ReferenceListingProofs ------------------------
(***************************************************************************)
(* Theorems of ReferenceListing: what an answer and a walk through the     *)
(* pages show, for any table, any parameters and any number of commits.    *)
(***************************************************************************)
EXTENDS ListReads, ReferenceListProofs

Query == [page : Nat \ {0}, limit : 1 .. MaxLimit, search : Searches, tags : SUBSET Tags]

AnswerType == [totalCount : Nat, totalPages : Nat, items : SUBSET Refs,
               availableTags : SUBSET Tags]

WalkType == [on : BOOLEAN, asked : Nat \ {0}, seen : SUBSET Refs, twice : SUBSET Refs,
             there : SUBSET Refs, changes : Changes, torn : BOOLEAN]

TableOK == DB \in BOOLEAN /\ active \subseteq Refs /\ at \in Clocks /\ writes \in 0 .. MaxWrites

RequestOK ==
    /\ stage \in Statements \cup {"idle", "200", "400", "500", "503"}
    /\ query \in Query /\ answer \in AnswerType
    /\ sinceCount \in Changes /\ sincePage \in Changes

WalkOK == walk \in WalkType /\ walk.twice \subseteq walk.seen /\ walk.there \subseteq active

Typed == TableOK /\ RequestOK /\ WalkOK

Found == Matches(query)

\* What the count still says, depending on who wrote since.
CountKnown ==
    stage \in {"page", "tags", "200"} =>
        /\ answer.totalCount <= Cardinality(Refs)
        /\ answer.totalPages = Pages(answer.totalCount, query.limit)
        /\ "left" \notin sinceCount => answer.totalCount <= Cardinality(Found)
        /\ "entered" \notin sinceCount => Cardinality(Found) <= answer.totalCount

\* And what the page says.
PageKnown ==
    stage \in {"tags", "200"} =>
        /\ Cardinality(answer.items) <= query.limit
        /\ \A r \in answer.items : query.tags \subseteq TagsOf[r] /\ r \in Hits[query.search]
        /\ (answer.items = {} /\ answer.totalCount > 0) => "left" \in sinceCount
        /\ Cardinality(answer.items) > answer.totalCount => "entered" \in sinceCount
        /\ answer.items \subseteq active \/ "left" \in sincePage

InWindow(r) ==
    /\ Rank(r, Found, at) >= (query.page - 1) * query.limit
    /\ Rank(r, Found, at) < query.page * query.limit

\* As long as nobody writes, the page is the one asked for.
PageExact ==
    (stage \in {"tags", "200"} /\ sinceCount = {}) =>
        /\ answer.totalCount > 0 =>
             /\ query.page <= answer.totalPages
             /\ walk.asked <= answer.totalPages => query.page = walk.asked
        /\ \A r \in Found \cap Distinct : r \in answer.items <=> InWindow(r)

TagsKnown ==
    stage = "200" =>
        /\ UNION {TagsOf[r] : r \in answer.items} \subseteq answer.availableTags \/ "left" \in sincePage
        /\ sinceCount = {} => answer.availableTags = UNION {TagsOf[r] : r \in active}

\* How many rows the pages before the reader's hold: those up to the page shown,
\* or those before the page asked for.
Passed == IF stage \in {"tags", "200"} THEN query.page * query.limit
          ELSE (query.page - 1) * query.limit

Walking == walk.on /\ stage \in Statements \cup {"200"}

\* A walk asks for no page far beyond the rows there are: no offset overflows.
WalkInReach == Walking => (query.page - 1) * query.limit <= Cardinality(Refs)

\* What was seen and is still there is on the pages passed, if no row entered.
SeenIsPassed ==
    (walk.on /\ "entered" \notin walk.changes) =>
        /\ walk.twice \cap Distinct = {}
        /\ Walking => \A r \in walk.seen \cap Distinct \cap active :
                          r \in Found /\ Rank(r, Found, at) < Passed

\* What is on the pages passed was seen, if no row left.
PassedIsSeen ==
    (Walking /\ "left" \notin walk.changes /\ ~walk.torn) =>
        /\ \A r \in Matching(walk.there, query.search, query.tags) \cap Distinct :
               r \in walk.seen \/ Rank(r, Found, at) >= Passed
        /\ (stage \in {"tags", "200"} /\ query.page >= answer.totalPages) =>
               Matching(walk.there, query.search, query.tags) \cap Distinct \subseteq walk.seen

IInv ==
    /\ Typed
    /\ CountKnown /\ PageKnown /\ PageExact /\ TagsKnown
    /\ WalkInReach /\ SeenIsPassed /\ PassedIsSeen
-----------------------------------------------------------------------------
(* The properties follow. *)

LEMMA InvIsTyped == IInv => TypeOK
  BY DEF IInv, Typed, TableOK, RequestOK, WalkOK, TypeOK, Query, AnswerType, WalkType

LEMMA FoundIsPart == Typed => Found \in SUBSET active /\ Found \in SUBSET Refs
  BY MatchingIsPart DEF Typed, TableOK, Found, Matches

LEMMA LimitType ==
  Typed => /\ query.limit \in Nat \ {0} /\ query.page \in Nat \ {0}
           /\ answer.totalCount \in Nat /\ answer.totalPages \in Nat
           /\ Cardinality(Found) \in Nat /\ Cardinality(Refs) \in Nat
  <1> SUFFICES ASSUME Typed
               PROVE  /\ query.limit \in Nat \ {0} /\ query.page \in Nat \ {0}
                      /\ answer.totalCount \in Nat /\ answer.totalPages \in Nat
                      /\ Cardinality(Found) \in Nat /\ Cardinality(Refs) \in Nat
    OBVIOUS
  <1>1. MaxLimit \in Nat
    BY ListingAssumption
  <1>2. Cardinality(Found) \in Nat /\ Cardinality(Refs) \in Nat
    BY FoundIsPart, RowsAreFinite
  <1> QED
    BY <1>1, <1>2 DEF Typed, RequestOK, Query, AnswerType

LEMMA TypesAfter ==
  ASSUME Typed'
  PROVE  /\ query'.limit \in Nat \ {0} /\ query'.page \in Nat \ {0}
         /\ Cardinality(Refs) \in Nat
         /\ Found' \in SUBSET active' /\ Found' \in SUBSET Refs
  <1>1. MaxLimit \in Nat /\ Cardinality(Refs) \in Nat
    BY ListingAssumption, RowsAreFinite
  <1>2. active' \in SUBSET Refs
    BY DEF Typed, TableOK
  <1>3. Found' \in SUBSET active'
    BY <1>2, MatchingIsPart DEF Found, Matches
  <1> QED
    BY <1>1, <1>2, <1>3 DEF Typed, RequestOK, Query

LEMMA InvIsQuiet == IInv => QuietAnswersAreSnapshots
  <1> SUFFICES ASSUME IInv, stage = "200", sinceCount = {}
               PROVE  LET found == Matches(query)
                          before(r) == Cardinality({x \in found : at[x] > at[r]})
                      IN /\ answer.totalCount = Cardinality(found)
                         /\ answer.totalPages * query.limit >= answer.totalCount
                         /\ answer.totalCount > 0 =>
                              /\ (answer.totalPages - 1) * query.limit < answer.totalCount
                              /\ query.page <= answer.totalPages
                              /\ walk.asked <= answer.totalPages => query.page = walk.asked
                         /\ \A r \in found \cap Distinct :
                              r \in answer.items <=>
                                /\ before(r) >= (query.page - 1) * query.limit
                                /\ before(r) < query.page * query.limit
                         /\ answer.availableTags = UNION {TagsOf[r] : r \in active}
    BY DEF QuietAnswersAreSnapshots
  <1>1. /\ answer.totalCount \in Nat /\ query.limit \in Nat \ {0}
        /\ Cardinality(Found) \in Nat /\ answer.totalPages \in Nat
    BY LimitType DEF IInv
  <1>2. answer.totalCount = Cardinality(Found)
    BY <1>1 DEF IInv, CountKnown
  <1>3. answer.totalPages = Pages(answer.totalCount, query.limit)
    BY DEF IInv, CountKnown
  <1>4. answer.totalPages * query.limit >= answer.totalCount
    <2>1. CASE answer.totalCount = 0
      BY <1>1, <1>3, <2>1 DEF Pages
    <2>2. CASE answer.totalCount > 0
      BY <1>1, <1>3, <2>2, PagesSuffice DEF Pages
    <2> QED
      BY <1>1, <2>1, <2>2
  <1>5. answer.totalCount > 0 => (answer.totalPages - 1) * query.limit < answer.totalCount
    BY <1>1, <1>3, PagesSuffice DEF Pages
  <1>6. /\ answer.totalCount > 0 =>
             /\ query.page <= answer.totalPages
             /\ walk.asked <= answer.totalPages => query.page = walk.asked
        /\ \A r \in Found \cap Distinct : r \in answer.items <=> InWindow(r)
    BY DEF IInv, PageExact
  <1>7. answer.availableTags = UNION {TagsOf[r] : r \in active}
    BY DEF IInv, TagsKnown
  <1> QED
    BY <1>2, <1>4, <1>5, <1>6, <1>7 DEF Found, InWindow, Rank

LEMMA InvIsTorn == IInv => TornAnswersHaveACause
  BY DEF IInv, PageKnown, TagsKnown, TornAnswersHaveACause

LEMMA InvWalks == IInv => WalkMissesNothing /\ WalkRepeatsNothing
  BY DEF IInv, SeenIsPassed, PassedIsSeen, Walking, WalkEnded, WalkMissesNothing,
         WalkRepeatsNothing
-----------------------------------------------------------------------------
(* Requests. *)

LEMMA Initially == Init => IInv
  <1> SUFFICES ASSUME Init PROVE IInv
    OBVIOUS
  <1>1. query \in Query
    BY ListAssumption, ListingAssumption DEF Init, Query
  <1>2. answer \in AnswerType /\ walk \in WalkType
    BY DEF Init, NoAnswer, NewWalk, AnswerType, WalkType, Changes
  <1>3. Typed
    BY <1>1, <1>2, ListingAssumption
       DEF Init, Typed, TableOK, RequestOK, WalkOK, Changes, NewWalk
  <1>4. CountKnown /\ PageKnown /\ PageExact /\ TagsKnown
    BY DEF Init, CountKnown, PageKnown, PageExact, TagsKnown
  <1>5. WalkInReach /\ SeenIsPassed /\ PassedIsSeen
    BY DEF Init, NewWalk, WalkInReach, SeenIsPassed, PassedIsSeen, Walking
  <1> QED
    BY <1>3, <1>4, <1>5 DEF IInv

\* What the reader may send: a parameter of Params, or the next page.
Sendable == [page : Nat \cup {Absent}, limit : Nat \cup {Absent}, search : Searches,
             tags : SUBSET SUBSET (Tags \cup {Blank})]

LEMMA ParsedOK ==
  ASSUME NEW p \in Sendable, ~Refused(p)
  PROVE  Parsed(p) \in Query
  <1>1. p.page \in Nat \cup {Absent} /\ p.limit \in Nat \cup {Absent} /\ p.search \in Searches
    BY DEF Sendable
  <1>2. parsePositiveInt(p.page, 1) \in Nat \ {0}
    BY <1>1 DEF Refused, IsPositiveInt, parsePositiveInt
  <1>3. parsePositiveInt(p.limit, Limit) \in Nat \ {0}
    BY <1>1, ListAssumption DEF Refused, IsPositiveInt, parsePositiveInt
  <1>4. Capped(parsePositiveInt(p.limit, Limit)) \in 1 .. MaxLimit
    BY <1>3, ListingAssumption DEF Capped
  <1>5. normalizeReferenceTags(p.tags) \in SUBSET Tags
    <2>1. p.tags \in SUBSET SUBSET (Tags \cup {Blank})
      BY DEF Sendable
    <2> QED
      BY <2>1 DEF normalizeReferenceTags
  <1> QED
    BY <1>1, <1>2, <1>4, <1>5 DEF Parsed, Query

LEMMA ReceivedIsTyped ==
  ASSUME Typed, NEW p \in Sendable, Received(p)
  PROVE  TableOK' /\ RequestOK' /\ active' = active
  <1>1. UNCHANGED <<DB, active, at, writes>>
    BY DEF Received, rows
  <1>2. query' \in Query
    BY ParsedOK DEF Received, Typed, RequestOK
  <1>3. answer' \in AnswerType
    BY DEF Received, NoAnswer, AnswerType
  <1>4. stage' \in {"400", "count", "503"} /\ sinceCount' = {} /\ sincePage' = {}
    BY DEF Received
  <1> QED
    BY <1>1, <1>2, <1>3, <1>4 DEF Typed, TableOK, RequestOK, Statements, Changes

\* A request that has read nothing knows nothing.
LEMMA ReceivedKnows ==
  ASSUME NEW p, Received(p)
  PROVE  CountKnown' /\ PageKnown' /\ PageExact' /\ TagsKnown'
  <1>1. stage' \in {"400", "count", "503"}
    BY DEF Received
  <1> QED
    BY <1>1 DEF CountKnown, PageKnown, PageExact, TagsKnown

LEMMA RequestKeeps == ASSUME IInv, NEW p \in Params, Request(p) PROVE IInv'
  <1>1. p \in Sendable
    BY ListingAssumption DEF Sendable
  <1>2. Received(p) /\ Typed
    BY DEF Request, IInv
  <1>3. /\ walk'.on = (parsePositiveInt(p.page, 1) = 1) /\ walk'.there = active
        /\ walk'.seen = {} /\ walk'.twice = {} /\ walk' \in WalkType
    <2>1. active \in SUBSET Refs /\ (parsePositiveInt(p.page, 1) = 1) \in BOOLEAN
      BY <1>2 DEF Typed, TableOK
    <2>2. walk' = [NewWalk EXCEPT !.on = parsePositiveInt(p.page, 1) = 1, !.there = active]
      BY DEF Request
    <2>3. walk' = [on |-> parsePositiveInt(p.page, 1) = 1, asked |-> 1, seen |-> {}, twice |-> {},
                   there |-> active, changes |-> {}, torn |-> FALSE]
      BY <2>2 DEF NewWalk
    <2> QED
      BY <2>1, <2>3 DEF WalkType, Changes
  <1>4. Typed'
    BY <1>1, <1>2, <1>3, ReceivedIsTyped DEF Typed, WalkOK
  <1>5. Walking' => query'.page = 1 /\ stage' = "count"
    BY <1>2, <1>3 DEF Walking, Received, Parsed, Statements
  <1>6. query'.limit \in Nat \ {0} /\ Cardinality(Refs) \in Nat /\ Found' \in SUBSET Refs
    BY <1>4, TypesAfter
  <1>7. WalkInReach'
    BY <1>5, <1>6 DEF WalkInReach
  <1>8. SeenIsPassed'
    BY <1>3 DEF SeenIsPassed
  <1>9. PassedIsSeen'
    BY <1>5, <1>6, RankType DEF PassedIsSeen, Passed
  <1> QED
    BY <1>2, <1>4, <1>7, <1>8, <1>9, ReceivedKnows DEF IInv

\* The next page of a walk is asked for with the query of the page shown.
NextParams == [page |-> query.page + 1, limit |-> query.limit, search |-> query.search,
               tags |-> {{t} : t \in query.tags}]

LEMMA NextIsSendable == ASSUME Typed PROVE NextParams \in Sendable
  <1>1. query.page \in Nat /\ query.limit \in Nat /\ query.search \in Searches /\ query.tags \in SUBSET Tags
    BY LimitType DEF Typed, RequestOK, Query
  <1>2. {{t} : t \in query.tags} \in SUBSET SUBSET (Tags \cup {Blank})
    BY <1>1
  <1> QED
    BY <1>1, <1>2 DEF NextParams, Sendable

LEMMA NextParsed ==
  ASSUME Typed
  PROVE  Parsed(NextParams) = [query EXCEPT !.page = query.page + 1]
  <1>1. /\ query \in Query /\ query.page \in Nat /\ query.limit \in 1 .. MaxLimit
        /\ query.tags \in SUBSET Tags /\ MaxLimit \in Nat
    BY ListingAssumption, LimitType DEF Typed, RequestOK, Query
  <1>2. parsePositiveInt(query.page + 1, 1) = query.page + 1
    BY <1>1, ListingAssumption DEF parsePositiveInt
  <1>3. parsePositiveInt(query.limit, Limit) = query.limit
    BY <1>1, ListingAssumption DEF parsePositiveInt
  <1>4. Capped(query.limit) = query.limit
    BY <1>1 DEF Capped
  <1>5. normalizeReferenceTags({{t} : t \in query.tags}) = query.tags
    BY <1>1, ListingAssumption DEF normalizeReferenceTags
  <1>6. Parsed(NextParams) = [page |-> query.page + 1, limit |-> query.limit,
                              search |-> query.search, tags |-> query.tags]
    BY <1>2, <1>3, <1>4, <1>5 DEF Parsed, NextParams
  <1> QED
    BY <1>1, <1>6 DEF Query

LEMMA NextPageKeeps == ASSUME IInv, NextPage PROVE IInv'
  <1>1. Typed /\ Received(NextParams) /\ UNCHANGED walk /\ stage = "200" /\ walk.on
        /\ query.page < answer.totalPages
    BY DEF NextPage, NextParams, IInv
  <1>2. NextParams \in Sendable
    BY <1>1, NextIsSendable
  <1>3. Typed'
    BY <1>1, <1>2, ReceivedIsTyped DEF Typed, WalkOK
  <1>4. /\ query.limit \in Nat \ {0} /\ query.page \in Nat \ {0} /\ answer.totalCount \in Nat
        /\ answer.totalPages \in Nat /\ Cardinality(Refs) \in Nat
    BY <1>1, LimitType
  <1>5. /\ query.page + 1 - 1 = query.page
        /\ query.page * query.limit <= Cardinality(Refs)
    <2>1. answer.totalCount <= Cardinality(Refs) /\ answer.totalPages = Pages(answer.totalCount, query.limit)
      BY <1>1 DEF IInv, CountKnown
    <2>2. answer.totalCount > 0
      BY <1>1, <1>4, <2>1 DEF Pages
    <2>3. (answer.totalPages - 1) * query.limit < answer.totalCount
      BY <1>4, <2>1, <2>2, PagesSuffice DEF Pages
    <2>4. query.page * query.limit <= (answer.totalPages - 1) * query.limit
      BY <1>1, <1>4, PagesGrow
    <2>5. query.page * query.limit \in Nat /\ (answer.totalPages - 1) * query.limit \in Int
      BY <1>4
    <2> QED
      BY <1>4, <2>1, <2>3, <2>4, <2>5
  <1>6. Walking' => /\ stage' = "count" /\ query'.page = query.page + 1
                    /\ query'.limit = query.limit /\ query'.search = query.search
                    /\ query'.tags = query.tags
    <2> SUFFICES ASSUME Walking'
                 PROVE  /\ stage' = "count" /\ query'.page = query.page + 1
                        /\ query'.limit = query.limit /\ query'.search = query.search
                        /\ query'.tags = query.tags
      OBVIOUS
    <2>1. stage' = "count" /\ query' = Parsed(NextParams)
      BY <1>1 DEF Walking, Received, Statements
    <2>2. query \in Query
      BY <1>1 DEF Typed, RequestOK
    <2> QED
      BY <1>1, <2>1, <2>2, NextParsed DEF Query
  <1>7. UNCHANGED <<active, at>>
    BY <1>1 DEF Received, rows
  <1>8. Walking' => Walking /\ Found' = Found /\ Passed' = Passed
    BY <1>1, <1>4, <1>6, <1>7 DEF Walking, Found, Matches, Passed
  <1>9. WalkInReach'
    BY <1>4, <1>5, <1>6 DEF WalkInReach
  <1>10. SeenIsPassed'
    <2> SUFFICES ASSUME walk.on, "entered" \notin walk.changes
                 PROVE  /\ walk.twice \cap Distinct' = {}
                        /\ Walking' => \A r \in walk.seen \cap Distinct' \cap active' :
                                          r \in Found' /\ Rank(r, Found', at') < Passed'
      BY <1>1 DEF SeenIsPassed
    <2>1. Distinct' = Distinct
      BY <1>7 DEF Distinct
    <2>2. SeenIsPassed
      BY DEF IInv
    <2> QED
      BY <1>7, <1>8, <2>1, <2>2 DEF SeenIsPassed
  <1>11. PassedIsSeen'
    <2> SUFFICES ASSUME Walking', "left" \notin walk.changes, ~walk.torn
                 PROVE  \A r \in Matching(walk.there, query.search, query.tags) \cap Distinct' :
                          r \in walk.seen \/ Rank(r, Found', at') >= Passed'
      BY <1>1, <1>6 DEF PassedIsSeen
    <2>1. Distinct' = Distinct
      BY <1>7 DEF Distinct
    <2>2. PassedIsSeen
      BY DEF IInv
    <2> QED
      BY <1>7, <1>8, <2>1, <2>2 DEF PassedIsSeen
  <1> QED
    BY <1>1, <1>3, <1>9, <1>10, <1>11, ReceivedKnows DEF IInv
-----------------------------------------------------------------------------
(* Other requests. *)

\* A commit in between: the rows found grow or shrink with the table.
LEMMA WrittenKeeps ==
  ASSUME Typed, CountKnown, PageKnown, TagsKnown, NEW change \in {"entered", "left"},
         active' \in SUBSET Refs, Written(change), walk' \in WalkType,
         UNCHANGED <<walk.asked, walk.seen, walk.twice>>, walk'.there \subseteq active',
         change = "entered" => active \subseteq active',
         change = "left" => active' \subseteq active
  PROVE  Typed' /\ CountKnown' /\ PageKnown' /\ PageExact' /\ TagsKnown'
  <1>1. /\ UNCHANGED <<DB, at, stage, query, answer>> /\ writes' \in 0 .. MaxWrites
        /\ sinceCount' = sinceCount \cup {change} /\ sincePage' = sincePage \cup {change}
    BY ListingAssumption DEF Written, list, Typed, TableOK
  <1>2. sinceCount' \in Changes /\ sincePage' \in Changes
    BY <1>1 DEF Typed, RequestOK, Changes
  <1>3. Typed'
    BY <1>1, <1>2 DEF Typed, TableOK, RequestOK, WalkOK
  <1>4. Found' = Matching(active', query.search, query.tags)
    BY <1>1 DEF Found, Matches
  <1>5. /\ change = "entered" => Found \subseteq Found'
        /\ change = "left" => Found' \subseteq Found
    BY <1>4 DEF Found, Matches, Matching
  <1>6. Found \in SUBSET Refs /\ Found' \in SUBSET Refs
    BY <1>3, FoundIsPart, TypesAfter
  <1>7. /\ change = "entered" => Cardinality(Found) <= Cardinality(Found')
        /\ change = "left" => Cardinality(Found') <= Cardinality(Found)
    BY <1>5, <1>6, MoreRows
  <1>8. Cardinality(Found) \in Nat /\ Cardinality(Found') \in Nat /\ answer.totalCount \in Nat
    BY <1>6, RowsAreFinite, LimitType
  <1>9. CountKnown'
    BY <1>1, <1>7, <1>8 DEF CountKnown
  <1>10. PageKnown'
    BY <1>1 DEF PageKnown
  <1>11. PageExact' /\ TagsKnown'
    BY <1>1 DEF PageExact, TagsKnown
  <1> QED
    BY <1>3, <1>9, <1>10, <1>11

LEMMA EnterKeeps == ASSUME IInv, NEW r \in Refs, Enter(r) PROVE IInv'
  <1>1. /\ Typed /\ CountKnown /\ PageKnown /\ TagsKnown /\ active' = active \cup {r}
        /\ Written("entered") /\ walk \in WalkType /\ walk.there \subseteq active
        /\ walk' = [walk EXCEPT !.changes = @ \cup {"entered"}]
    BY DEF Enter, IInv, Typed, WalkOK
  <1>2. /\ UNCHANGED <<walk.on, walk.asked, walk.seen, walk.twice, walk.there, walk.torn>>
        /\ walk'.changes = walk.changes \cup {"entered"} /\ walk' \in WalkType
    BY <1>1 DEF WalkType, Changes
  <1>3. Typed' /\ CountKnown' /\ PageKnown' /\ PageExact' /\ TagsKnown'
    BY <1>1, <1>2, WrittenKeeps DEF Typed, TableOK
  <1>4. UNCHANGED <<at, stage, query, answer>>
    BY <1>1 DEF Written, list
  <1>5. WalkInReach'
    BY <1>2, <1>4 DEF WalkInReach, Walking, IInv
  <1>6. SeenIsPassed'
    BY <1>2 DEF SeenIsPassed
  <1>7. PassedIsSeen'
    <2> SUFFICES ASSUME Walking, "left" \notin walk.changes, ~walk.torn
                 PROVE  /\ \A x \in Matching(walk.there, query.search, query.tags) \cap Distinct :
                             x \in walk.seen \/ Rank(x, Found', at) >= Passed
                        /\ (stage \in {"tags", "200"} /\ query.page >= answer.totalPages) =>
                             Matching(walk.there, query.search, query.tags) \cap Distinct
                                 \subseteq walk.seen
      BY <1>2, <1>4 DEF PassedIsSeen, Walking, Passed, Distinct
    <2>1. Found \in SUBSET Found' /\ Found' \in SUBSET Refs /\ Found \in SUBSET Refs
      BY <1>1, <1>3, <1>4, TypesAfter DEF Found, Matches, Matching
    <2>2. ASSUME NEW x
          PROVE  /\ Rank(x, Found, at) <= Rank(x, Found', at)
                 /\ Rank(x, Found, at) \in Nat /\ Rank(x, Found', at) \in Nat
      BY <2>1, RankGrows, RankType
    <2>3. Passed \in Int
      BY <1>1, LimitType DEF Passed
    <2> QED
      BY <2>2, <2>3 DEF PassedIsSeen, IInv
  <1> QED
    BY <1>3, <1>5, <1>6, <1>7 DEF IInv

LEMMA LeaveKeeps == ASSUME IInv, NEW r \in Refs, Leave(r) PROVE IInv'
  <1>1. /\ Typed /\ CountKnown /\ PageKnown /\ TagsKnown /\ active' = active \ {r}
        /\ Written("left") /\ walk \in WalkType /\ walk.there \subseteq active
        /\ walk' = [walk EXCEPT !.changes = @ \cup {"left"}, !.there = @ \ {r}]
    BY DEF Leave, IInv, Typed, WalkOK
  <1>2. /\ UNCHANGED <<walk.on, walk.asked, walk.seen, walk.twice, walk.torn>>
        /\ walk'.there = walk.there \ {r}
        /\ walk'.changes = walk.changes \cup {"left"} /\ walk' \in WalkType
    BY <1>1 DEF WalkType, Changes
  <1>3. Typed' /\ CountKnown' /\ PageKnown' /\ PageExact' /\ TagsKnown'
    BY <1>1, <1>2, WrittenKeeps DEF Typed, TableOK
  <1>4. UNCHANGED <<at, stage, query, answer>>
    BY <1>1 DEF Written, list
  <1>5. WalkInReach'
    BY <1>2, <1>4 DEF WalkInReach, Walking, IInv
  <1>6. SeenIsPassed'
    <2> SUFFICES ASSUME walk.on, "entered" \notin walk.changes
                 PROVE  /\ walk.twice \cap Distinct = {}
                        /\ Walking => \A x \in walk.seen \cap Distinct \cap active' :
                                         x \in Found' /\ Rank(x, Found', at) < Passed
      BY <1>2, <1>4 DEF SeenIsPassed, Walking, Passed, Distinct
    <2>1. Found' \in SUBSET Found /\ Found' \in SUBSET Refs /\ Found \in SUBSET Refs
      BY <1>1, <1>3, <1>4, TypesAfter, FoundIsPart DEF Found, Matches, Matching
    <2>2. ASSUME NEW x
          PROVE  /\ Rank(x, Found', at) <= Rank(x, Found, at)
                 /\ Rank(x, Found, at) \in Nat /\ Rank(x, Found', at) \in Nat
      BY <2>1, RankGrows, RankType
    <2>3. Passed \in Int
      BY <1>1, LimitType DEF Passed
    <2>4. \A x \in Found \cap active' : x \in Found'
      BY <1>1, <1>4 DEF Found, Matches, Matching
    <2> QED
      BY <1>1, <2>2, <2>3, <2>4 DEF SeenIsPassed, IInv
  <1>7. PassedIsSeen'
    BY <1>2 DEF PassedIsSeen
  <1> QED
    BY <1>3, <1>5, <1>6, <1>7 DEF IInv
-----------------------------------------------------------------------------
(* The statements of the handler. *)

LEMMA CountKeeps == ASSUME IInv, Count PROVE IInv'
  <1> DEFINE n == Cardinality(Found)
  <1>1. /\ Typed /\ stage = "count" /\ stage' = "page" /\ sinceCount' = {}
        /\ UNCHANGED <<DB, active, at, writes, query, sincePage, walk>>
        /\ answer' = [answer EXCEPT !.totalCount = n, !.totalPages = Pages(n, query.limit)]
    BY DEF Count, IInv, rows, Found
  <1>2. /\ n \in Nat /\ query.limit \in Nat \ {0} /\ Found \in SUBSET Refs
        /\ Cardinality(Refs) \in Nat
    BY <1>1, LimitType, FoundIsPart
  <1>3. Pages(n, query.limit) \in Nat
    BY <1>2, PagesSuffice DEF Pages
  <1>4. answer' \in AnswerType /\ answer'.totalCount = n /\ answer'.totalPages = Pages(n, query.limit)
    BY <1>1, <1>2, <1>3 DEF Typed, RequestOK, AnswerType
  <1>5. Typed'
    <2>1. TableOK' /\ WalkOK'
      BY <1>1 DEF Typed, TableOK, WalkOK
    <2>2. sinceCount' \in Changes /\ sincePage' \in Changes /\ query' \in Query
      BY <1>1 DEF Typed, RequestOK, Changes
    <2> QED
      BY <1>1, <1>4, <2>1, <2>2 DEF Typed, RequestOK, Statements
  <1>6. Found' = Found /\ Passed' = Passed /\ Distinct' = Distinct /\ (Walking' <=> Walking)
    BY <1>1 DEF Found, Matches, Passed, Distinct, Walking, Statements
  <1>7. n <= Cardinality(Refs)
    BY <1>2, MoreRows
  <1>8. CountKnown'
    BY <1>1, <1>2, <1>4, <1>6, <1>7 DEF CountKnown
  <1>9. PageKnown' /\ PageExact' /\ TagsKnown'
    BY <1>1 DEF PageKnown, PageExact, TagsKnown
  <1>10. WalkInReach'
    BY <1>1, <1>6 DEF WalkInReach, IInv
  <1>11. SeenIsPassed'
    BY <1>1, <1>6 DEF SeenIsPassed, IInv
  <1>12. PassedIsSeen'
    BY <1>1, <1>6 DEF PassedIsSeen, IInv
  <1> QED
    BY <1>5, <1>8, <1>9, <1>10, <1>11, <1>12 DEF IInv

LEMMA ReadTagsKeeps == ASSUME IInv, ReadTags PROVE IInv'
  <1>1. /\ Typed /\ stage = "tags" /\ stage' = "200"
        /\ UNCHANGED <<DB, active, at, writes, query, sinceCount, sincePage, walk>>
        /\ answer' = [answer EXCEPT !.availableTags = AvailableTags(active)]
    BY DEF ReadTags, IInv, rows
  <1>2. AvailableTags(active) \in SUBSET Tags
    BY <1>1, ListAssumption DEF AvailableTags, Typed, TableOK
  <1>3. /\ answer' \in AnswerType /\ answer'.availableTags = AvailableTags(active)
        /\ UNCHANGED <<answer.totalCount, answer.totalPages, answer.items>>
    BY <1>1, <1>2 DEF Typed, RequestOK, AnswerType
  <1>4. Typed'
    BY <1>1, <1>3 DEF Typed, TableOK, RequestOK, WalkOK
  <1>5. Found' = Found /\ Passed' = Passed /\ Distinct' = Distinct /\ (Walking' <=> Walking)
    BY <1>1 DEF Found, Matches, Passed, Distinct, Walking, Statements
  <1>6. CountKnown'
    BY <1>1, <1>3, <1>5 DEF CountKnown, IInv
  <1>7. PageKnown'
    BY <1>1, <1>3 DEF PageKnown, IInv
  <1>8. PageExact'
    BY <1>1, <1>3, <1>5 DEF PageExact, InWindow, IInv
  <1>9. TagsKnown'
    <2>1. answer.items \subseteq active \/ "left" \in sincePage
      BY <1>1 DEF PageKnown, IInv
    <2> QED
      BY <1>1, <1>3, <2>1 DEF TagsKnown, AvailableTags
  <1>10. WalkInReach'
    BY <1>1, <1>5 DEF WalkInReach, IInv
  <1>11. SeenIsPassed'
    BY <1>1, <1>5 DEF SeenIsPassed, IInv
  <1>12. PassedIsSeen'
    BY <1>1, <1>3, <1>5 DEF PassedIsSeen, IInv
  <1> QED
    BY <1>4, <1>6, <1>7, <1>8, <1>9, <1>10, <1>11, <1>12 DEF IInv

\* Nothing is known of a request that failed.
LEMMA FailKeeps == ASSUME IInv, Fail PROVE IInv'
  <1>1. /\ Typed /\ stage' = "500"
        /\ UNCHANGED <<DB, active, at, writes, query, answer, sinceCount, sincePage, walk>>
    BY DEF Fail, IInv, rows
  <1>2. Typed'
    BY <1>1 DEF Typed, TableOK, RequestOK, WalkOK
  <1>3. CountKnown' /\ PageKnown' /\ PageExact' /\ TagsKnown'
    BY <1>1 DEF CountKnown, PageKnown, PageExact, TagsKnown
  <1>4. ~Walking'
    BY <1>1 DEF Walking, Statements
  <1>5. Distinct' = Distinct
    BY <1>1 DEF Distinct
  <1>6. WalkInReach' /\ SeenIsPassed' /\ PassedIsSeen'
    BY <1>1, <1>4, <1>5 DEF WalkInReach, SeenIsPassed, PassedIsSeen, IInv
  <1> QED
    BY <1>2, <1>3, <1>6 DEF IInv

\* An offset of at most as many rows as there are does not overflow.
LEMMA OffsetIsExact ==
  ASSUME NEW page \in Nat \ {0}, NEW limit \in Nat \ {0},
         (page - 1) * limit <= Cardinality(Refs)
  PROVE  Offset(page, limit) = (page - 1) * limit
  <1> DEFINE n == (page - 1) * limit
             h == Word \div 2
  <1>1. n \in Nat
    OBVIOUS
  <1>2. Word \in Nat /\ h \in Nat /\ h + h <= Word /\ n < h
    BY <1>1, ListingAssumption, RowsAreFinite
  <1> HIDE DEF n, h
  <1>3. (n + h) % Word = n + h
    BY <1>1, <1>2
  <1> QED
    BY <1>1, <1>2, <1>3 DEF Offset, Wrapped, n, h

LEMMA OffsetType ==
  ASSUME NEW page \in Nat, NEW limit \in Nat
  PROVE  Offset(page, limit) \in Int
  <1> DEFINE n == (page - 1) * limit
             h == Word \div 2
  <1>1. n \in Int /\ Word \in Nat \ {0} /\ h \in Int
    BY ListingAssumption
  <1> HIDE DEF n, h
  <1>2. ((n + h) % Word) - h \in Int
    BY <1>1
  <1> QED
    BY <1>2 DEF Offset, Wrapped, n, h

\* Whatever the database does with rows of one moment, the place of the
\* others is fixed.
LEMMA OrderIsOfMoments ==
  ASSUME NEW set \in SUBSET Refs, at \in Clocks, NEW order \in NewestFirst(set)
  PROVE  /\ Numbers(set, order)
         /\ \A r \in set \cap Distinct : Rank(r, set, order) = Rank(r, set, at)
  <1>1. /\ order \in [set -> 1 .. Cardinality(set)] /\ Cardinality(set) \in Nat
        /\ \A a, b \in set : a # b => (order[a] # order[b] /\ (at[a] < at[b] => order[a] < order[b]))
    BY RowsAreFinite DEF NewestFirst
  <1>2. Numbers(set, order)
    BY <1>1 DEF Numbers
  <1>3. at \in [Refs -> Nat]
    BY ListingAssumption
  <1>4. ASSUME NEW r \in set \cap Distinct
        PROVE  Rank(r, set, order) = Rank(r, set, at)
    <2>1. \A x \in set : order[x] > order[r] <=> at[x] > at[r]
      <3> TAKE x \in set
      <3>1. at[x] \in Nat /\ at[r] \in Nat /\ order[x] \in Nat /\ order[r] \in Nat
        BY <1>1, <1>3
      <3>2. x # r => at[x] # at[r]
        BY DEF Distinct
      <3> QED
        BY <1>1, <3>1, <3>2
    <2> QED
      BY <2>1 DEF Rank
  <1> QED
    BY <1>2, <1>4

Shift(offset) == IF offset > 0 THEN offset ELSE 0

LEMMA SliceFacts ==
  ASSUME NEW set \in SUBSET Refs, at \in Clocks, NEW order \in NewestFirst(set),
         NEW offset \in Int, NEW limit \in Nat \ {0}
  PROVE  /\ Slice(set, order, offset, limit) \in SUBSET set
         /\ Cardinality(Slice(set, order, offset, limit)) <= limit
         /\ (offset >= 0 /\ offset < Cardinality(set)) => Slice(set, order, offset, limit) # {}
         /\ offset >= 0 =>
              \A r \in set \cap Distinct :
                r \in Slice(set, order, offset, limit) <=>
                  Rank(r, set, at) >= offset /\ Rank(r, set, at) < offset + limit
  <1> DEFINE S == Slice(set, order, offset, limit)
  <1>1. S = {r \in set : Rank(r, set, order) >= offset /\ Rank(r, set, order) < limit + Shift(offset)}
    BY DEF Slice, Shift
  <1>2. Numbers(set, order) /\ \A r \in set \cap Distinct : Rank(r, set, order) = Rank(r, set, at)
    BY OrderIsOfMoments
  <1>3. \A r \in set : Rank(r, set, order) \in Nat
    BY RankType
  <1>4. Shift(offset) \in Nat /\ (offset >= 0 => Shift(offset) = offset)
    BY DEF Shift
  <1>5. S = {r \in set : Rank(r, set, order) >= Shift(offset)
                          /\ Rank(r, set, order) < Shift(offset) + limit}
    BY <1>1, <1>3, <1>4 DEF Shift
  <1>6. Cardinality(S) <= limit
    BY <1>2, <1>4, <1>5, WindowIsSmall
  <1>7. ASSUME offset >= 0, offset < Cardinality(set) PROVE S # {}
    <2>1. offset \in Nat
      BY <1>7
    <2>2. PICK r \in set : Rank(r, set, order) = offset
      BY <1>2, <1>7, <2>1, RanksOnto
    <2> QED
      BY <1>4, <1>5, <1>7, <2>2
  <1>8. ASSUME offset >= 0, NEW r \in set \cap Distinct
        PROVE  r \in S <=> Rank(r, set, at) >= offset /\ Rank(r, set, at) < offset + limit
    BY <1>2, <1>4, <1>5, <1>8
  <1> QED
    BY <1>1, <1>6, <1>7, <1>8

LEMMA ReadPageKeeps == ASSUME IInv, ReadPage PROVE IInv'
  <1> DEFINE n == answer.totalCount
             p == answer.totalPages
             offset == IF query' = query THEN Offset(query.page, query.limit) ELSE 0
             start == (query'.page - 1) * query.limit
  <1>1. /\ Typed /\ stage = "page" /\ stage' = "tags" /\ sincePage' = {}
        /\ query' = InRange(query, p)
        /\ UNCHANGED <<DB, active, at, writes, sinceCount>>
        /\ walk' = [walk EXCEPT !.on = @ /\ query' = query, !.asked = query.page,
                                !.seen = @ \cup answer'.items,
                                !.twice = @ \cup (walk.seen \cap answer'.items),
                                !.torn = @ \/ sinceCount # {}]
    BY DEF ReadPage, IInv, rows
  <1>2. PICK order \in NewestFirst(Found) :
           answer' = [answer EXCEPT !.items = Slice(Found, order, offset, query.limit)]
    BY DEF ReadPage, Found
  <1>3. /\ n \in Nat /\ p \in Nat /\ query.page \in Nat \ {0} /\ query.limit \in Nat \ {0}
        /\ Cardinality(Found) \in Nat /\ Cardinality(Refs) \in Nat
        /\ Found \in SUBSET Refs /\ Found \in SUBSET active
    BY <1>1, LimitType, FoundIsPart
  <1>4. /\ query' \in Query /\ UNCHANGED <<query.limit, query.search, query.tags>>
        /\ query'.page = IF p > 0 /\ query.page > p THEN 1 ELSE query.page
        /\ (p > 0 /\ query.page > p) => query' # query
        /\ ~(p > 0 /\ query.page > p) => query' = query
    BY <1>1, <1>3 DEF InRange, Query, Typed, RequestOK
  <1>5. /\ n <= Cardinality(Refs) /\ p = Pages(n, query.limit)
        /\ "left" \notin sinceCount => n <= Cardinality(Found)
        /\ "entered" \notin sinceCount => Cardinality(Found) <= n
    BY <1>1 DEF IInv, CountKnown
  <1>6. offset \in Int
    BY <1>3, OffsetType
  <1>7. /\ n > 0 => p > 0 /\ (p - 1) * query.limit < n /\ n <= p * query.limit
        /\ n = 0 => p = 0
    BY <1>3, <1>5, PagesSuffice DEF Pages
  <1>8. /\ walk'.on = (walk.on /\ query' = query) /\ walk'.asked = query.page
        /\ walk'.seen = walk.seen \cup answer'.items
        /\ walk'.twice = walk.twice \cup (walk.seen \cap answer'.items)
        /\ walk'.torn = (walk.torn \/ sinceCount # {})
        /\ UNCHANGED <<walk.there, walk.changes>>
        /\ (answer'.items \in SUBSET Refs => walk' \in WalkType)
    <2>1. walk \in WalkType
      BY <1>1 DEF Typed, WalkOK
    <2>2. walk' = [on |-> walk.on /\ query' = query, asked |-> query.page,
                   seen |-> walk.seen \cup answer'.items,
                   twice |-> walk.twice \cup (walk.seen \cap answer'.items),
                   there |-> walk.there, changes |-> walk.changes,
                   torn |-> walk.torn \/ sinceCount # {}]
      BY <1>1, <2>1 DEF WalkType
    <2>3. (walk.on /\ query' = query) \in BOOLEAN /\ (walk.torn \/ sinceCount # {}) \in BOOLEAN
      BY <2>1 DEF WalkType
    <2> QED
      BY <1>3, <2>1, <2>2, <2>3 DEF WalkType
  <1>9. ASSUME n > 0
        PROVE  /\ query'.page <= p /\ start < n /\ offset = start /\ start \in Nat
               /\ query.page <= p => query'.page = query.page
    <2>1. CASE query.page > p
      <3>1. query'.page = 1 /\ query' # query
        BY <1>4, <1>7, <1>9, <2>1
      <3> QED
        BY <1>3, <1>7, <1>9, <2>1, <3>1
    <2>2. CASE query.page <= p
      <3>1. query' = query /\ query'.page = query.page
        BY <1>3, <1>4, <2>2
      <3>2. start <= (p - 1) * query.limit /\ start \in Nat /\ (p - 1) * query.limit \in Int
        BY <1>3, <2>2, <3>1, PagesGrow
      <3>3. start < n
        BY <1>3, <1>7, <1>9, <3>2
      <3>4. Offset(query.page, query.limit) = start
        BY <1>3, <1>5, <3>1, <3>2, <3>3, OffsetIsExact
      <3> QED
        BY <2>2, <3>1, <3>2, <3>3, <3>4
    <2> QED
      BY <1>3, <2>1, <2>2
  <1>10. ASSUME walk'.on
         PROVE  query' = query /\ Walking /\ offset = start /\ start \in Nat /\ start <= Cardinality(Refs)
    <2>1. query' = query /\ Walking
      BY <1>1, <1>8, <1>10 DEF Walking, Statements
    <2>2. start <= Cardinality(Refs)
      BY <2>1 DEF IInv, WalkInReach
    <2>3. start = (query.page - 1) * query.limit /\ start \in Nat
      BY <1>3, <2>1
    <2>4. Offset(query.page, query.limit) = start
      BY <1>3, <2>2, <2>3, OffsetIsExact
    <2> QED
      BY <2>1, <2>2, <2>3, <2>4
  <1> DEFINE items == Slice(Found, order, offset, query.limit)
             finish == query'.page * query.limit
  <1>11. /\ start + query.limit = finish /\ finish \in Nat
         /\ (finish >= p * query.limit \/ query'.page < p)
    <2>1. query'.page \in Nat
      BY <1>4 DEF Query
    <2>2. p <= query'.page => p * query.limit <= finish
      BY <1>3, <2>1, PagesGrow
    <2> QED
      BY <1>3, <2>1, <2>2
  <1>12. /\ items \in SUBSET Found
         /\ Cardinality(items) <= query.limit
         /\ (offset >= 0 /\ offset < Cardinality(Found)) => items # {}
         /\ offset >= 0 =>
              \A r \in Found \cap Distinct :
                r \in items <=> Rank(r, Found, at) >= offset /\ Rank(r, Found, at) < offset + query.limit
    <2>1. at \in Clocks
      BY <1>1 DEF Typed, TableOK
    <2> HIDE DEF offset
    <2> QED
      BY <1>3, <1>6, <2>1, SliceFacts
  <1>13. /\ answer' \in AnswerType /\ answer'.items = items
         /\ UNCHANGED <<answer.totalCount, answer.totalPages, answer.availableTags>>
    <2>1. answer \in AnswerType
      BY <1>1 DEF Typed, RequestOK
    <2>2. items \in SUBSET Refs
      BY <1>3, <1>12
    <2>3. answer' = [answer EXCEPT !.items = items]
      BY <1>2
    <2> HIDE DEF items
    <2> QED
      BY <2>1, <2>2, <2>3 DEF AnswerType
  <1> HIDE DEF offset, items, start
  <1>14. Typed'
    <2>1. TableOK'
      BY <1>1 DEF Typed, TableOK
    <2>2. sincePage' \in Changes /\ sinceCount' \in Changes
      BY <1>1 DEF Typed, RequestOK, Changes
    <2>3. RequestOK'
      BY <1>1, <1>4, <1>13, <2>2 DEF RequestOK, Statements
    <2>4. WalkOK'
      BY <1>1, <1>3, <1>8, <1>12, <1>13 DEF Typed, WalkOK
    <2> QED
      BY <2>1, <2>3, <2>4 DEF Typed
  <1>15. Found' = Found /\ Distinct' = Distinct /\ at' = at
    BY <1>1, <1>4 DEF Found, Matches, Distinct
  <1>16. Passed' = finish
    BY <1>1, <1>4 DEF Passed
  <1>17. Walking' => walk'.on
    BY DEF Walking
  <1>18. CountKnown'
    BY <1>1, <1>4, <1>5, <1>13, <1>15 DEF CountKnown
  <1>19. PageKnown'
    <2>1. Cardinality(items) <= query.limit /\ items \subseteq active
      BY <1>3, <1>12
    <2>2. \A r \in items : query.tags \subseteq TagsOf[r] /\ r \in Hits[query.search]
      BY <1>12 DEF Found, Matches, Matching
    <2>3. ASSUME items = {}, n > 0 PROVE "left" \in sinceCount
      BY <1>3, <1>5, <1>9, <1>12, <2>3
    <2>4. Cardinality(items) > n => "entered" \in sinceCount
      <3>1. Cardinality(items) <= Cardinality(Found) /\ Cardinality(items) \in Nat
        BY <1>3, <1>12, MoreRows, RowsAreFinite
      <3> QED
        BY <1>3, <1>5, <3>1
    <2> QED
      BY <1>1, <1>4, <1>13, <2>1, <2>2, <2>3, <2>4 DEF PageKnown
  <1>20. PageExact'
    <2> SUFFICES ASSUME sinceCount = {}
                 PROVE  /\ n > 0 =>
                             /\ query'.page <= p
                             /\ query.page <= p => query'.page = query.page
                        /\ \A r \in Found \cap Distinct :
                             r \in items <=> Rank(r, Found, at) >= start /\ Rank(r, Found, at) < finish
      BY <1>1, <1>4, <1>8, <1>13, <1>15 DEF PageExact, InWindow, start
    <2>1. CASE n > 0
      BY <1>9, <1>11, <1>12, <2>1
    <2>2. CASE n = 0
      <3>1. Found = {}
        BY <1>3, <1>5, <2>2, SomeRow
      <3> QED
        BY <2>2, <3>1
    <2> QED
      BY <1>3, <2>1, <2>2
  <1>21. TagsKnown'
    BY <1>1 DEF TagsKnown
  <1>22. WalkInReach'
    BY <1>4, <1>10, <1>17 DEF WalkInReach, start
  <1>23. SeenIsPassed'
    <2> SUFFICES ASSUME walk'.on, "entered" \notin walk.changes
                 PROVE  /\ walk'.twice \cap Distinct = {}
                        /\ \A r \in walk'.seen \cap Distinct \cap active :
                              r \in Found /\ Rank(r, Found, at) < finish
      BY <1>1, <1>8, <1>15, <1>16 DEF SeenIsPassed
    <2>1. walk.on /\ Walking /\ Passed = start
      BY <1>1, <1>8, <1>10 DEF Passed, start
    <2>2. /\ walk.twice \cap Distinct = {}
          /\ \A r \in walk.seen \cap Distinct \cap active : r \in Found /\ Rank(r, Found, at) < start
      BY <2>1 DEF SeenIsPassed, IInv
    <2>3. \A r \in Found \cap Distinct :
             r \in items <=> Rank(r, Found, at) >= start /\ Rank(r, Found, at) < finish
      BY <1>10, <1>11, <1>12
    <2>4. \A r \in Found : Rank(r, Found, at) \in Nat
      BY <1>3, RankType
    <2>5. start \in Nat /\ finish \in Nat /\ start <= finish
      BY <1>3, <1>10, <1>11
    <2>6. walk.seen \cap items \cap Distinct = {}
      BY <1>3, <1>12, <2>2, <2>3, <2>4, <2>5
    <2>7. walk'.twice \cap Distinct = {}
      BY <1>8, <1>13, <2>2, <2>6
    <2>8. ASSUME NEW r \in walk'.seen \cap Distinct \cap active
          PROVE  r \in Found /\ Rank(r, Found, at) < finish
      <3>1. CASE r \in walk.seen
        BY <2>2, <2>4, <2>5, <3>1
      <3>2. CASE r \in items
        BY <1>12, <2>3, <3>2
      <3> QED
        BY <1>8, <1>13, <3>1, <3>2
    <2> QED
      BY <2>7, <2>8
  <1>24. PassedIsSeen'
    <2> DEFINE stayed == Matching(walk.there, query.search, query.tags) \cap Distinct
    <2> SUFFICES ASSUME walk'.on, "left" \notin walk.changes, ~walk.torn, sinceCount = {}
                 PROVE  /\ \A r \in stayed : r \in walk'.seen \/ Rank(r, Found, at) >= finish
                        /\ query'.page >= p => stayed \subseteq walk'.seen
      BY <1>1, <1>4, <1>8, <1>13, <1>15, <1>16, <1>17 DEF PassedIsSeen
    <2>1. Walking /\ Passed = start
      BY <1>1, <1>10 DEF Passed, start
    <2>2. \A r \in stayed : r \in walk.seen \/ Rank(r, Found, at) >= start
      BY <2>1 DEF PassedIsSeen, IInv
    <2>3. \A r \in Found \cap Distinct :
             r \in items <=> Rank(r, Found, at) >= start /\ Rank(r, Found, at) < finish
      BY <1>10, <1>11, <1>12
    <2>4. stayed \subseteq Found \cap Distinct
      BY <1>1 DEF Typed, WalkOK, Found, Matches, Matching
    <2>5. \A r \in Found : Rank(r, Found, at) \in Nat /\ Rank(r, Found, at) < Cardinality(Found)
      <3>1. at \in [Refs -> Nat]
        BY <1>1, ListingAssumption DEF Typed, TableOK
      <3> QED
        BY <1>3, <3>1, RankType, RankBelow
    <2>6. walk'.seen = walk.seen \cup items
      BY <1>8, <1>13
    <2>7. \A r \in stayed : r \in walk'.seen \/ Rank(r, Found, at) >= finish
      BY <1>11, <2>2, <2>3, <2>4, <2>5, <2>6
    <2>8. ASSUME query'.page >= p, NEW r \in stayed PROVE r \in walk'.seen
      <3>1. n <= p * query.limit /\ p * query.limit \in Nat
        BY <1>3, <1>7
      <3>2. finish >= p * query.limit
        BY <1>3, <1>4, <1>11, <2>8 DEF Query
      <3>3. Rank(r, Found, at) < finish
        BY <1>3, <1>5, <1>11, <2>4, <2>5, <3>1, <3>2
      <3> QED
        BY <1>11, <2>4, <2>5, <2>7, <3>3
    <2> QED
      BY <2>7, <2>8
  <1> QED
    BY <1>14, <1>18, <1>19, <1>20, <1>21, <1>22, <1>23, <1>24 DEF IInv
-----------------------------------------------------------------------------
(* Together. *)

LEMMA Unchanged == ASSUME IInv, UNCHANGED vars PROVE IInv'
  <1>1. UNCHANGED <<DB, active, at, writes, stage, query, answer, sinceCount, sincePage, walk>>
    BY DEF vars, rows, list
  <1>2. Typed'
    BY <1>1 DEF IInv, Typed, TableOK, RequestOK, WalkOK
  <1>3. Found' = Found /\ Passed' = Passed /\ Distinct' = Distinct /\ (Walking' <=> Walking)
    BY <1>1 DEF Found, Matches, Passed, Distinct, Walking
  <1>4. CountKnown' /\ PageKnown' /\ TagsKnown'
    BY <1>1, <1>3 DEF IInv, CountKnown, PageKnown, TagsKnown
  <1>5. PageExact'
    BY <1>1, <1>3 DEF IInv, PageExact, InWindow
  <1>6. WalkInReach' /\ SeenIsPassed'
    BY <1>1, <1>3 DEF IInv, WalkInReach, SeenIsPassed
  <1>7. PassedIsSeen'
    BY <1>1, <1>3 DEF IInv, PassedIsSeen
  <1> QED
    BY <1>2, <1>4, <1>5, <1>6, <1>7 DEF IInv

LEMMA NextKeeps == IInv /\ [Next]_vars => IInv'
  BY RequestKeeps, NextPageKeeps, CountKeeps, ReadPageKeeps, ReadTagsKeeps, FailKeeps, EnterKeeps,
     LeaveKeeps, Unchanged DEF Next

LEMMA Invariance == Spec => []IInv
  BY Initially, NextKeeps, PTL DEF Spec

\* GetReferences carries out no request with a page or a limit out of range, and
\* its state keeps its type.
THEOREM ListingTypeCorrect == Spec => []TypeOK
  BY Invariance, InvIsTyped, PTL

\* An answer of GetReferences that nobody wrote during is what one look at the
\* table gives, for any table, page and limit.
THEOREM QuietAnswers == Spec => []QuietAnswersAreSnapshots
  BY Invariance, InvIsQuiet, PTL

\* Whatever is written between the three queries, an answer whose parts
\* disagree has a commit of the kind that explains it.
THEOREM TornAnswers == Spec => []TornAnswersHaveACause
  BY Invariance, InvIsTorn, PTL

\* A reader who walks through the pages is shown every row that stayed, unless
\* a row left or one answer was torn.
THEOREM WalksMissNothing == Spec => []WalkMissesNothing
  BY Invariance, InvWalks, PTL

\* And none twice, unless a row entered.
THEOREM WalksRepeatNothing == Spec => []WalkRepeatsNothing
  BY Invariance, InvWalks, PTL
-----------------------------------------------------------------------------
(* The tables there have been since the request, and which of them the      *)
(* parts of the answer are true of.                                         *)

MatchingIn(v) == Matching(v, query.search, query.tags)

ViewsOK ==
    /\ views \in Seq(SUBSET Refs)
    /\ stage \in Statements => Len(views) >= 1 /\ views[Len(views)] = active
    /\ stage \notin Statements => views = <<>>

CountIsOf(v) == answer.totalCount = Cardinality(MatchingIn(v))

PageIsOf(v, w) ==
    /\ query.page = (IF MatchingIn(v) # {} /\ walk.asked > answer.totalPages THEN 1 ELSE walk.asked)
    /\ MatchingIn(v) # {} => Answers!IsPage(answer.items, MatchingIn(w), query.page, query.limit)
    /\ MatchingIn(v) = {} => answer.items \subseteq MatchingIn(w)

CountSeen == stage = "page" => \E i \in DOMAIN views : CountIsOf(views[i])

PageSeen ==
    stage = "tags" =>
        \E i, j \in DOMAIN views : i <= j /\ CountIsOf(views[i]) /\ PageIsOf(views[i], views[j])

ViewsInv == ViewsOK /\ CountSeen /\ PageSeen

LEMMA LastView ==
  ASSUME ViewsOK, stage \in Statements
  PROVE  /\ Len(views) \in DOMAIN views /\ views[Len(views)] = active
         /\ \A i \in DOMAIN views : i <= Len(views) /\ views[i] \in SUBSET Refs
  BY DEF ViewsOK

\* A request that is not under way has no views, and nothing to be known of them.
LEMMA ViewsEnd ==
  ASSUME Watch, stage' \notin Statements
  PROVE  ViewsInv'
  <1>1. views' = <<>>
    BY DEF Watch
  <1>2. <<>> \in Seq(SUBSET Refs)
    OBVIOUS
  <1> QED
    BY <1>1, <1>2 DEF ViewsInv, ViewsOK, CountSeen, PageSeen, Statements

LEMMA ReceivedViews ==
  ASSUME Typed, NEW p, stage \notin Statements, Received(p), Watch
  PROVE  ViewsInv'
  <1>1. CASE stage' \notin Statements
    BY <1>1, ViewsEnd
  <1>2. CASE stage' \in Statements
    <2>1. views' = <<active>> /\ active' = active /\ stage' = "count" /\ active \in SUBSET Refs
      BY <1>2 DEF Watch, Received, rows, Statements, Typed, TableOK
    <2>2. <<active>> \in Seq(SUBSET Refs) /\ Len(<<active>>) = 1 /\ <<active>>[1] = active
      BY <2>1
    <2> QED
      BY <2>1, <2>2 DEF ViewsInv, ViewsOK, CountSeen, PageSeen, Statements
  <1> QED
    BY <1>1, <1>2

LEMMA CountViews == ASSUME Typed, ViewsInv, Count, Watch PROVE ViewsInv'
  <1>1. /\ stage = "count" /\ stage' = "page" /\ active' = active /\ query' = query
        /\ answer' = [answer EXCEPT !.totalCount = Cardinality(Found),
                                    !.totalPages = Pages(Cardinality(Found), query.limit)]
    BY DEF Count, rows, Found
  <1>2. views' = views
    BY <1>1 DEF Watch, Statements
  <1>3. answer'.totalCount = Cardinality(Found)
    BY <1>1 DEF Typed, RequestOK, AnswerType
  <1>4. Len(views) \in DOMAIN views /\ views[Len(views)] = active
    BY <1>1, LastView DEF ViewsInv, Statements
  <1>5. \E i \in DOMAIN views : CountIsOf(views[i])'
    BY <1>1, <1>2, <1>3, <1>4 DEF CountIsOf, MatchingIn, Found, Matches
  <1> QED
    BY <1>1, <1>2, <1>5 DEF ViewsInv, ViewsOK, CountSeen, PageSeen, Statements

\* ListAnswers has the operators of ReferenceList, too.
LEMMA SameOperators ==
  /\ \A set : Answers!Cardinality(set) = Cardinality(set)
  /\ \A r, set, order : Answers!Rank(r, set, order) = Rank(r, set, order)
  /\ \A set, search, tags : Answers!Matching(set, search, tags) = Matching(set, search, tags)
  /\ \A set : Answers!AvailableTags(set) = AvailableTags(set)
  <1>1. \A set : Answers!Cardinality(set) = Cardinality(set)
    BY DEF Answers!Cardinality, Cardinality
  <1>2. \A r, set, order : Answers!Rank(r, set, order) = Rank(r, set, order)
    BY <1>1 DEF Answers!Rank, Rank
  <1> QED
    BY <1>1, <1>2 DEF Answers!Matching, Matching, Answers!AvailableTags, AvailableTags

\* The rows read are those of a page in the order that the database chose.
LEMMA SliceIsPage ==
  ASSUME NEW found \in SUBSET Refs, NEW order \in NewestFirst(found),
         NEW page \in Nat \ {0}, NEW limit \in Nat \ {0}
  PROVE  Answers!IsPage(Slice(found, order, (page - 1) * limit, limit), found, page, limit)
  <1> DEFINE start == (page - 1) * limit
  <1>1. start \in Nat /\ limit + (IF start > 0 THEN start ELSE 0) = page * limit
    OBVIOUS
  <1>2. Slice(found, order, start, limit)
          = {r \in found : Rank(r, found, order) >= start /\ Rank(r, found, order) < page * limit}
    BY <1>1 DEF Slice
  <1>3. /\ order \in [found -> 1 .. Cardinality(found)]
        /\ \A a, b \in found : a # b => (order[a] # order[b] /\ (at[a] < at[b] => order[a] < order[b]))
    BY DEF NewestFirst
  <1> QED
    BY <1>2, <1>3, SameOperators DEF Answers!IsPage

LEMMA ReadPageViews == ASSUME IInv, ViewsInv, ReadPage, Watch PROVE ViewsInv'
  <1> DEFINE offset == IF query' = query THEN Offset(query.page, query.limit) ELSE 0
  <1>1. /\ Typed /\ stage = "page" /\ stage' = "tags" /\ active' = active /\ at' = at
        /\ query' = InRange(query, answer.totalPages)
    BY DEF ReadPage, rows, IInv
  <1>2. views' = views
    BY <1>1 DEF Watch, Statements
  <1>3. PICK order \in NewestFirst(Found) :
           answer' = [answer EXCEPT !.items = Slice(Found, order, offset, query.limit)]
    BY DEF ReadPage, Found
  <1>4. /\ query.limit \in Nat \ {0} /\ query.page \in Nat \ {0}
        /\ answer.totalCount \in Nat /\ answer.totalPages \in Nat
        /\ Found \in SUBSET Refs /\ Cardinality(Refs) \in Nat
    BY <1>1, LimitType, FoundIsPart
  <1>5. /\ UNCHANGED <<query.limit, query.search, query.tags>>
        /\ query'.page = IF answer.totalPages > 0 /\ query.page > answer.totalPages
                         THEN 1 ELSE query.page
        /\ (answer.totalPages > 0 /\ query.page > answer.totalPages) => query' # query
        /\ ~(answer.totalPages > 0 /\ query.page > answer.totalPages) => query' = query
    BY <1>1, <1>4 DEF InRange, Query, Typed, RequestOK
  <1>6. walk'.asked = query.page
    <2>1. walk \in WalkType
      BY <1>1 DEF Typed, WalkOK
    <2> QED
      BY <2>1 DEF ReadPage, WalkType
  <1>7. /\ answer'.items = Slice(Found, order, offset, query.limit)
        /\ answer'.totalCount = answer.totalCount /\ answer'.totalPages = answer.totalPages
    BY <1>1, <1>3 DEF Typed, RequestOK, AnswerType
  <1>8. PICK i \in DOMAIN views : CountIsOf(views[i])
    BY <1>1 DEF ViewsInv, CountSeen
  <1>9. /\ Len(views) \in DOMAIN views /\ views[Len(views)] = active /\ i <= Len(views)
        /\ views[i] \in SUBSET Refs
    BY <1>1, LastView DEF ViewsInv, Statements
  <1> DEFINE counted == MatchingIn(views[i])
  <1>10. /\ counted \in SUBSET Refs /\ (answer.totalCount = 0 <=> counted = {})
         /\ answer.totalPages = Pages(answer.totalCount, query.limit)
         /\ answer.totalCount <= Cardinality(Refs)
    <2>1. counted \in SUBSET Refs
      BY <1>9 DEF MatchingIn, Matching
    <2>2. answer.totalCount = Cardinality(counted)
      BY <1>8 DEF CountIsOf
    <2> QED
      BY <1>1, <2>1, <2>2, SomeRow DEF IInv, CountKnown
  <1> HIDE DEF counted
  <1>11. answer.totalPages > 0 <=> counted # {}
    BY <1>4, <1>10, PagesSuffice DEF Pages
  <1>12. ASSUME counted # {} PROVE offset = (query'.page - 1) * query.limit
    <2>1. CASE query.page > answer.totalPages
      BY <1>4, <1>5, <1>11, <1>12, <2>1
    <2>2. CASE query.page <= answer.totalPages
      <3>1. (answer.totalPages - 1) * query.limit < answer.totalCount
        BY <1>4, <1>10, <1>12, PagesSuffice DEF Pages
      <3>2. (query.page - 1) * query.limit <= (answer.totalPages - 1) * query.limit
        BY <1>4, <2>2, PagesGrow
      <3>3. (query.page - 1) * query.limit \in Int /\ (answer.totalPages - 1) * query.limit \in Int
        BY <1>4
      <3>4. (query.page - 1) * query.limit <= Cardinality(Refs)
        BY <1>4, <1>10, <3>1, <3>2, <3>3
      <3>5. Offset(query.page, query.limit) = (query.page - 1) * query.limit
        BY <1>4, <3>4, OffsetIsExact
      <3>6. query' = query
        BY <1>4, <1>5, <2>2
      <3> QED
        BY <3>5, <3>6
    <2> QED
      BY <1>4, <2>1, <2>2
  <1>13. query'.page \in Nat \ {0}
    BY <1>4, <1>5
  <1> HIDE DEF offset
  <1>14. counted # {} => Answers!IsPage(answer'.items, Found, query'.page, query.limit)
    BY <1>4, <1>7, <1>12, <1>13, SliceIsPage
  <1>15. counted = {} => answer'.items \subseteq Found
    BY <1>7 DEF Slice
  <1>16. query'.page = IF counted # {} /\ walk'.asked > answer'.totalPages THEN 1 ELSE walk'.asked
    BY <1>5, <1>6, <1>7, <1>11
  <1>17. MatchingIn(views[i])' = counted /\ MatchingIn(views[Len(views)])' = Found
    BY <1>2, <1>5, <1>9 DEF MatchingIn, Found, Matches, counted
  <1>18. CountIsOf(views[i])'
    BY <1>7, <1>8, <1>17 DEF CountIsOf, counted
  <1>19. Found' = Found /\ at' = at /\ query'.limit = query.limit
    BY <1>1, <1>5 DEF Found, Matches
  <1>20. PageIsOf(views[i], views[Len(views)])'
    <2>1. counted # {} =>
             Answers!IsPage(answer.items, MatchingIn(views[Len(views)]), query.page, query.limit)'
      BY <1>14, <1>17, <1>19 DEF Answers!IsPage
    <2>2. counted = {} => answer'.items \subseteq MatchingIn(views[Len(views)])'
      BY <1>15, <1>17
    <2> QED
      BY <1>16, <1>17, <2>1, <2>2 DEF PageIsOf
  <1>21. \E k, j \in DOMAIN views' : k <= j /\ CountIsOf(views[k])' /\ PageIsOf(views[k], views[j])'
    BY <1>2, <1>9, <1>18, <1>20
  <1>22. PageSeen' /\ CountSeen'
    BY <1>1, <1>21 DEF PageSeen, CountSeen
  <1>23. ViewsOK'
    BY <1>1, <1>2 DEF ViewsInv, ViewsOK, Statements
  <1> QED
    BY <1>22, <1>23 DEF ViewsInv

\* A commit adds a view; those there were are still true of what they were true of.
LEMMA WriteViews ==
  ASSUME Typed, ViewsInv, NEW r \in Refs, Enter(r) \/ Leave(r), Watch
  PROVE  ViewsInv'
  <1>1. /\ active' # active /\ active' \in SUBSET Refs /\ at' = at
        /\ stage' = stage /\ query' = query /\ answer' = answer
    BY DEF Enter, Leave, Written, list, Typed, TableOK
  <1>2. walk'.asked = walk.asked
    <2>1. walk \in WalkType
      BY DEF Typed, WalkOK
    <2> QED
      BY <2>1 DEF Enter, Leave, WalkType
  <1>3. CASE stage \notin Statements
    BY <1>1, <1>3, ViewsEnd
  <1>4. CASE stage \in Statements
    <2>1. views' = Append(views, active') /\ views \in Seq(SUBSET Refs)
      BY <1>1, <1>4 DEF Watch, ViewsInv, ViewsOK
    <2>2. /\ views' \in Seq(SUBSET Refs) /\ Len(views') = Len(views) + 1
          /\ views'[Len(views')] = active'
          /\ \A i \in DOMAIN views : i \in DOMAIN views' /\ views'[i] = views[i]
      BY <1>1, <2>1
    <2>3. Len(views) \in Nat
      BY <2>1
    <2>4. ViewsOK'
      BY <1>1, <1>4, <2>2, <2>3 DEF ViewsOK
    <2>5. CountSeen'
      <3>1. ASSUME stage = "page" PROVE \E i \in DOMAIN views' : CountIsOf(views[i])'
        <4>1. PICK i \in DOMAIN views : CountIsOf(views[i])
          BY <3>1 DEF ViewsInv, CountSeen
        <4>2. i \in DOMAIN views' /\ CountIsOf(views[i])'
          BY <1>1, <2>2, <4>1 DEF CountIsOf, MatchingIn
        <4> QED
          BY <4>2
      <3> QED
        BY <1>1, <3>1 DEF CountSeen
    <2>6. PageSeen'
      <3>1. ASSUME stage = "tags"
            PROVE  \E i, j \in DOMAIN views' :
                      i <= j /\ CountIsOf(views[i])' /\ PageIsOf(views[i], views[j])'
        <4>1. PICK i, j \in DOMAIN views :
                i <= j /\ CountIsOf(views[i]) /\ PageIsOf(views[i], views[j])
          BY <3>1 DEF ViewsInv, PageSeen
        <4>2. i \in DOMAIN views' /\ j \in DOMAIN views'
          BY <2>2, <4>1
        <4>3. MatchingIn(views[i])' = MatchingIn(views[i]) /\ MatchingIn(views[j])' = MatchingIn(views[j])
          BY <1>1, <2>2, <4>1 DEF MatchingIn
        <4>4. CountIsOf(views[i])'
          BY <1>1, <4>1, <4>3 DEF CountIsOf
        <4>5. PageIsOf(views[i], views[j])'
          BY <1>1, <1>2, <4>1, <4>3 DEF PageIsOf, Answers!IsPage
        <4> QED
          BY <4>1, <4>2, <4>4, <4>5
      <3> QED
        BY <1>1, <3>1 DEF PageSeen
    <2> QED
      BY <2>4, <2>5, <2>6 DEF ViewsInv
  <1> QED
    BY <1>3, <1>4

LEMMA ViewsInitially == ASSUME Init, views = <<>> PROVE ViewsInv
  <1>1. <<>> \in Seq(SUBSET Refs)
    OBVIOUS
  <1> QED
    BY <1>1 DEF Init, ViewsInv, ViewsOK, CountSeen, PageSeen, Statements

LEMMA ViewsKept ==
  ASSUME IInv, ViewsInv, [Next /\ Watch]_<<vars, views>>
  PROVE  ViewsInv'
  <1>1. Typed
    BY DEF IInv
  <1>2. ASSUME NEW p \in Params, Request(p), Watch PROVE ViewsInv'
    BY <1>1, <1>2, ReceivedViews DEF Request, Idle
  <1>3. ASSUME NextPage, Watch PROVE ViewsInv'
    <2>1. stage \notin Statements
      BY <1>3 DEF NextPage, Statements
    <2> QED
      BY <1>1, <1>3, <2>1, ReceivedViews DEF NextPage
  <1>4. ASSUME ReadTags \/ Fail, Watch PROVE ViewsInv'
    BY <1>4, ViewsEnd DEF ReadTags, Fail, Statements
  <1>5. ASSUME UNCHANGED <<vars, views>> PROVE ViewsInv'
    <2>1. UNCHANGED <<active, at, stage, query, answer, walk, views>>
      BY <1>5 DEF vars, rows, list
    <2>2. ViewsOK' /\ CountSeen'
      BY <2>1 DEF ViewsInv, ViewsOK, CountSeen, CountIsOf, MatchingIn
    <2>3. PageSeen'
      BY <2>1 DEF ViewsInv, PageSeen, CountIsOf, PageIsOf, MatchingIn, Answers!IsPage
    <2> QED
      BY <2>2, <2>3 DEF ViewsInv
  <1> QED
    BY <1>1, <1>2, <1>3, <1>4, <1>5, CountViews, ReadPageViews, WriteViews DEF Next
-----------------------------------------------------------------------------
(* Every statement is a step of ListAnswers, or none. *)

LEMMA AnswersInit == ASSUME Init, views = <<>> PROVE Answers!Init
  <1>1. active \in SUBSET Refs /\ at \in Clocks /\ stage = "idle"
    BY DEF Init
  <1> QED
    BY <1>1 DEF Answers!Init, Phase, Asked, Response, Statements

\* A request that arrives is asked for, or turned down at once.
LEMMA ReceivedAnswers ==
  ASSUME Typed', NEW p, stage \notin Statements, Received(p), Watch
  PROVE  Answers!Ask \/ Answers!GiveUp
  <1>1. UNCHANGED <<active, at>> /\ stage' \in {"400", "503", "count"}
    BY DEF Received, rows
  <1>2. CASE stage' = "count"
    <2>1. views' = <<active>> /\ Phase # "asked" /\ Phase' = "asked" /\ Asked' = query'
          /\ Response' = Absent
      BY <1>2 DEF Watch, Statements, Phase, Asked, Response
    <2>2. query' \in AllQueries
      <3>1. query' \in Query /\ MaxLimit \in Nat
        BY ListingAssumption DEF Typed, RequestOK
      <3> QED
        BY <3>1 DEF Query, AllQueries
    <2> QED
      BY <1>1, <2>1, <2>2 DEF Answers!Ask
  <1>3. CASE stage' \in {"400", "503"}
    BY <1>1, <1>3 DEF Watch, Statements, Phase, Asked, Response, Answers!GiveUp
  <1> QED
    BY <1>1, <1>2, <1>3

LEMMA CountAnswers == ASSUME Count, Watch PROVE UNCHANGED Answers!listing
  BY DEF Count, Watch, rows, Statements, Phase, Asked, Response, Answers!listing

LEMMA ReadPageAnswers == ASSUME Typed, ReadPage, Watch PROVE UNCHANGED Answers!listing
  <1>1. /\ stage = "page" /\ stage' = "tags" /\ active' = active /\ at' = at /\ views' = views
        /\ query' = InRange(query, answer.totalPages)
    BY DEF ReadPage, rows, Watch, Statements
  <1>2. walk'.asked = query.page
    <2>1. walk \in WalkType
      BY DEF Typed, WalkOK
    <2> QED
      BY <2>1 DEF ReadPage, WalkType
  <1>3. [query' EXCEPT !.page = query.page] = query
    <2>1. query \in Query
      BY DEF Typed, RequestOK
    <2> QED
      BY <1>1, <2>1 DEF InRange, Query
  <1>4. Asked' = Asked
    BY <1>1, <1>2, <1>3 DEF Asked
  <1> QED
    BY <1>1, <1>4 DEF Statements, Phase, Response, Answers!listing

LEMMA ReadTagsAnswers == ASSUME IInv, ViewsInv, ReadTags, Watch PROVE Answers!Answer
  <1>1. /\ Typed /\ stage = "tags" /\ stage' = "200"
        /\ UNCHANGED <<active, at, query, walk>> /\ views' = <<>>
        /\ answer' = [answer EXCEPT !.availableTags = AvailableTags(active)]
    BY DEF ReadTags, rows, IInv, Watch, Statements
  <1>2. /\ answer'.availableTags = AvailableTags(active)
        /\ UNCHANGED <<answer.totalCount, answer.totalPages, answer.items>>
    BY <1>1 DEF Typed, RequestOK, AnswerType
  <1>3. /\ query.limit \in Nat \ {0} /\ query.page \in Nat \ {0}
        /\ answer.totalCount \in Nat /\ answer.totalPages \in Nat
    BY <1>1, LimitType
  <1>4. PICK i, j \in DOMAIN views : i <= j /\ CountIsOf(views[i]) /\ PageIsOf(views[i], views[j])
    BY <1>1 DEF ViewsInv, PageSeen
  <1>5. Len(views) \in DOMAIN views /\ views[Len(views)] = active /\ j <= Len(views)
    BY <1>1, LastView DEF ViewsInv, Statements
  <1>6. /\ Asked.page = walk.asked /\ Asked.limit = query.limit
        /\ Asked.search = query.search /\ Asked.tags = query.tags
    BY <1>1 DEF Asked, Typed, RequestOK, Query
  <1>7. /\ Response'.page = query.page /\ Response'.totalCount = answer.totalCount
        /\ Response'.totalPages = answer.totalPages /\ Response'.items = answer.items
        /\ Response'.availableTags = AvailableTags(active)
    BY <1>1, <1>2 DEF Response
  <1>8. Answers!Holds(answer.totalPages, query.limit, answer.totalCount)
    <2>1. answer.totalPages = Pages(answer.totalCount, query.limit)
      BY <1>1 DEF IInv, CountKnown
    <2> QED
      BY <1>3, <2>1, PagesSuffice DEF Pages, Answers!Holds
  <1>9. Cardinality(answer.items) <= query.limit
    BY <1>1 DEF IInv, PageKnown
  <1> HIDE DEF Asked, Response
  <1>10. /\ answer.totalCount = Cardinality(MatchingIn(views[i]))
         /\ query.page = (IF MatchingIn(views[i]) # {} /\ walk.asked > answer.totalPages
                          THEN 1 ELSE walk.asked)
         /\ MatchingIn(views[i]) # {} =>
              Answers!IsPage(answer.items, MatchingIn(views[j]), query.page, query.limit)
         /\ MatchingIn(views[i]) = {} => answer.items \subseteq MatchingIn(views[j])
    BY <1>4 DEF CountIsOf, PageIsOf
  <1>11. Answers!IsAnswer(Response', Asked, MatchingIn(views[i]), MatchingIn(views[j]),
                          views[Len(views)])
    BY <1>3, <1>5, <1>6, <1>7, <1>8, <1>9, <1>10, SameOperators DEF Answers!IsAnswer
  <1>12. /\ MatchingIn(views[i]) = Answers!Matching(views[i], Asked.search, Asked.tags)
         /\ MatchingIn(views[j]) = Answers!Matching(views[j], Asked.search, Asked.tags)
    BY <1>6, SameOperators DEF MatchingIn
  <1>13. \E a, b, c \in DOMAIN views :
           /\ a <= b /\ b <= c
           /\ Answers!IsAnswer(Response', Asked,
                               Answers!Matching(views[a], Asked.search, Asked.tags),
                               Answers!Matching(views[b], Asked.search, Asked.tags), views[c])
    BY <1>4, <1>5, <1>11, <1>12
  <1>14. Phase = "asked" /\ Phase' = "answered" /\ Asked' = Asked
    BY <1>1 DEF Phase, Statements, Asked
  <1> QED
    BY <1>1, <1>13, <1>14 DEF Answers!Answer

LEMMA WriteAnswers ==
  ASSUME Typed, ViewsOK, NEW r \in Refs, Enter(r) \/ Leave(r), Watch
  PROVE  Answers!Write(r)
  <1>1. /\ active' \in {active \cup {r}, active \ {r}} /\ active' # active
        /\ UNCHANGED <<at, stage, query, answer>>
    BY DEF Enter, Leave, Written, list
  <1>2. walk'.asked = walk.asked
    <2>1. walk \in WalkType
      BY DEF Typed, WalkOK
    <2> QED
      BY <2>1 DEF Enter, Leave, WalkType
  <1>3. UNCHANGED <<Phase, Asked, Response>>
    BY <1>1, <1>2 DEF Phase, Asked, Response
  <1>4. views' = IF Phase = "asked" THEN Append(views, active') ELSE views
    BY <1>1 DEF Watch, Phase, ViewsOK
  <1> QED
    BY <1>1, <1>3, <1>4 DEF Answers!Write

LEMMA AnswersNext ==
  ASSUME IInv, IInv', ViewsInv, [Next /\ Watch]_<<vars, views>>
  PROVE  [Answers!Next]_Answers!listing
  <1>1. Typed /\ Typed' /\ ViewsOK
    BY DEF IInv, ViewsInv
  <1>2. ASSUME NEW p \in Params, Request(p), Watch PROVE Answers!Next
    BY <1>1, <1>2, ReceivedAnswers DEF Request, Idle, Answers!Next
  <1>3. ASSUME NextPage, Watch PROVE Answers!Next
    <2>1. stage \notin Statements
      BY <1>3 DEF NextPage, Statements
    <2> QED
      BY <1>1, <1>3, <2>1, ReceivedAnswers DEF NextPage, Answers!Next
  <1>4. ASSUME Fail, Watch PROVE Answers!GiveUp
    BY <1>4 DEF Fail, rows, Watch, Statements, Phase, Asked, Response, Answers!GiveUp
  <1>5. ASSUME UNCHANGED <<vars, views>> PROVE UNCHANGED Answers!listing
    BY <1>5 DEF vars, rows, list, Phase, Asked, Response, Answers!listing
  <1> QED
    BY <1>1, <1>2, <1>3, <1>4, <1>5, CountAnswers, ReadPageAnswers, ReadTagsAnswers, WriteAnswers
       DEF Next, Answers!Next

\* Every part of an answer of GetReferences is true of a moment between the
\* request and the answer, in the order of the three queries, for any table, parameters
\* and number of commits: it implements ListAnswers.
THEOREM HandlersAnswer == ReadsSpec => ImplementsAnswers
  <1>1. ReadsInit => IInv /\ ViewsInv /\ Answers!Init
    BY Initially, ViewsInitially, AnswersInit DEF ReadsInit
  <1>2. IInv /\ ViewsInv /\ [Next /\ Watch]_<<vars, views>> => IInv' /\ ViewsInv'
    <2>1. [Next /\ Watch]_<<vars, views>> => [Next]_vars
      OBVIOUS
    <2> QED
      BY <2>1, NextKeeps, ViewsKept
  <1>3. IInv /\ IInv' /\ ViewsInv /\ [Next /\ Watch]_<<vars, views>>
          => [Answers!Next]_Answers!listing
    BY AnswersNext
  <1> QED
    BY <1>1, <1>2, <1>3, PTL DEF ReadsSpec, ImplementsAnswers, Answers!Spec
=============================================================================
