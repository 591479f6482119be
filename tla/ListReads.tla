----------------------------- MODULE ListReads -----------------------------
(***************************************************************************)
(* ReferenceListing watched by one history variable, which no statement    *)
(* reads: the tables there have been since the request under way arrived.  *)
(* In these terms the handler gives the answers of ListAnswers.            *)
(***************************************************************************)
EXTENDS ReferenceListing, Sequences

VARIABLE views

\* A view for the moment the request arrives, and one for every commit since.
Watch ==
    views' = IF stage' \notin Statements THEN <<>>
             ELSE IF stage \notin Statements THEN <<active>>
             ELSE IF active' # active THEN Append(views, active')
             ELSE views

ReadsInit == Init /\ views = <<>>

ReadsSpec == ReadsInit /\ [][Next /\ Watch]_<<vars, views>>

Phase == IF stage \in Statements THEN "asked" ELSE IF stage = "200" THEN "answered" ELSE "none"

\* The handler corrects the page before it reads the rows; the walk knows which
\* one was asked for.
Asked ==
    IF stage \in {"count", "page"} THEN query
    ELSE IF stage \in {"tags", "200"} THEN [query EXCEPT !.page = walk.asked]
    ELSE Absent

Response ==
    IF stage # "200" THEN Absent
    ELSE [page |-> query.page, totalCount |-> answer.totalCount, totalPages |-> answer.totalPages,
          items |-> answer.items, availableTags |-> answer.availableTags]

AllQueries == [page : Nat \ {0}, limit : Nat \ {0}, search : Searches, tags : SUBSET Tags]

Answers == INSTANCE ListAnswers WITH
    Nothing <- Absent, Queries <- AllQueries, Tables <- SUBSET Refs,
    table <- active, phase <- Phase, asked <- Asked, response <- Response

\* Every part of an answer is true of a moment between the request and the
\* answer, whatever is written between the queries: the count of one moment, the
\* page that it has in a table of the same moment or a later one, and the tags in use no
\* earlier; and the number of pages and the page follow from the count.
ImplementsAnswers == Answers!Spec
=============================================================================
