----------------------------- MODULE Dashboard -----------------------------
(***************************************************************************)
(* The dashboard of one browser tab (pages/Dashboard.tsx), the query it    *)
(* keeps in the url (lib/dashboardQuery.ts), its form for new references   *)
(* (AddReferenceModal.tsx), and the two libraries it shows: the server's,  *)
(* in product mode, and the demo layer's, in portfolio mode.               *)
(*                                                                         *)
(* A handler that awaits goes on in the render it was started in: it sees  *)
(* the query and the lastValidPage of that render, whatever the url has    *)
(* become.  task[t] is one such handler with what it has captured.         *)
(*                                                                         *)
(* Messages (pageNotice, actionFeedback) and layout are left out.          *)
(***************************************************************************)
EXTENDS ReferenceList

CONSTANTS
    Tasks,     \* asynchronous handlers under way at once
    Nil,
    DemoRefs,  \* those of the demo layer
    Saved,     \* references there are at first
    Landings,  \* queries in the url when the dashboard is opened
    Absent,    \* a parameter that is not in the url
    MaxMoves   \* bound on what the user and other sessions do

Modes == {"product", "portfolio"}

Query == [search : Searches, tags : SUBSET Tags, page : Nat \ {0}, mode : Modes]

\* page 0 stands for every page that is not a positive integer.
ASSUME DashboardAssumption ==
    /\ Nil \notin Refs /\ Nil \notin Query
    /\ DemoRefs \subseteq Refs /\ Saved \subseteq Refs
    /\ Absent \notin Nat
    /\ Landings \subseteq [search : Searches, tags : SUBSET Tags,
                           page : Nat \cup {Absent}, mode : STRING]
    /\ MaxMoves \in Nat

VARIABLES
    url,              \* the query in the address bar
    previous,         \* the query one step back in the history, or Nil
    searchInput,
    shown,            \* references, totalCount, availableTags, lastValidPage
    isLoading,
    loadError,
    confirming,       \* confirmingDeleteId
    deleting,         \* deletingReferenceId
    restoring,        \* restoringReferenceId
    restoreFeedback,  \* the reference the undo button is for
    modal,
    task,
    library,          \* library[m]: active references of the mode
    trash,            \* references the server can restore
    moves,
    lost         \* a history variable, see TooLate

screen == <<searchInput, shown, isLoading, loadError>>
buttons == <<confirming, deleting, restoring, restoreFeedback, modal>>
server == <<library, trash>>
vars == <<url, previous, screen, buttons, task, server, moves, lost>>

\* An answer to GET /references, or of the demo layer.  since is history: what
\* the rows that match did between the query that counts and the one that reads.
Answer == [items : SUBSET Refs, count : Nat, tags : SUBSET Tags,
           since : SUBSET {"left", "entered"}]

\* What the list on screen was loaded for, and the page to fall back to
\* (lastValidPage, 0 for null).
Shown == [items : SUBSET Refs, count : Nat, tags : SUBSET Tags,
          since : SUBSET {"left", "entered"}, query : Query \cup {Nil}, valid : Nat]

NoAnswer == [items |-> {}, count |-> 0, tags |-> {}, since |-> {}]

\* A handler that waits for a list, by the query that the server runs next for it.
Listing == {"count", "page", "tags", "listed"}

\* query, valid: url and lastValidPage of the render.  A handler that writes
\* waits for its write first, then for a list.
Task == [pc : {"idle", "write", "written"} \cup Listing,
         kind : {"load", "create", "delete", "restore"},
         query : Query \cup {Nil}, valid : Nat, ref : Refs \cup {Nil},
         page : Nat, answer : Answer]

NoTask == [pc |-> "idle", kind |-> "load", query |-> Nil, valid |-> 0,
           ref |-> Nil, page |-> 1, answer |-> NoAnswer]

Idle == {t \in Tasks : task[t].pc = "idle"}

ByAge == [r \in Refs |-> r]

Found(q, active) == Matching(active, q.search, q.tags)

\* The page asked for, of the rows there are now, if it is one of those counted.
PageFor(q, active, count) == PageOf(Found(q, active), ByAge, AnsweredPage(q.page, count))

\* What the demo layer answers at once; see ReferenceList.
AnswerTo(q, active) ==
    LET n == Cardinality(Found(q, active)) IN
    [NoAnswer EXCEPT !.items = PageFor(q, active, n), !.count = n,
                     !.tags = AvailableTags(active)]

\* shouldCorrectPage
OutOfRange(page, count) ==
    \/ TotalPages(count) = 0 /\ page > 1
    \/ TotalPages(count) > 0 /\ page > TotalPages(count)

-----------------------------------------------------------------------------
(* Loading: every way to a list ends in one of these.                      *)

\* Faulty variant: lastValidPage is used as it is.
LastValidPage(valid) == valid

FallbackPage(valid) == IF valid = 0 THEN 1 ELSE valid

Corrected(q, valid) == [q EXCEPT !.page = FallbackPage(valid)]

Display(answer, q) ==
    [items |-> answer.items, count |-> answer.count, tags |-> answer.tags,
     since |-> answer.since, query |-> q, valid |-> IF TotalPages(answer.count) > 0 THEN q.page ELSE 1]

Loader(kind, ref, q, valid) ==
    [NoTask EXCEPT !.pc = "count", !.kind = kind, !.ref = ref, !.query = q,
                   !.valid = valid]

\* The demo layer answers at once, and a page out of range is left for the
\* one to fall back to before anything else can happen.
DemoQuery(q, demo, valid) ==
    IF q.mode = "portfolio" /\ OutOfRange(q.page, AnswerTo(q, demo).count)
    THEN Corrected(q, valid) ELSE q

DemoLoad(q, demo) ==
    /\ isLoading' = FALSE
    /\ loadError' = FALSE
    /\ shown' = IF OutOfRange(q.page, AnswerTo(q, demo).count) THEN shown
                ELSE Display(AnswerTo(q, demo), q)

\* loadReferences of the render with query q.
Load(t, kind, ref, q, valid) ==
    IF q.mode = "portfolio"
    THEN /\ DemoLoad(q, library'["portfolio"])
         /\ task' = [task EXCEPT ![t] = NoTask]
    ELSE /\ isLoading' = TRUE
         /\ loadError' = FALSE
         /\ task' = [task EXCEPT ![t] = Loader(kind, ref, q, valid)]
         /\ UNCHANGED shown

\* Faulty variant: the effect does not depend on the mode.
ReloadsUnlessModeOnly(q) == [q EXCEPT !.mode = url.mode] # url

\* The dependencies of the effect that loads.
Reloads(q) == q # url

\* navigate(q), and the effects of the render that follows: the input follows
\* the search of the url once that changes, and a changed query is loaded.
Arrive(t, q, push, input) ==
    LET target == IF Reloads(q) THEN DemoQuery(q, library'["portfolio"], shown.valid)
                                ELSE q
    IN
    /\ url' = target
    /\ previous' = IF push THEN url ELSE previous
    /\ searchInput' = IF q.search # url.search THEN q.search ELSE input
    /\ IF Reloads(q)
       THEN Load(t, "load", Nil, target, shown.valid)
       ELSE /\ task' = [task EXCEPT ![t] = NoTask]
            /\ UNCHANGED <<shown, isLoading, loadError>>

\* updateDashboardQuery of the render with query "from": nothing happens if
\* that render already was at q.
UpdateQuery(t, from, q, push, input) ==
    IF q # from
    THEN Arrive(t, q, push, input)
    ELSE /\ searchInput' = input
         /\ task' = [task EXCEPT ![t] = NoTask]
         /\ UNCHANGED <<url, previous, shown, isLoading, loadError>>

\* parseDashboardSearchParams, and the effect that leaves an invalid page for
\* the first: at that moment nothing has been loaded yet.
Parsed(raw) ==
    [raw EXCEPT !.page = IF raw.page \in {Absent, 0} THEN 1 ELSE raw.page,
                !.mode = IF raw.mode = "portfolio" THEN "portfolio" ELSE "product"]

Init ==
    /\ library = [m \in Modes |-> IF m = "product" THEN Saved \ DemoRefs
                                  ELSE Saved \cap DemoRefs]
    /\ trash = {}
    /\ previous = Nil
    /\ confirming = Nil /\ deleting = Nil
    /\ restoring = Nil /\ restoreFeedback = Nil
    /\ modal = "closed"
    /\ moves = 0
    /\ lost = FALSE
    /\ loadError = FALSE
    /\ \E raw \in Landings, t \in Tasks :
          LET demo == library["portfolio"]
              q == DemoQuery(Parsed(raw), demo, 0)
          IN
          /\ url = q
          /\ searchInput = q.search
          /\ isLoading = (q.mode = "product")
          /\ shown = IF q.mode = "portfolio" THEN Display(AnswerTo(q, demo), q)
                     ELSE [items |-> {}, count |-> 0, tags |-> {}, since |-> {},
                           query |-> Nil, valid |-> 0]
          /\ task = [u \in Tasks |-> IF u = t /\ q.mode = "product"
                                     THEN Loader("load", Nil, q, 0) ELSE NoTask]

\* A handler of t goes on in a render whose query has left the url, and no load
\* of the url's query is under way that would put things right.
TooLate(t) ==
    /\ task[t].query # url
    /\ \A u \in Tasks : ~(task[u].pc \in Listing /\ task[u].query = url)

-----------------------------------------------------------------------------
(* What the user does.                                                     *)

Move == moves < MaxMoves /\ moves' = moves + 1

\* The list and its buttons are on the screen, instead of a message.
ListOnScreen == ~isLoading /\ ~loadError /\ shown.items # {}

\* The user asks for the query q: a new entry of the history.
Ask(q, input) ==
    /\ UNCHANGED server
    /\ \E t \in Idle : UpdateQuery(t, url, q, TRUE, input)

Type(s) ==
    /\ Move
    /\ searchInput' = s
    /\ UNCHANGED <<url, previous, shown, isLoading, loadError, buttons, task, server,
                   lost>>

\* Faulty variant: the search of the url is kept.
DebounceKeepingSearch ==
    /\ searchInput # url.search
    /\ UNCHANGED server
    /\ \E t \in Idle :
          UpdateQuery(t, url, [url EXCEPT !.page = 1], FALSE, searchInput)
    /\ UNCHANGED <<buttons, moves, lost>>

\* The timer of SEARCH_DEBOUNCE_MS has run out since the last change.
Debounce ==
    /\ searchInput # url.search
    /\ UNCHANGED server
    /\ \E t \in Idle :
          UpdateQuery(t, url, [url EXCEPT !.search = searchInput, !.page = 1], FALSE,
                      searchInput)
    /\ UNCHANGED <<buttons, moves, lost>>

GoToPage(p) ==
    /\ Move
    /\ ListOnScreen /\ TotalPages(shown.count) > 1
    /\ Ask([url EXCEPT !.page = p], searchInput)
    /\ UNCHANGED <<buttons, lost>>

ToggleTag(g) ==
    /\ Move
    /\ Ask([url EXCEPT !.tags = IF g \in @ THEN @ \ {g} ELSE @ \cup {g}, !.page = 1],
           searchInput)
    /\ UNCHANGED <<buttons, lost>>

\* The button of the message that a filtered list is empty.
ClearFilters ==
    /\ Move
    /\ ~isLoading /\ ~loadError /\ shown.items = {}
    /\ url.search # NoSearch \/ url.tags # {}
    /\ Ask([url EXCEPT !.search = NoSearch, !.tags = {}, !.page = 1], NoSearch)
    /\ UNCHANGED <<buttons, lost>>

SwitchMode(m) ==
    /\ Move
    /\ Ask([search |-> NoSearch, tags |-> {}, page |-> 1, mode |-> m], NoSearch)
    /\ restoreFeedback' = Nil
    /\ confirming' = Nil
    /\ UNCHANGED <<deleting, restoring, modal, lost>>

\* The browser's back button; pressing it again stands for forward.
Back ==
    /\ Move
    /\ UNCHANGED server
    /\ previous # Nil
    /\ \E t \in Idle : Arrive(t, previous, TRUE, searchInput)
    /\ UNCHANGED <<buttons, lost>>

Retry ==
    /\ Move
    /\ UNCHANGED server
    /\ ~isLoading /\ loadError
    /\ \E t \in Idle : Load(t, "load", Nil, url, shown.valid)
    /\ UNCHANGED <<url, previous, searchInput, buttons, lost>>

AskDelete(r) ==
    /\ ListOnScreen /\ url.mode = "product"
    /\ r \in shown.items \ {confirming}
    /\ confirming' = r
    /\ UNCHANGED <<url, previous, screen, deleting, restoring, restoreFeedback, modal,
                   task, server, moves, lost>>

CancelDelete ==
    /\ ListOnScreen /\ url.mode = "product"
    /\ confirming \in shown.items \ {deleting}
    /\ confirming' = Nil
    /\ UNCHANGED <<url, previous, screen, deleting, restoring, restoreFeedback, modal,
                   task, server, moves, lost>>

\* The handler of kind k starts: its request is sent.
Start(t, k, r, page) ==
    task' = [task EXCEPT ![t] = [NoTask EXCEPT !.pc = "write", !.kind = k, !.ref = r,
                                               !.query = url, !.valid = shown.valid,
                                               !.page = page]]

\* nextPage: a page that loses its only reference is left.
PageAfterDelete ==
    IF Cardinality(shown.items) = 1 /\ url.page > 1 THEN url.page - 1 ELSE url.page

ConfirmDelete ==
    /\ Move
    /\ ListOnScreen /\ url.mode = "product"
    /\ confirming \in shown.items \ {deleting}
    /\ deleting' = confirming
    /\ \E t \in Idle : Start(t, "delete", confirming, PageAfterDelete)
    /\ UNCHANGED <<url, previous, screen, confirming, restoring, restoreFeedback, modal,
                   server, lost>>

Undo ==
    /\ Move
    /\ restoreFeedback \notin {Nil, restoring}
    /\ restoring' = restoreFeedback
    /\ \E t \in Idle : Start(t, "restore", restoreFeedback, url.page)
    /\ UNCHANGED <<url, previous, screen, confirming, deleting, restoreFeedback, modal,
                   server, lost>>

OpenModal ==
    /\ Move
    /\ modal = "closed"
    /\ modal' = "open"
    /\ UNCHANGED <<url, previous, screen, confirming, deleting, restoring,
                   restoreFeedback, task, server, lost>>

CancelModal ==
    /\ modal = "open"
    /\ modal' = "closed"
    /\ UNCHANGED <<url, previous, screen, confirming, deleting, restoring,
                   restoreFeedback, task, server, moves, lost>>

\* A new reference is newer than every other one.
New(r, others) == \A x \in others : x < r

\* A form without errors is submitted.
Submit ==
    /\ Move
    /\ modal = "open" /\ url.mode = "product"
    /\ modal' = "submitting"
    /\ \E t \in Idle : Start(t, "create", Nil, 1)
    /\ UNCHANGED <<url, previous, screen, confirming, deleting, restoring,
                   restoreFeedback, server, lost>>

\* What a save is followed by: the first page of the query it was made under.
ShowFirstPage(t, q, valid) ==
    IF q.page # 1
    THEN UpdateQuery(t, q, [q EXCEPT !.page = 1], TRUE, searchInput)
    ELSE /\ Load(t, "create", Nil, q, valid)
         /\ UNCHANGED <<url, previous, searchInput>>

\* The demo layer saves at once.
SubmitDemo ==
    /\ Move
    /\ modal = "open" /\ url.mode = "portfolio"
    /\ \E r \in DemoRefs :
          /\ New(r, library["portfolio"])
          /\ library' = [library EXCEPT !["portfolio"] = @ \cup {r}]
    /\ modal' = "closed"
    /\ \E t \in Idle : ShowFirstPage(t, url, shown.valid)
    /\ UNCHANGED <<confirming, deleting, restoring, restoreFeedback, trash, lost>>

-----------------------------------------------------------------------------
(* What the server does.                                                   *)

Shifts(q, active) ==
    LET before == Found(q, library["product"])
        after == Found(q, active)
    IN  {c \in {"left", "entered"} : IF c = "left" THEN before \ after # {}
                                                   ELSE after \ before # {}}

\* The tasks once the server's active references have become "active": only the
\* history of an answer that is being put together changes.
Witnessed(active) ==
    [t \in Tasks |->
        IF task[t].pc = "page"
        THEN [task[t] EXCEPT !.answer.since = @ \cup Shifts(task[t].query, active)]
        ELSE task[t]]

Served(t, active, deleted) ==
    /\ library' = [library EXCEPT !["product"] = active]
    /\ trash' = deleted
    /\ task' = [Witnessed(active) EXCEPT ![t].pc = "written"]

\* A save, a delete or a restore is carried out; to delete again what is
\* deleted succeeds, to restore what is not fails (see WriteFailed).
ServeWrite(t) ==
    LET r == task[t].ref
        active == library["product"]
    IN
    /\ task[t].pc = "write"
    /\ \/ /\ task[t].kind = "create"
          /\ \E n \in Refs \ DemoRefs : /\ New(n, active \cup trash)
                                        /\ Served(t, active \cup {n}, trash)
       \/ /\ task[t].kind = "delete" /\ r \in active \cup trash
          /\ Served(t, active \ {r}, trash \cup {r})
       \/ /\ task[t].kind = "restore" /\ r \in trash
          /\ Served(t, active \cup {r}, trash \ {r})
    /\ UNCHANGED <<url, previous, screen, buttons, moves, lost>>

\* GetReferences reads three times, without a transaction: writes are carried out
\* in between (ReferenceListing has the rest of it).
ServeCount(t) ==
    /\ task[t].pc = "count"
    /\ task' = [task EXCEPT
                   ![t].pc = "page",
                   ![t].answer.count =
                       Cardinality(Found(task[t].query, library["product"]))]
    /\ UNCHANGED <<url, previous, screen, buttons, server, moves, lost>>

ServePage(t) ==
    /\ task[t].pc = "page"
    /\ task' = [task EXCEPT
                   ![t].pc = "tags",
                   ![t].answer.items =
                       PageFor(task[t].query, library["product"], task[t].answer.count)]
    /\ UNCHANGED <<url, previous, screen, buttons, server, moves, lost>>

ServeTags(t) ==
    /\ task[t].pc = "tags"
    /\ task' = [task EXCEPT ![t].pc = "listed",
                            ![t].answer.tags = AvailableTags(library["product"])]
    /\ UNCHANGED <<url, previous, screen, buttons, server, moves, lost>>

ServeList(t) == ServeCount(t) \/ ServePage(t) \/ ServeTags(t)

\* Another session saves a reference or deletes one of its own.
Elsewhere ==
    /\ Move
    /\ \E r \in Refs \ DemoRefs :
          \/ /\ New(r, library["product"] \cup trash)
             /\ library' = [library EXCEPT !["product"] = @ \cup {r}]
          \/ /\ r \in library["product"]
             /\ library' = [library EXCEPT !["product"] = @ \ {r}]
    /\ task' = Witnessed(library'["product"])
    /\ UNCHANGED <<url, previous, screen, buttons, trash, lost>>

-----------------------------------------------------------------------------
(* How the handlers go on.                                                 *)

WriteAnswered(t) ==
    LET k == task[t] IN
    /\ k.pc = "written"
    /\ UNCHANGED <<server, moves>>
    /\ lost' = (lost \/ TooLate(t))
    /\ \/ /\ k.kind = "create"
          /\ modal' = "closed"
          /\ ShowFirstPage(t, k.query, k.valid)
          /\ UNCHANGED <<confirming, deleting, restoring, restoreFeedback>>
       \/ /\ k.kind = "delete"
          /\ confirming' = Nil
          /\ restoreFeedback' = k.ref
          /\ IF k.page # k.query.page
             THEN /\ UpdateQuery(t, k.query, [k.query EXCEPT !.page = k.page], FALSE,
                                 searchInput)
                  /\ deleting' = Nil
             ELSE /\ Load(t, "delete", k.ref, k.query, k.valid)
                  /\ UNCHANGED <<url, previous, searchInput, deleting>>
          /\ UNCHANGED <<restoring, modal>>
       \/ /\ k.kind = "restore"
          /\ restoreFeedback' = Nil
          /\ Load(t, "restore", k.ref, k.query, k.valid)
          /\ restoring' = IF k.query.mode = "portfolio" THEN Nil ELSE restoring
          /\ UNCHANGED <<url, previous, searchInput, confirming, deleting, modal>>

\* Faulty variant: the button of a delete that failed stays busy.
FinallyOfListOnly(t) ==
    /\ deleting' = IF task[t].kind = "delete" /\ task[t].pc \in Listing
                   THEN Nil ELSE deleting
    /\ restoring' = IF task[t].kind = "restore" THEN Nil ELSE restoring

\* The finally blocks of the handler in t.
Finally(t) ==
    /\ deleting' = IF task[t].kind = "delete" THEN Nil ELSE deleting
    /\ restoring' = IF task[t].kind = "restore" THEN Nil ELSE restoring

\* The write was refused, or its answer never came.
WriteFailed(t) ==
    /\ task[t].pc \in {"write", "written"}
    /\ task' = [task EXCEPT ![t] = NoTask]
    /\ Finally(t)
    /\ modal' = IF task[t].kind = "create" THEN "open" ELSE modal
    /\ UNCHANGED <<url, previous, screen, confirming, restoreFeedback, server, moves,
                   lost>>

\* The url of the handler's render has the page to fall back to already: it stays.
Dropped(t) ==
    /\ OutOfRange(task[t].query.page, task[t].answer.count)
    /\ Corrected(task[t].query, task[t].valid) = task[t].query

\* A page out of range is left for the last valid one, unless the url of the
\* handler's render has that page already: then nothing is loaded.
ListAnswered(t) ==
    LET k == task[t]
        corrected == Corrected(k.query, k.valid)
    IN
    /\ k.pc = "listed"
    /\ UNCHANGED <<server, moves, confirming, restoreFeedback, modal>>
    /\ lost' = (lost \/ TooLate(t) \/ Dropped(t))
    /\ Finally(t)
    /\ IF ~OutOfRange(k.query.page, k.answer.count)
       THEN /\ shown' = Display(k.answer, k.query)
            /\ isLoading' = FALSE
            /\ task' = [task EXCEPT ![t] = NoTask]
            /\ UNCHANGED <<url, previous, searchInput, loadError>>
       ELSE IF ~Dropped(t) /\ corrected # url
       THEN Arrive(t, corrected, FALSE, searchInput)
       ELSE /\ isLoading' = FALSE
            /\ task' = [task EXCEPT ![t] = NoTask]
            /\ UNCHANGED <<url, previous, searchInput, shown, loadError>>

\* Faulty variant: isLoading is reset on success only.
ListFailedStillLoading(t) ==
    /\ task[t].pc \in Listing
    /\ loadError' = TRUE
    /\ task' = [task EXCEPT ![t] = NoTask]
    /\ Finally(t)
    /\ UNCHANGED <<url, previous, searchInput, shown, isLoading, confirming,
                   restoreFeedback, modal, server, moves, lost>>

ListFailed(t) ==
    /\ task[t].pc \in Listing
    /\ loadError' = TRUE
    /\ isLoading' = FALSE
    /\ task' = [task EXCEPT ![t] = NoTask]
    /\ Finally(t)
    /\ UNCHANGED <<url, previous, searchInput, shown, confirming, restoreFeedback, modal,
                   server, moves, lost>>

Continue(t) == WriteAnswered(t) \/ WriteFailed(t) \/ ListAnswered(t) \/ ListFailed(t)

User ==
    \/ \E s \in Searches : Type(s)
    \/ \E p \in 1..TotalPages(shown.count) : GoToPage(p)
    \/ \E g \in shown.tags : ToggleTag(g)
    \/ \E m \in Modes : SwitchMode(m)
    \/ \E r \in shown.items : AskDelete(r)
    \/ ClearFilters \/ Back \/ Retry
    \/ CancelDelete \/ ConfirmDelete \/ Undo
    \/ OpenModal \/ CancelModal \/ Submit \/ SubmitDemo

Next ==
    \/ User
    \/ Elsewhere
    \/ Debounce
    \/ \E t \in Tasks : ServeWrite(t) \/ ServeList(t) \/ Continue(t)

Spec == Init /\ [][Next]_vars

\* Promises settle and the timer fires; nothing is assumed of the user, of
\* other sessions, or of how soon the server carries a write out.
FairSpec ==
    /\ Spec
    /\ \A t \in Tasks : WF_vars(Continue(t))
    /\ WF_vars(Debounce)

-----------------------------------------------------------------------------
(* Properties.                                                             *)

TypeOK ==
    /\ url \in Query
    /\ previous \in Query \cup {Nil}
    /\ searchInput \in Searches
    /\ shown \in Shown
    /\ isLoading \in BOOLEAN /\ loadError \in BOOLEAN
    /\ {confirming, deleting, restoring, restoreFeedback} \subseteq Refs \cup {Nil}
    /\ modal \in {"closed", "open", "submitting"}
    /\ task \in [Tasks -> Task]
    /\ library \in [Modes -> SUBSET Refs]
    /\ trash \subseteq Refs
    /\ moves \in 0..MaxMoves
    /\ lost \in BOOLEAN

Loading(q) ==
    \E t \in Tasks : task[t].pc \in Listing /\ task[t].query = q

Writing(kind, r) ==
    \E t \in Tasks : task[t].pc # "idle" /\ task[t].kind = kind /\ task[t].ref = r

\* Whatever is shown as under way is: however handlers overlap, fail and share
\* isLoading, deletingReferenceId and restoringReferenceId, none of them is left
\* set when the last handler that would reset it is gone.
BusyMeansUnderWay ==
    /\ isLoading => \E t \in Tasks : task[t].pc \in Listing
    /\ deleting # Nil => Writing("delete", deleting)
    /\ restoring # Nil => Writing("restore", restoring)
    /\ modal = "submitting" => Writing("create", Nil)

\* A page of the demo layer beyond its last.
BeyondDemo ==
    /\ url.mode = "portfolio"
    /\ OutOfRange(url.page, AnswerTo(url, library["portfolio"]).count)

\* The list on the screen was loaded for the query in the url, or is being
\* loaded, or could not be; this ends only with a handler that goes on too late
\* or a correction that is dropped: what the races of the dashboard come down to.
ListFollowsUrl ==
    \/ lost
    \/ shown.query = url
    \/ Loading(url)
    \/ loadError
    \/ BeyondDemo

\* The list and the count on the screen contradict each other, an empty list of
\* rows that were counted or rows where none were, only if a row that matches left,
\* or entered, after the server had counted and before it read the page: never for a
\* page beyond the end, after a correction or a delete that empties the last page,
\* and never in the demo layer.
EmptinessHasACause ==
    /\ shown.items = {} /\ shown.count > 0 => "left" \in shown.since
    /\ shown.items # {} /\ shown.count = 0 => "entered" \in shown.since

\* What is typed reaches the url, or is lost by it.
SearchIsApplied == searchInput # url.search ~> searchInput = url.search

\* The message that the list is loading does not stay, whatever fails.
LoadingEnds == isLoading ~> ~isLoading

-----------------------------------------------------------------------------
(* What a document says and a late answer breaks.                          *)

\* "While a page is being changed another search is entered: the result of the
\* earlier request is ignored": an answer to a query that has left the url does
\* not change the list.
EarlierResultsAreIgnored ==
    [][\A t \in Tasks : ListAnswered(t) /\ task[t].query # url => shown' = shown]_vars
=============================================================================
