--------------------------- MODULE DashboardProofs ---------------------------
(***************************************************************************)
(* Theorems of Dashboard: nothing is left busy, the list belongs to the    *)
(* url but for the races that "lost" records, and a list that contradicts  *)
(* its count has a cause at the server; for any number of handlers and     *)
(* references.                                                             *)
(***************************************************************************)
EXTENDS Dashboard, ReferenceListProofs

USE DEF Listing

\* A task in any state, and what a handler under way knows.
TaskOK(k) ==
    /\ k \in Task /\ k.page \in Nat \ {0}
    /\ k.pc # "idle" => k.query \in Query
    /\ k.kind = "create" => k.ref = Nil
    /\ (k.pc \in {"write", "written"} /\ k.kind = "delete") => k.query.mode = "product"

UrlOK == url \in Query /\ previous \in Query \cup {Nil} /\ searchInput \in Searches

ScreenOK == shown \in Shown /\ isLoading \in BOOLEAN /\ loadError \in BOOLEAN

ButtonsOK ==
    /\ confirming \in Refs \cup {Nil} /\ deleting \in Refs \cup {Nil}
    /\ restoring \in Refs \cup {Nil} /\ restoreFeedback \in Refs \cup {Nil}
    /\ modal \in {"closed", "open", "submitting"}

TasksOK == task \in [Tasks -> Task] /\ \A t \in Tasks : TaskOK(task[t])

ServerOK == library \in [Modes -> SUBSET Refs] /\ trash \subseteq Refs

CountersOK == moves \in 0 .. MaxMoves /\ lost \in BOOLEAN

Typed == UrlOK /\ ScreenOK /\ ButtonsOK /\ TasksOK /\ ServerOK /\ CountersOK

LoadingGoesOn == isLoading => \E t \in Tasks : task[t].pc \in Listing

DeletingGoesOn == deleting # Nil => Writing("delete", deleting)

RestoringGoesOn == restoring # Nil => Writing("restore", restoring)

\* The form waits for a save, not for the list that follows it.
SavingGoesOn ==
    modal = "submitting" =>
        \E t \in Tasks : task[t].pc \in {"write", "written"} /\ task[t].kind = "create"

Follows == shown.query = url \/ Loading(url) \/ loadError \/ BeyondDemo

IInv ==
    /\ Typed
    /\ LoadingGoesOn /\ DeletingGoesOn /\ RestoringGoesOn /\ SavingGoesOn
    /\ lost \/ Follows

LEMMA InvIsTyped == IInv => TypeOK
  BY DEF IInv, Typed, UrlOK, ScreenOK, ButtonsOK, TasksOK, ServerOK, CountersOK, TypeOK

LEMMA InvIsBusy == IInv => BusyMeansUnderWay
  BY DEF IInv, Typed, TasksOK, TaskOK, LoadingGoesOn, DeletingGoesOn, RestoringGoesOn,
         SavingGoesOn, Writing, BusyMeansUnderWay

LEMMA InvFollows == IInv => ListFollowsUrl
  BY DEF IInv, Follows, ListFollowsUrl
-----------------------------------------------------------------------------
(* Answers. *)

LEMMA LimitIsPositive == Limit \in Nat \ {0}
  BY ListAssumption

LEMMA TotalPagesType ==
  ASSUME NEW count \in Nat
  PROVE  /\ TotalPages(count) \in Nat
         /\ count > 0 => TotalPages(count) > 0 /\ (TotalPages(count) - 1) * Limit < count
  <1>1. CASE count = 0
    <2>1. (0 + Limit - 1) \div Limit \in Nat
      BY LimitIsPositive
    <2> QED
      BY <1>1, <2>1 DEF TotalPages
  <1>2. CASE count > 0
    BY <1>2, LimitIsPositive, PagesSuffice DEF TotalPages
  <1> QED
    BY <1>1, <1>2

LEMMA AnsweredPageType ==
  ASSUME NEW page \in Nat \ {0}, NEW count \in Nat
  PROVE  /\ AnsweredPage(page, count) \in Nat \ {0}
         /\ count > 0 => (AnsweredPage(page, count) - 1) * Limit < count
  <1> DEFINE a == AnsweredPage(page, count)
             p == TotalPages(count)
  <1>1. p \in Nat /\ (count > 0 => p > 0 /\ (p - 1) * Limit < count)
    BY TotalPagesType
  <1>2. a \in Nat \ {0} /\ (p > 0 => a <= p)
    BY <1>1 DEF AnsweredPage
  <1> HIDE DEF a, p
  <1>3. ASSUME count > 0 PROVE (a - 1) * Limit < count
    <2>1. (a - 1) * Limit <= (p - 1) * Limit
      BY <1>1, <1>2, <1>3, LimitIsPositive, PagesGrow
    <2>2. (a - 1) * Limit \in Int /\ (p - 1) * Limit \in Int
      BY <1>1, <1>2, LimitIsPositive
    <2> QED
      BY <1>1, <1>3, <2>1, <2>2
  <1> QED
    BY <1>2, <1>3 DEF a

LEMMA StartOfPage ==
  ASSUME NEW n \in Nat, NEW limit \in Nat \ {0}
  PROVE  (n * limit) \div limit = n
  OBVIOUS

\* A page that exists has rows.
LEMMA PageHasRows ==
  ASSUME NEW set \in SUBSET Refs, NEW page \in Nat \ {0}, (page - 1) * Limit < Cardinality(set)
  PROVE  PageOf(set, ByAge, page) # {}
  <1>1. \A r \in set : ByAge[r] = r /\ r \in Nat
    BY ListAssumption DEF ByAge
  <1>2. Numbers(set, ByAge)
    BY <1>1 DEF Numbers
  <1>3. page - 1 \in Nat /\ (page - 1) * Limit \in Nat
    BY LimitIsPositive
  <1>4. PICK r \in set : Rank(r, set, ByAge) = (page - 1) * Limit
    BY <1>2, <1>3, RanksOnto
  <1>5. Rank(r, set, ByAge) \div Limit = page - 1
    BY <1>3, <1>4, LimitIsPositive, StartOfPage
  <1> QED
    BY <1>5 DEF PageOf

LEMMA FoundType ==
  ASSUME NEW q \in Query, NEW active \in SUBSET Refs
  PROVE  Found(q, active) \in SUBSET Refs /\ Cardinality(Found(q, active)) \in Nat
  BY MatchingIsPart, RowsAreFinite DEF Found

LEMMA PageForType ==
  ASSUME NEW q \in Query, NEW active \in SUBSET Refs, NEW count \in Nat
  PROVE  PageFor(q, active, count) \in SUBSET Found(q, active)
  BY FoundType DEF PageFor, PageOf

\* A page of what was counted has rows, while no fewer rows are found.
LEMMA PageForHasRows ==
  ASSUME NEW q \in Query, NEW active \in SUBSET Refs, NEW count \in Nat,
         count > 0, count <= Cardinality(Found(q, active))
  PROVE  PageFor(q, active, count) # {}
  <1> DEFINE page == AnsweredPage(q.page, count)
             set == Found(q, active)
  <1>1. page \in Nat \ {0} /\ (page - 1) * Limit < count
    <2>1. q.page \in Nat \ {0}
      BY DEF Query
    <2> QED
      BY <2>1, AnsweredPageType
  <1>2. set \in SUBSET Refs /\ Cardinality(set) \in Nat
    BY FoundType
  <1>3. (page - 1) * Limit \in Nat
    BY <1>1, LimitIsPositive
  <1> HIDE DEF page, set
  <1>4. (page - 1) * Limit < Cardinality(set)
    BY <1>1, <1>2, <1>3 DEF set
  <1>5. PageOf(set, ByAge, page) # {}
    BY <1>1, <1>2, <1>4, PageHasRows
  <1> QED
    BY <1>5 DEF PageFor, page, set

LEMMA TagsAreTags ==
  ASSUME NEW active \in SUBSET Refs
  PROVE  AvailableTags(active) \in SUBSET Tags
  BY ListAssumption DEF AvailableTags

LEMMA NoAnswerType == NoAnswer \in Answer
  BY DEF NoAnswer, Answer

LEMMA AnswerIsGood ==
  ASSUME NEW q \in Query, NEW active \in SUBSET Refs
  PROVE  AnswerTo(q, active) \in Answer
  <1> DEFINE n == Cardinality(Found(q, active))
             page == PageFor(q, active, n)
  <1>1. n \in Nat /\ page \in SUBSET Refs
    BY FoundType, PageForType
  <1>2. AvailableTags(active) \in SUBSET Tags
    BY TagsAreTags
  <1>3. AnswerTo(q, active) = [NoAnswer EXCEPT !.items = page, !.count = n,
                                               !.tags = AvailableTags(active)]
    BY DEF AnswerTo
  <1> HIDE DEF n, page
  <1> QED
    BY <1>1, <1>2, <1>3, NoAnswerType DEF Answer

LEMMA DisplayIsGood ==
  ASSUME NEW a \in Answer, NEW q \in Query
  PROVE  Display(a, q) \in Shown /\ Display(a, q).query = q
  BY DEF Display, Shown, Answer, Query

LEMMA CorrectedType ==
  ASSUME NEW q \in Query, NEW valid \in Nat
  PROVE  /\ Corrected(q, valid) \in Query /\ Corrected(q, valid).search = q.search
         /\ Corrected(q, valid).mode = q.mode
  BY DEF Corrected, FallbackPage, Query

LEMMA DemoQueryType ==
  ASSUME NEW q \in Query, NEW demo, NEW valid \in Nat
  PROVE  DemoQuery(q, demo, valid) \in Query
  BY CorrectedType DEF DemoQuery

LEMMA NoTaskIsGood == TaskOK(NoTask)
  BY DEF NoTask, TaskOK, Task, NoAnswer, Answer

LEMMA LoaderIsGood ==
  ASSUME NEW kind \in {"load", "create", "delete", "restore"}, NEW ref \in Refs \cup {Nil},
         kind = "create" => ref = Nil, NEW q \in Query, NEW valid \in Nat
  PROVE  /\ TaskOK(Loader(kind, ref, q, valid)) /\ Loader(kind, ref, q, valid).pc = "count"
         /\ Loader(kind, ref, q, valid).query = q /\ Loader(kind, ref, q, valid).kind = kind
         /\ Loader(kind, ref, q, valid).ref = ref
  <1>1. NoTask \in Task /\ NoTask.page = 1 /\ NoTask.answer = NoAnswer
    BY NoTaskIsGood DEF TaskOK, NoTask
  <1> HIDE DEF NoTask, NoAnswer
  <1>3. /\ Loader(kind, ref, q, valid) \in Task /\ Loader(kind, ref, q, valid).pc = "count"
        /\ Loader(kind, ref, q, valid).query = q /\ Loader(kind, ref, q, valid).kind = kind
        /\ Loader(kind, ref, q, valid).ref = ref /\ Loader(kind, ref, q, valid).page = 1
        /\ Loader(kind, ref, q, valid).answer = NoAnswer
    BY <1>1 DEF Loader, Task
  <1> QED
    BY <1>3 DEF TaskOK
-----------------------------------------------------------------------------
(* Ways to a list.  Only task t is touched. *)

OnlyTask(t) == \A u \in Tasks \ {t} : task'[u] = task[u]

Beyond(q, demo) == q.mode = "portfolio" /\ OutOfRange(q.page, AnswerTo(q, demo).count)

Demo == library["portfolio"]

LEMMA TaskReplaced ==
  ASSUME TasksOK, NEW t \in Tasks, NEW k, TaskOK(k), task' = [task EXCEPT ![t] = k]
  PROVE  TasksOK' /\ OnlyTask(t) /\ task'[t] = k
  <1>1. k \in Task
    BY DEF TaskOK
  <1>2. task' \in [Tasks -> Task] /\ task'[t] = k /\ \A u \in Tasks \ {t} : task'[u] = task[u]
    BY <1>1 DEF TasksOK
  <1>3. \A u \in Tasks : TaskOK(task'[u])
    BY <1>2 DEF TasksOK
  <1> QED
    BY <1>2, <1>3 DEF TasksOK, OnlyTask

LEMMA Loads ==
  ASSUME ScreenOK, TasksOK, ServerOK', NEW t \in Tasks,
         NEW kind \in {"load", "create", "delete", "restore"}, NEW ref \in Refs \cup {Nil},
         kind = "create" => ref = Nil, NEW q \in Query, NEW valid \in Nat,
         Load(t, kind, ref, q, valid)
  PROVE  /\ ScreenOK' /\ TasksOK' /\ OnlyTask(t) /\ loadError' = FALSE
         /\ \/ /\ q.mode = "product" /\ task'[t].pc = "count" /\ task'[t].query = q
               /\ task'[t].kind = kind /\ task'[t].ref = ref
            \/ /\ q.mode = "portfolio" /\ task'[t] = NoTask /\ isLoading' = FALSE
               /\ shown'.query = q \/ Beyond(q, Demo')
  <1>1. q.mode \in Modes /\ library' \in [Modes -> SUBSET Refs] /\ "portfolio" \in Modes
    BY DEF Query, ServerOK, Modes
  <1>2. CASE q.mode = "portfolio"
    <2>1. /\ isLoading' = FALSE /\ loadError' = FALSE /\ task' = [task EXCEPT ![t] = NoTask]
          /\ shown' = IF OutOfRange(q.page, AnswerTo(q, Demo').count) THEN shown
                      ELSE Display(AnswerTo(q, Demo'), q)
      BY <1>2 DEF Load, DemoLoad, Demo
    <2>2. Demo' \in SUBSET Refs
      BY <1>1 DEF Demo
    <2>3. shown' \in Shown /\ (shown'.query = q \/ Beyond(q, Demo'))
      BY <1>2, <2>1, <2>2, AnswerIsGood, DisplayIsGood DEF Beyond, ScreenOK
    <2> QED
      BY <1>2, <2>1, <2>3, TaskReplaced, NoTaskIsGood DEF ScreenOK
  <1>3. CASE q.mode = "product"
    <2>1. /\ isLoading' = TRUE /\ loadError' = FALSE /\ UNCHANGED shown
          /\ task' = [task EXCEPT ![t] = Loader(kind, ref, q, valid)]
      BY <1>3 DEF Load
    <2>2. /\ TaskOK(Loader(kind, ref, q, valid)) /\ Loader(kind, ref, q, valid).pc = "count"
          /\ Loader(kind, ref, q, valid).query = q /\ Loader(kind, ref, q, valid).kind = kind
          /\ Loader(kind, ref, q, valid).ref = ref
      BY LoaderIsGood
    <2>3. TasksOK' /\ OnlyTask(t) /\ task'[t] = Loader(kind, ref, q, valid)
      BY <2>1, <2>2, TaskReplaced
    <2>4. ScreenOK'
      BY <2>1 DEF ScreenOK
    <2> QED
      BY <1>3, <2>1, <2>2, <2>3, <2>4
  <1> QED
    BY <1>1, <1>2, <1>3 DEF Modes

LEMMA Arrives ==
  ASSUME UrlOK, ScreenOK, TasksOK, ServerOK', NEW t \in Tasks, NEW q \in Query, NEW push \in BOOLEAN,
         NEW input \in Searches, Arrive(t, q, push, input)
  PROVE  /\ UrlOK' /\ ScreenOK' /\ TasksOK' /\ OnlyTask(t)
         /\ \/ /\ q # url /\ loadError' = FALSE
               /\ \/ /\ task'[t].pc = "count" /\ task'[t].query = url' /\ task'[t].kind = "load"
                  \/ /\ task'[t] = NoTask /\ isLoading' = FALSE
                     /\ shown'.query = url' \/ BeyondDemo'
            \/ q = url /\ task'[t] = NoTask /\ UNCHANGED <<url, shown, isLoading, loadError>>
  <1>1. shown.valid \in Nat
    BY DEF ScreenOK, Shown
  <1>2. q.search \in Searches
    BY DEF Query
  <1>3. previous' \in Query \cup {Nil} /\ searchInput' \in Searches
    BY <1>2 DEF Arrive, UrlOK
  <1>4. CASE q = url
    <2>1. url' = q /\ task' = [task EXCEPT ![t] = NoTask] /\ UNCHANGED <<shown, isLoading, loadError>>
      BY <1>4 DEF Arrive, Reloads
    <2> QED
      BY <1>3, <1>4, <2>1, TaskReplaced, NoTaskIsGood DEF UrlOK, ScreenOK
  <1>5. CASE q # url
    <2> DEFINE target == DemoQuery(q, Demo', shown.valid)
    <2>1. url' = target /\ Load(t, "load", Nil, target, shown.valid)
      BY <1>5 DEF Arrive, Reloads, Demo
    <2>2. target \in Query
      BY <1>1, DemoQueryType
    <2> HIDE DEF target
    <2>3. Beyond(target, Demo') => BeyondDemo'
      BY <2>1 DEF Beyond, BeyondDemo, Demo
    <2>4. /\ ScreenOK' /\ TasksOK' /\ OnlyTask(t) /\ loadError' = FALSE
          /\ \/ task'[t].pc = "count" /\ task'[t].query = target /\ task'[t].kind = "load"
             \/ /\ task'[t] = NoTask /\ isLoading' = FALSE
                /\ shown'.query = target \/ Beyond(target, Demo')
      BY <1>1, <2>1, <2>2, Loads
    <2> QED
      BY <1>3, <1>5, <2>1, <2>2, <2>3, <2>4 DEF UrlOK
  <1> QED
    BY <1>4, <1>5

\* After a navigation the list belongs to the new url, or as before to the old.
LEMMA Navigates ==
  ASSUME IInv, ServerOK', NEW t \in Tasks, NEW q \in Query, NEW push \in BOOLEAN,
         NEW input \in Searches, Arrive(t, q, push, input),
         q # url \/ (task[t].pc \notin Listing /\ Demo' = Demo),
         lost => lost'
  PROVE  /\ UrlOK' /\ ScreenOK' /\ TasksOK' /\ OnlyTask(t)
         /\ LoadingGoesOn' /\ (lost' \/ Follows')
  <1>1. Typed /\ UrlOK /\ ScreenOK /\ TasksOK /\ LoadingGoesOn /\ (lost \/ Follows)
    BY DEF IInv, Typed
  <1>2. /\ UrlOK' /\ ScreenOK' /\ TasksOK' /\ OnlyTask(t)
        /\ \/ /\ q # url /\ loadError' = FALSE
              /\ \/ /\ task'[t].pc = "count" /\ task'[t].query = url' /\ task'[t].kind = "load"
                 \/ /\ task'[t] = NoTask /\ isLoading' = FALSE
                    /\ shown'.query = url' \/ BeyondDemo'
           \/ q = url /\ task'[t] = NoTask /\ UNCHANGED <<url, shown, isLoading, loadError>>
    BY <1>1, Arrives
  <1>3. CASE q # url
    BY <1>2, <1>3 DEF LoadingGoesOn, Follows, Loading
  <1>4. CASE q = url
    <2>1. task[t].pc \notin Listing /\ Demo' = Demo /\ UNCHANGED <<url, shown, isLoading, loadError>>
      BY <1>2, <1>4
    <2>2. LoadingGoesOn'
      BY <1>1, <1>2, <2>1 DEF LoadingGoesOn, OnlyTask
    <2>3. Loading(url) => Loading(url)'
      BY <1>2, <2>1 DEF Loading, OnlyTask
    <2>4. BeyondDemo' <=> BeyondDemo
      BY <2>1 DEF BeyondDemo, Demo
    <2>5. Follows => Follows'
      BY <2>1, <2>3, <2>4 DEF Follows
    <2> QED
      BY <1>1, <1>2, <2>2, <2>5
  <1> QED
    BY <1>3, <1>4, <1>2

LEMMA Updates ==
  ASSUME IInv, ServerOK', NEW t \in Tasks, NEW from \in Query, NEW q \in Query,
         NEW push \in BOOLEAN, NEW input \in Searches, UpdateQuery(t, from, q, push, input),
         task[t].pc \notin Listing,
         Demo' = Demo \/ (q # from /\ q # url),
         lost => lost'
  PROVE  /\ UrlOK' /\ ScreenOK' /\ TasksOK' /\ OnlyTask(t)
         /\ LoadingGoesOn' /\ (lost' \/ Follows')
  <1>1. CASE q # from
    BY <1>1, Navigates DEF UpdateQuery
  <1>2. CASE q = from
    <2>1. /\ UNCHANGED <<url, previous, shown, isLoading, loadError>> /\ searchInput' = input
          /\ task' = [task EXCEPT ![t] = NoTask] /\ Demo' = Demo
      BY <1>2 DEF UpdateQuery
    <2>2. TasksOK' /\ OnlyTask(t)
      BY <2>1, TaskReplaced, NoTaskIsGood DEF IInv, Typed
    <2>3. UrlOK' /\ ScreenOK'
      BY <2>1 DEF IInv, Typed, UrlOK, ScreenOK
    <2>4. LoadingGoesOn'
      BY <2>1, <2>2 DEF IInv, LoadingGoesOn, OnlyTask
    <2>5. Loading(url) => Loading(url)'
      BY <2>1, <2>2 DEF Loading, OnlyTask
    <2>6. BeyondDemo' <=> BeyondDemo
      BY <2>1 DEF BeyondDemo, Demo
    <2>7. lost' \/ Follows'
      BY <2>1, <2>5, <2>6 DEF Follows, IInv
    <2> QED
      BY <2>2, <2>3, <2>4, <2>7
  <1> QED
    BY <1>1, <1>2

\* A list loaded for the query of a handler's render, if that is the url's or
\* somebody else loads the url's.
LEMMA Reloading ==
  ASSUME IInv, ServerOK', NEW t \in Tasks, NEW kind \in {"load", "create", "delete", "restore"},
         NEW ref \in Refs \cup {Nil}, kind = "create" => ref = Nil,
         NEW q \in Query, NEW valid \in Nat,
         Load(t, kind, ref, q, valid), UNCHANGED <<url, previous, searchInput>>,
         task[t].pc \notin Listing, lost' \/ q = url \/ Loading(url)
  PROVE  /\ UrlOK' /\ ScreenOK' /\ TasksOK' /\ OnlyTask(t)
         /\ LoadingGoesOn' /\ (lost' \/ Follows')
         /\ q.mode = "product" => task'[t].pc = "count" /\ task'[t].kind = kind /\ task'[t].ref = ref
  <1>1. /\ ScreenOK' /\ TasksOK' /\ OnlyTask(t) /\ loadError' = FALSE
        /\ \/ /\ q.mode = "product" /\ task'[t].pc = "count" /\ task'[t].query = q
              /\ task'[t].kind = kind /\ task'[t].ref = ref
           \/ /\ q.mode = "portfolio" /\ task'[t] = NoTask /\ isLoading' = FALSE
              /\ shown'.query = q \/ Beyond(q, Demo')
    BY Loads DEF IInv, Typed
  <1>2. UrlOK'
    BY DEF IInv, Typed, UrlOK
  <1>3. LoadingGoesOn'
    BY <1>1 DEF LoadingGoesOn
  <1>4. CASE q = url
    <2>1. Beyond(q, Demo') => BeyondDemo'
      BY <1>4 DEF Beyond, BeyondDemo, Demo
    <2> QED
      BY <1>1, <1>2, <1>3, <1>4, <2>1 DEF Follows, Loading
  <1>5. CASE Loading(url)
    <2>1. Loading(url)'
      BY <1>1, <1>5 DEF Loading, OnlyTask
    <2> QED
      BY <1>1, <1>2, <1>3, <2>1 DEF Follows
  <1> QED
    BY <1>1, <1>2, <1>3, <1>4, <1>5
-----------------------------------------------------------------------------
(* Buttons: what others do does not disturb them. *)

LEMMA OthersDelete ==
  ASSUME DeletingGoesOn, NEW t \in Tasks, OnlyTask(t), deleting' \in {deleting, Nil},
         task[t].kind # "delete" \/ task[t].pc = "idle" \/ deleting' = Nil
  PROVE  DeletingGoesOn'
  BY DEF DeletingGoesOn, Writing, OnlyTask

LEMMA OthersRestore ==
  ASSUME RestoringGoesOn, NEW t \in Tasks, OnlyTask(t), restoring' \in {restoring, Nil},
         task[t].kind # "restore" \/ task[t].pc = "idle" \/ restoring' = Nil
  PROVE  RestoringGoesOn'
  BY DEF RestoringGoesOn, Writing, OnlyTask

LEMMA OthersSave ==
  ASSUME SavingGoesOn, NEW t \in Tasks, OnlyTask(t), modal' = modal \/ modal' # "submitting",
         \/ task[t].kind # "create" \/ task[t].pc \notin {"write", "written"}
         \/ modal' # "submitting"
  PROVE  SavingGoesOn'
  BY DEF SavingGoesOn, OnlyTask

\* No task is touched.
LEMMA TasksStay ==
  ASSUME IInv, UNCHANGED task, deleting' \in {deleting, Nil}, restoring' \in {restoring, Nil},
         modal' = modal \/ modal' # "submitting"
  PROVE  TasksOK' /\ DeletingGoesOn' /\ RestoringGoesOn' /\ SavingGoesOn'
  BY DEF IInv, Typed, TasksOK, DeletingGoesOn, RestoringGoesOn, SavingGoesOn, Writing

\* Neither is the list.
LEMMA ListStays ==
  ASSUME IInv, UNCHANGED <<url, shown, isLoading, loadError, task>>, Demo' = Demo, lost => lost'
  PROVE  ScreenOK' /\ LoadingGoesOn' /\ (lost' \/ Follows')
  <1>1. Loading(url)' <=> Loading(url)
    BY DEF Loading
  <1>2. BeyondDemo' <=> BeyondDemo
    BY DEF BeyondDemo, Demo
  <1> QED
    BY <1>1, <1>2 DEF IInv, Typed, ScreenOK, LoadingGoesOn, Follows
-----------------------------------------------------------------------------
(* The user and the timer. *)

LEMMA CountersMoved == ASSUME IInv, Move \/ UNCHANGED moves, UNCHANGED lost PROVE CountersOK'
  BY DashboardAssumption DEF IInv, Typed, CountersOK, Move

\* A handler of its own starts with an idle task.
LEMMA FromIdle ==
  ASSUME IInv, NEW t \in Idle, UrlOK', ScreenOK', TasksOK', OnlyTask(t), LoadingGoesOn',
         lost' \/ Follows', ServerOK', ButtonsOK', CountersOK', UNCHANGED <<deleting, restoring>>,
         modal' = modal \/ modal' # "submitting"
  PROVE  IInv'
  <1>1. t \in Tasks /\ task[t].pc = "idle"
    BY DEF Idle
  <1>2. DeletingGoesOn' /\ RestoringGoesOn'
    BY <1>1, OthersDelete, OthersRestore DEF IInv
  <1>3. SavingGoesOn'
    BY <1>1, OthersSave DEF IInv
  <1> QED
    BY <1>2, <1>3 DEF IInv, Typed

LEMMA ServerStays == ASSUME IInv, UNCHANGED server PROVE ServerOK' /\ Demo' = Demo
  BY DEF IInv, Typed, ServerOK, server, Demo

LEMMA AskKeeps ==
  ASSUME IInv, NEW q \in Query, NEW input \in Searches, Ask(q, input),
         confirming' \in {confirming, Nil}, restoreFeedback' \in {restoreFeedback, Nil},
         UNCHANGED <<deleting, restoring, modal, lost>>, Move
  PROVE  IInv'
  <1>1. ServerOK' /\ Demo' = Demo /\ CountersOK'
    BY ServerStays, CountersMoved DEF Ask
  <1>2. ButtonsOK'
    BY DEF IInv, Typed, ButtonsOK
  <1>3. PICK t \in Idle : UpdateQuery(t, url, q, TRUE, input)
    BY DEF Ask
  <1>4. t \in Tasks /\ task[t].pc = "idle" /\ url \in Query
    BY DEF Idle, IInv, Typed, UrlOK
  <1>5. /\ UrlOK' /\ ScreenOK' /\ TasksOK' /\ OnlyTask(t)
        /\ LoadingGoesOn' /\ (lost' \/ Follows')
    BY <1>1, <1>3, <1>4, Updates
  <1> QED
    BY <1>1, <1>2, <1>5, FromIdle

LEMMA UrlFields == ASSUME IInv PROVE /\ url \in Query /\ searchInput \in Searches /\ NoSearch \in Searches
                                   /\ url.tags \in SUBSET Tags /\ url.page \in Nat \ {0}
                                   /\ shown.items \in SUBSET Refs /\ shown.count \in Nat
                                   /\ shown.tags \in SUBSET Tags /\ shown.valid \in Nat
  BY ListAssumption DEF IInv, Typed, UrlOK, Query, ScreenOK, Shown

LEMMA Edits ==
  ASSUME NEW q \in Query, NEW search \in Searches, NEW tags \in SUBSET Tags, NEW page \in Nat \ {0}
  PROVE  /\ [q EXCEPT !.page = page] \in Query
         /\ [q EXCEPT !.search = search, !.page = page] \in Query
         /\ [q EXCEPT !.tags = tags, !.page = page] \in Query
         /\ [q EXCEPT !.search = search, !.tags = tags, !.page = page] \in Query
  <1>1. [q EXCEPT !.page = page] \in Query
    BY DEF Query
  <1>2. [q EXCEPT !.search = search, !.page = page] \in Query
    BY DEF Query
  <1>3. [q EXCEPT !.tags = tags, !.page = page] \in Query
    BY DEF Query
  <1>4. [q EXCEPT !.search = search, !.tags = tags, !.page = page] \in Query
    BY DEF Query
  <1> QED
    BY <1>1, <1>2, <1>3, <1>4

LEMMA QueryUser ==
  ASSUME IInv,
         \/ \E p \in 1 .. TotalPages(shown.count) : GoToPage(p)
         \/ \E g \in shown.tags : ToggleTag(g)
         \/ \E m \in Modes : SwitchMode(m)
         \/ ClearFilters
  PROVE  IInv'
  <1>0. /\ url \in Query /\ searchInput \in Searches /\ NoSearch \in Searches /\ 1 \in Nat \ {0}
        /\ shown.count \in Nat /\ {} \in SUBSET Tags
    BY UrlFields
  <1>1. ASSUME NEW p \in 1 .. TotalPages(shown.count), GoToPage(p) PROVE IInv'
    <2>1. p \in Nat \ {0}
      BY <1>0, TotalPagesType
    <2>2. [url EXCEPT !.page = p] \in Query
      BY <1>0, <2>1 DEF Query
    <2> QED
      BY <1>0, <1>1, <2>2, AskKeeps DEF GoToPage, buttons
  <1>2. ASSUME NEW g \in shown.tags, ToggleTag(g) PROVE IInv'
    <2> DEFINE tags == IF g \in url.tags THEN url.tags \ {g} ELSE url.tags \cup {g}
    <2>1. tags \in SUBSET Tags
      BY UrlFields
    <2>2. Move /\ Ask([url EXCEPT !.tags = tags, !.page = 1], searchInput) /\ UNCHANGED <<buttons, lost>>
      BY <1>2 DEF ToggleTag
    <2> HIDE DEF tags
    <2>3. [url EXCEPT !.tags = tags, !.page = 1] \in Query
      BY <1>0, <2>1, Edits, Zenon
    <2> QED
      BY <1>0, <2>2, <2>3, AskKeeps DEF buttons
  <1>3. ASSUME NEW m \in Modes, SwitchMode(m) PROVE IInv'
    <2>1. [search |-> NoSearch, tags |-> {}, page |-> 1, mode |-> m] \in Query
      BY <1>0 DEF Query
    <2> QED
      BY <1>0, <1>3, <2>1, AskKeeps DEF SwitchMode
  <1>4. ASSUME ClearFilters PROVE IInv'
    <2>1. [url EXCEPT !.search = NoSearch, !.tags = {}, !.page = 1] \in Query
      BY <1>0, Edits, Zenon
    <2> QED
      BY <1>0, <1>4, <2>1, AskKeeps DEF ClearFilters, buttons
  <1> QED
    BY <1>1, <1>2, <1>3, <1>4

LEMMA DebounceKeeps == ASSUME IInv, Debounce PROVE IInv'
  <1>1. UNCHANGED <<server, confirming, deleting, restoring, restoreFeedback, modal, moves, lost>>
    BY DEF Debounce, buttons
  <1>2. ServerOK' /\ Demo' = Demo /\ CountersOK' /\ ButtonsOK'
    BY <1>1, ServerStays, CountersMoved DEF IInv, Typed, ButtonsOK
  <1>3. [url EXCEPT !.search = searchInput, !.page = 1] \in Query
    <2>1. url \in Query /\ searchInput \in Searches /\ 1 \in Nat \ {0} /\ {} \in SUBSET Tags
      BY UrlFields
    <2> QED
      BY <2>1, Edits, Zenon
  <1>4. PICK t \in Idle :
           UpdateQuery(t, url, [url EXCEPT !.search = searchInput, !.page = 1], FALSE, searchInput)
    BY DEF Debounce
  <1>5. t \in Tasks /\ task[t].pc = "idle"
    BY DEF Idle
  <1>6. /\ UrlOK' /\ ScreenOK' /\ TasksOK' /\ OnlyTask(t)
        /\ LoadingGoesOn' /\ (lost' \/ Follows')
    BY <1>1, <1>2, <1>3, <1>4, <1>5, UrlFields, Updates
  <1> QED
    BY <1>1, <1>2, <1>6, FromIdle

LEMMA BackKeeps == ASSUME IInv, Back PROVE IInv'
  <1>1. UNCHANGED <<server, confirming, deleting, restoring, restoreFeedback, modal, lost>> /\ Move
    BY DEF Back, buttons
  <1>2. ServerOK' /\ Demo' = Demo /\ CountersOK' /\ ButtonsOK'
    BY <1>1, ServerStays, CountersMoved DEF IInv, Typed, ButtonsOK
  <1>3. previous \in Query
    BY DEF Back, IInv, Typed, UrlOK
  <1>4. PICK t \in Idle : Arrive(t, previous, TRUE, searchInput)
    BY DEF Back
  <1>5. t \in Tasks /\ task[t].pc = "idle"
    BY DEF Idle
  <1>6. /\ UrlOK' /\ ScreenOK' /\ TasksOK' /\ OnlyTask(t)
        /\ LoadingGoesOn' /\ (lost' \/ Follows')
    BY <1>1, <1>2, <1>3, <1>4, <1>5, UrlFields, Navigates
  <1> QED
    BY <1>1, <1>2, <1>6, FromIdle

LEMMA RetryKeeps == ASSUME IInv, Retry PROVE IInv'
  <1>1. /\ UNCHANGED <<server, confirming, deleting, restoring, restoreFeedback, modal, lost>>
        /\ UNCHANGED <<url, previous, searchInput>> /\ Move
    BY DEF Retry, buttons
  <1>2. ServerOK' /\ CountersOK' /\ ButtonsOK'
    BY <1>1, ServerStays, CountersMoved DEF IInv, Typed, ButtonsOK
  <1>3. PICK t \in Idle : Load(t, "load", Nil, url, shown.valid)
    BY DEF Retry
  <1>4. t \in Tasks /\ task[t].pc = "idle"
    BY DEF Idle
  <1>5. /\ UrlOK' /\ ScreenOK' /\ TasksOK' /\ OnlyTask(t)
        /\ LoadingGoesOn' /\ (lost' \/ Follows')
    BY <1>1, <1>2, <1>3, <1>4, UrlFields, Reloading
  <1> QED
    BY <1>1, <1>2, <1>5, FromIdle

\* A button or the search field, without a request.
LEMMA Presses ==
  ASSUME IInv, UNCHANGED <<url, previous, shown, isLoading, loadError, task, server, lost>>,
         searchInput' \in Searches, Move \/ UNCHANGED moves, ButtonsOK',
         UNCHANGED <<deleting, restoring>>, modal' = modal \/ modal' # "submitting"
  PROVE  IInv'
  <1>1. ServerOK' /\ Demo' = Demo /\ CountersOK'
    BY ServerStays, CountersMoved
  <1>2. TasksOK' /\ DeletingGoesOn' /\ RestoringGoesOn' /\ SavingGoesOn'
    BY TasksStay
  <1>3. ScreenOK' /\ LoadingGoesOn' /\ (lost' \/ Follows')
    BY <1>1, ListStays
  <1>4. UrlOK'
    BY DEF IInv, Typed, UrlOK
  <1> QED
    BY <1>1, <1>2, <1>3, <1>4 DEF IInv, Typed

LEMMA PressUser ==
  ASSUME IInv,
         \/ \E s \in Searches : Type(s)
         \/ \E r \in shown.items : AskDelete(r)
         \/ CancelDelete \/ OpenModal \/ CancelModal
  PROVE  IInv'
  <1>1. ButtonsOK /\ searchInput \in Searches /\ shown.items \in SUBSET Refs
    BY UrlFields DEF IInv, Typed
  <1>2. ASSUME NEW s \in Searches, Type(s) PROVE IInv'
    <2>1. ButtonsOK'
      BY <1>1, <1>2 DEF Type, buttons, ButtonsOK
    <2> QED
      BY <1>2, <2>1, Presses DEF Type, buttons
  <1>3. ASSUME NEW r \in shown.items, AskDelete(r) PROVE IInv'
    <2>1. ButtonsOK'
      BY <1>1, <1>3 DEF AskDelete, ButtonsOK
    <2> QED
      BY <1>1, <1>3, <2>1, Presses DEF AskDelete, screen
  <1>4. ASSUME CancelDelete PROVE IInv'
    <2>1. ButtonsOK'
      BY <1>1, <1>4 DEF CancelDelete, ButtonsOK
    <2> QED
      BY <1>1, <1>4, <2>1, Presses DEF CancelDelete, screen
  <1>5. ASSUME OpenModal PROVE IInv'
    <2>1. ButtonsOK'
      BY <1>1, <1>5 DEF OpenModal, ButtonsOK
    <2> QED
      BY <1>1, <1>5, <2>1, Presses DEF OpenModal, screen
  <1>6. ASSUME CancelModal PROVE IInv'
    <2>1. ButtonsOK'
      BY <1>1, <1>6 DEF CancelModal, ButtonsOK
    <2> QED
      BY <1>1, <1>6, <2>1, Presses DEF CancelModal, screen
  <1> QED
    BY <1>2, <1>3, <1>4, <1>5, <1>6

\* A handler that writes starts: a task of its own captures the render.
LEMMA Starts ==
  ASSUME IInv, NEW t \in Idle, NEW kind \in {"create", "delete", "restore"},
         NEW ref \in Refs \cup {Nil}, kind = "create" => ref = Nil, NEW page \in Nat \ {0},
         kind = "delete" => url.mode = "product",
         Start(t, kind, ref, page), UNCHANGED <<url, previous, screen, server, lost>>
  PROVE  /\ UrlOK' /\ ScreenOK' /\ TasksOK' /\ OnlyTask(t) /\ t \in Tasks
         /\ task'[t].pc = "write" /\ task'[t].kind = kind /\ task'[t].ref = ref
         /\ LoadingGoesOn' /\ (lost' \/ Follows')
  <1> DEFINE k == [NoTask EXCEPT !.pc = "write", !.kind = kind, !.ref = ref, !.query = url,
                                 !.valid = shown.valid, !.page = page]
  <1>1. t \in Tasks /\ task[t].pc = "idle" /\ url \in Query /\ shown.valid \in Nat /\ TasksOK
    BY UrlFields DEF Idle, IInv, Typed
  <1>2. NoTask \in Task /\ NoTask.answer = NoAnswer
    BY NoTaskIsGood DEF TaskOK, NoTask
  <1>3. /\ k \in Task /\ k.pc = "write" /\ k.kind = kind /\ k.ref = ref /\ k.query = url
        /\ k.page = page /\ k.answer = NoAnswer
    <2> HIDE DEF NoTask, NoAnswer
    <2> QED
      BY <1>1, <1>2 DEF Task
  <1>4. task' = [task EXCEPT ![t] = k]
    BY DEF Start
  <1> HIDE DEF k
  <1>5. TaskOK(k)
    BY <1>1, <1>2, <1>3 DEF TaskOK
  <1>6. TasksOK' /\ OnlyTask(t) /\ task'[t] = k
    BY <1>1, <1>4, <1>5, TaskReplaced
  <1>7. UNCHANGED <<searchInput, shown, isLoading, loadError>>
    BY DEF screen
  <1>8. UrlOK' /\ ScreenOK'
    BY <1>7 DEF IInv, Typed, UrlOK, ScreenOK
  <1>9. LoadingGoesOn'
    BY <1>1, <1>6, <1>7 DEF IInv, LoadingGoesOn, OnlyTask
  <1>10. Loading(url) => Loading(url)'
    BY <1>1, <1>6 DEF Loading, OnlyTask
  <1>11. BeyondDemo' <=> BeyondDemo
    BY DEF BeyondDemo, server
  <1>12. lost' \/ Follows'
    BY <1>7, <1>10, <1>11 DEF IInv, Follows
  <1> QED
    BY <1>1, <1>3, <1>6, <1>8, <1>9, <1>12

LEMMA ConfirmKeeps == ASSUME IInv, ConfirmDelete PROVE IInv'
  <1>1. /\ Move /\ UNCHANGED <<url, previous, screen, confirming, restoring, restoreFeedback, modal,
                               server, lost>>
        /\ deleting' = confirming /\ confirming \in Refs /\ url.mode = "product"
    BY UrlFields DEF ConfirmDelete
  <1>2. PICK t \in Idle : Start(t, "delete", confirming, PageAfterDelete)
    BY DEF ConfirmDelete
  <1>3. PageAfterDelete \in Nat \ {0}
    BY UrlFields DEF PageAfterDelete
  <1>4. /\ UrlOK' /\ ScreenOK' /\ TasksOK' /\ OnlyTask(t) /\ t \in Tasks
        /\ task'[t].pc = "write" /\ task'[t].kind = "delete" /\ task'[t].ref = confirming
        /\ LoadingGoesOn' /\ (lost' \/ Follows')
    BY <1>1, <1>2, <1>3, Starts
  <1>5. DeletingGoesOn'
    BY <1>1, <1>4 DEF DeletingGoesOn, Writing
  <1>6. task[t].pc = "idle"
    BY DEF Idle
  <1>7. RestoringGoesOn' /\ SavingGoesOn'
    BY <1>1, <1>4, <1>6, OthersRestore, OthersSave DEF IInv
  <1>8. ButtonsOK' /\ ServerOK' /\ CountersOK'
    BY <1>1, ServerStays, CountersMoved DEF IInv, Typed, ButtonsOK
  <1> QED
    BY <1>4, <1>5, <1>7, <1>8 DEF IInv, Typed

LEMMA UndoKeeps == ASSUME IInv, Undo PROVE IInv'
  <1>1. /\ Move /\ UNCHANGED <<url, previous, screen, confirming, deleting, restoreFeedback, modal,
                               server, lost>>
        /\ restoring' = restoreFeedback /\ restoreFeedback \in Refs
    BY DEF Undo, IInv, Typed, ButtonsOK
  <1>2. PICK t \in Idle : Start(t, "restore", restoreFeedback, url.page)
    BY DEF Undo
  <1>3. url.page \in Nat \ {0}
    BY UrlFields
  <1>4. /\ UrlOK' /\ ScreenOK' /\ TasksOK' /\ OnlyTask(t) /\ t \in Tasks
        /\ task'[t].pc = "write" /\ task'[t].kind = "restore" /\ task'[t].ref = restoreFeedback
        /\ LoadingGoesOn' /\ (lost' \/ Follows')
    BY <1>1, <1>2, <1>3, Starts
  <1>5. RestoringGoesOn'
    BY <1>1, <1>4 DEF RestoringGoesOn, Writing
  <1>6. task[t].pc = "idle"
    BY DEF Idle
  <1>7. DeletingGoesOn' /\ SavingGoesOn'
    BY <1>1, <1>4, <1>6, OthersDelete, OthersSave DEF IInv
  <1>8. ButtonsOK' /\ ServerOK' /\ CountersOK'
    BY <1>1, ServerStays, CountersMoved DEF IInv, Typed, ButtonsOK
  <1> QED
    BY <1>4, <1>5, <1>7, <1>8 DEF IInv, Typed

LEMMA SubmitKeeps == ASSUME IInv, Submit PROVE IInv'
  <1>1. /\ Move /\ UNCHANGED <<url, previous, screen, confirming, deleting, restoring, restoreFeedback,
                               server, lost>>
        /\ modal' = "submitting"
    BY DEF Submit
  <1>2. PICK t \in Idle : Start(t, "create", Nil, 1)
    BY DEF Submit
  <1>3. /\ UrlOK' /\ ScreenOK' /\ TasksOK' /\ OnlyTask(t) /\ t \in Tasks
        /\ task'[t].pc = "write" /\ task'[t].kind = "create"
        /\ LoadingGoesOn' /\ (lost' \/ Follows')
    BY <1>1, <1>2, Starts
  <1>4. SavingGoesOn'
    BY <1>3 DEF SavingGoesOn
  <1>5. task[t].pc = "idle"
    BY DEF Idle
  <1>6. DeletingGoesOn' /\ RestoringGoesOn'
    BY <1>1, <1>3, <1>5, OthersDelete, OthersRestore DEF IInv
  <1>7. ButtonsOK' /\ ServerOK' /\ CountersOK'
    BY <1>1, ServerStays, CountersMoved DEF IInv, Typed, ButtonsOK
  <1> QED
    BY <1>3, <1>4, <1>6, <1>7 DEF IInv, Typed

\* The demo layer has a new reference: the first page shows it.
LEMMA SubmitDemoKeeps == ASSUME IInv, SubmitDemo PROVE IInv'
  <1>1. /\ Move /\ UNCHANGED <<confirming, deleting, restoring, restoreFeedback, trash, lost>>
        /\ modal' = "closed"
    BY DEF SubmitDemo
  <1>2. ButtonsOK' /\ CountersOK'
    BY <1>1, CountersMoved DEF IInv, Typed, ButtonsOK
  <1>3. ServerOK'
    <2>1. PICK r \in DemoRefs : library' = [library EXCEPT !["portfolio"] = @ \cup {r}]
      BY DEF SubmitDemo
    <2>2. r \in Refs
      BY DashboardAssumption
    <2> QED
      BY <1>1, <2>1, <2>2 DEF IInv, Typed, ServerOK, Modes
  <1>4. PICK t \in Idle : ShowFirstPage(t, url, shown.valid)
    BY DEF SubmitDemo
  <1>5. t \in Tasks /\ task[t].pc = "idle"
    BY DEF Idle
  <1>6. url \in Query /\ searchInput \in Searches /\ shown.valid \in Nat /\ 1 \in Nat \ {0}
    BY UrlFields
  <1>7. /\ UrlOK' /\ ScreenOK' /\ TasksOK' /\ OnlyTask(t)
        /\ LoadingGoesOn' /\ (lost' \/ Follows')
    <2>1. CASE url.page # 1
      <3> DEFINE first == [url EXCEPT !.page = 1]
      <3>1. first \in Query /\ first # url
        BY <1>6, <2>1 DEF Query
      <3>2. UpdateQuery(t, url, first, TRUE, searchInput)
        BY <1>4, <2>1 DEF ShowFirstPage
      <3> HIDE DEF first
      <3> QED
        BY <1>1, <1>3, <1>5, <1>6, <3>1, <3>2, Updates
    <2>2. CASE url.page = 1
      <3>1. Load(t, "create", Nil, url, shown.valid) /\ UNCHANGED <<url, previous, searchInput>>
        BY <1>4, <2>2 DEF ShowFirstPage
      <3> QED
        BY <1>3, <1>5, <1>6, <3>1, Reloading
    <2> QED
      BY <2>1, <2>2
  <1> QED
    BY <1>1, <1>2, <1>3, <1>5, <1>7, <1>4, FromIdle
-----------------------------------------------------------------------------
(* The server and other sessions. *)

\* A task goes on, neither ending nor turning into another one.
GoesOn(k, l) ==
    /\ l.kind = k.kind /\ l.ref = k.ref /\ l.query = k.query
    /\ \/ l.pc = k.pc
       \/ k.pc = "write" /\ l.pc = "written"
       \/ k.pc \in Listing /\ l.pc \in Listing

LEMMA TasksGoOn ==
  ASSUME IInv, TasksOK', \A t \in Tasks : GoesOn(task[t], task'[t]),
         UNCHANGED <<url, previous, screen, buttons, lost>>, Move \/ UNCHANGED moves,
         ServerOK', Demo' = Demo
  PROVE  IInv'
  <1>1. /\ UNCHANGED <<searchInput, shown, isLoading, loadError, confirming, deleting, restoring>>
        /\ UNCHANGED <<restoreFeedback, modal>>
    BY DEF screen, buttons
  <1>2. UrlOK' /\ ScreenOK' /\ ButtonsOK' /\ CountersOK'
    BY <1>1, CountersMoved DEF IInv, Typed, UrlOK, ScreenOK, ButtonsOK
  <1>3. LoadingGoesOn'
    BY <1>1 DEF IInv, LoadingGoesOn, GoesOn
  <1>4. \A kind, r : Writing(kind, r) => Writing(kind, r)'
    BY DEF Writing, GoesOn
  <1>5. DeletingGoesOn' /\ RestoringGoesOn'
    BY <1>1, <1>4 DEF IInv, DeletingGoesOn, RestoringGoesOn
  <1>6. SavingGoesOn'
    BY <1>1 DEF IInv, SavingGoesOn, GoesOn
  <1>7. Loading(url) => Loading(url)'
    BY DEF Loading, GoesOn
  <1>8. BeyondDemo' <=> BeyondDemo
    BY DEF BeyondDemo, Demo
  <1>9. lost' \/ Follows'
    BY <1>1, <1>7, <1>8 DEF IInv, Follows
  <1> QED
    BY <1>2, <1>3, <1>5, <1>6, <1>9 DEF IInv, Typed

LEMMA TaskGoesOn ==
  ASSUME IInv, NEW t \in Tasks, NEW k, TaskOK(k), task' = [task EXCEPT ![t] = k],
         GoesOn(task[t], k), UNCHANGED <<url, previous, screen, buttons, server, moves, lost>>
  PROVE  IInv'
  <1>1. TasksOK' /\ OnlyTask(t) /\ task'[t] = k
    BY TaskReplaced DEF IInv, Typed
  <1>2. \A u \in Tasks : GoesOn(task[u], task'[u])
    BY <1>1 DEF OnlyTask, GoesOn
  <1>3. ServerOK' /\ Demo' = Demo
    BY ServerStays
  <1> QED
    BY <1>1, <1>2, <1>3, TasksGoOn

\* Commits of the server leave every handler as it is but for the history of its answer.
LEMMA WitnessedIsGood ==
  ASSUME TasksOK, NEW active, NEW t \in Tasks
  PROVE  LET w == Witnessed(active)[t] IN
         /\ w \in Task /\ TaskOK(w) /\ GoesOn(task[t], w) /\ w.pc = task[t].pc
         /\ w.query = task[t].query
         /\ w.answer.items = task[t].answer.items /\ w.answer.count = task[t].answer.count
         /\ w.answer.since = IF task[t].pc = "page"
                             THEN task[t].answer.since \cup Shifts(task[t].query, active)
                             ELSE task[t].answer.since
  <1> DEFINE k == task[t]
             since == k.answer.since \cup Shifts(k.query, active)
             w == Witnessed(active)[t]
  <1>1. k \in Task /\ TaskOK(k) /\ k.answer \in Answer
    BY DEF TasksOK, Task
  <1>2. Shifts(k.query, active) \in SUBSET {"left", "entered"}
    BY DEF Shifts
  <1>3. since \in SUBSET {"left", "entered"}
    BY <1>1, <1>2 DEF Answer
  <1>4. w = IF k.pc = "page" THEN [k EXCEPT !.answer.since = since] ELSE k
    BY DEF Witnessed
  <1> HIDE DEF k, since, w
  <1>5. CASE k.pc = "page"
    <2>1. w = [k EXCEPT !.answer.since = since]
      BY <1>4, <1>5
    <2>2. /\ w \in Task /\ w.pc = k.pc /\ w.kind = k.kind /\ w.ref = k.ref /\ w.query = k.query
          /\ w.page = k.page
          /\ w.answer.items = k.answer.items /\ w.answer.count = k.answer.count
          /\ w.answer.since = since
      BY <1>1, <1>3, <2>1 DEF Task, Answer
    <2> QED
      BY <1>1, <1>5, <2>2 DEF TaskOK, GoesOn, k, since, w
  <1>6. CASE k.pc # "page"
    BY <1>1, <1>4, <1>6 DEF TaskOK, GoesOn, k, w
  <1> QED
    BY <1>5, <1>6

LEMMA WitnessedAreGood ==
  ASSUME TasksOK, NEW active
  PROVE  /\ Witnessed(active) \in [Tasks -> Task]
         /\ \A t \in Tasks : TaskOK(Witnessed(active)[t]) /\ GoesOn(task[t], Witnessed(active)[t])
  <1>1. \A t \in Tasks : /\ Witnessed(active)[t] \in Task /\ TaskOK(Witnessed(active)[t])
                         /\ GoesOn(task[t], Witnessed(active)[t])
    BY WitnessedIsGood
  <1>2. Witnessed(active) = [t \in Tasks |-> Witnessed(active)[t]]
    BY DEF Witnessed
  <1> QED
    BY <1>1, <1>2

LEMMA ServedSets ==
  ASSUME IInv, NEW t \in Tasks, ServeWrite(t)
  PROVE  \E active \in SUBSET Refs, deleted \in SUBSET Refs : Served(t, active, deleted)
  <1>1. library["product"] \in SUBSET Refs /\ trash \in SUBSET Refs
    BY DEF IInv, Typed, ServerOK, Modes
  <1>2. CASE task[t].kind = "create"
    BY <1>1, <1>2 DEF ServeWrite
  <1>3. CASE task[t].kind # "create"
    BY <1>1, <1>3 DEF ServeWrite
  <1> QED
    BY <1>2, <1>3

LEMMA ServeWriteKeeps == ASSUME IInv, NEW t \in Tasks, ServeWrite(t) PROVE IInv'
  <1>1. /\ TasksOK /\ task[t].pc = "write"
        /\ UNCHANGED <<url, previous, screen, buttons, moves, lost>>
    BY DEF ServeWrite, IInv, Typed
  <1>2. PICK active \in SUBSET Refs, deleted \in SUBSET Refs : Served(t, active, deleted)
    BY ServedSets
  <1>3. ServerOK' /\ Demo' = Demo
    BY <1>2 DEF Served, IInv, Typed, ServerOK, Modes, Demo
  <1> DEFINE seen == Witnessed(active)
             k == [seen[t] EXCEPT !.pc = "written"]
  <1>4. /\ seen \in [Tasks -> Task] /\ seen[t].pc = "write"
        /\ \A u \in Tasks : TaskOK(seen[u]) /\ GoesOn(task[u], seen[u])
    BY <1>1, WitnessedAreGood, WitnessedIsGood
  <1>5. task' = [seen EXCEPT ![t] = k]
    BY <1>2 DEF Served
  <1> HIDE DEF seen
  <1>6. /\ k \in Task /\ k.pc = "written" /\ k.kind = seen[t].kind /\ k.ref = seen[t].ref
        /\ k.query = seen[t].query /\ k.page = seen[t].page
    BY <1>4 DEF Task
  <1> HIDE DEF k
  <1>7. TaskOK(k) /\ GoesOn(task[t], k)
    BY <1>1, <1>4, <1>6 DEF TaskOK, GoesOn
  <1>8. TasksOK' /\ \A u \in Tasks : GoesOn(task[u], task'[u])
    BY <1>4, <1>5, <1>6, <1>7 DEF TasksOK
  <1> QED
    BY <1>1, <1>3, <1>8, TasksGoOn

\* The answer that a handler waits for is put together.
LEMMA AnswerGrows ==
  ASSUME IInv, NEW t \in Tasks, NEW pc \in Listing, NEW a \in Answer, NEW k,
         k = [task[t] EXCEPT !.pc = pc, !.answer = a], task' = [task EXCEPT ![t] = k],
         task[t].pc \in Listing,
         UNCHANGED <<url, previous, screen, buttons, server, moves, lost>>
  PROVE  IInv'
  <1>1. TaskOK(task[t]) /\ task[t] \in Task
    BY DEF IInv, Typed, TasksOK
  <1>2. /\ k \in Task /\ k.pc = pc /\ k.kind = task[t].kind /\ k.ref = task[t].ref
        /\ k.query = task[t].query /\ k.page = task[t].page
    BY <1>1 DEF Task
  <1>3. TaskOK(k) /\ GoesOn(task[t], k)
    BY <1>1, <1>2 DEF TaskOK, GoesOn
  <1> QED
    BY <1>3, TaskGoesOn

LEMMA ServeListKeeps == ASSUME IInv, NEW t \in Tasks, ServeList(t) PROVE IInv'
  <1> DEFINE k == task[t]
             active == library["product"]
  <1>1. k \in Task /\ TaskOK(k) /\ active \in SUBSET Refs
    BY DEF IInv, Typed, TasksOK, ServerOK, Modes
  <1>2. k.pc \in Listing /\ k.query \in Query /\ k.answer \in Answer
    BY <1>1 DEF ServeList, ServeCount, ServePage, ServeTags, TaskOK, Task
  <1>3. ASSUME ServeCount(t) PROVE IInv'
    <2> DEFINE n == Cardinality(Found(k.query, active))
               a == [k.answer EXCEPT !.count = n]
    <2>1. n \in Nat
      BY <1>1, <1>2, FoundType
    <2>2. task' = [task EXCEPT ![t].pc = "page", ![t].answer.count = n]
          /\ UNCHANGED <<url, previous, screen, buttons, server, moves, lost>>
      BY <1>3 DEF ServeCount
    <2> HIDE DEF n
    <2>3. a \in Answer
      BY <1>2, <2>1 DEF Answer
    <2>4. task' = [task EXCEPT ![t] = [k EXCEPT !.pc = "page", !.answer = a]]
      BY <1>1, <2>2 DEF Task
    <2> QED
      BY <1>2, <2>2, <2>3, <2>4, AnswerGrows
  <1>4. ASSUME ServePage(t) PROVE IInv'
    <2> DEFINE page == PageFor(k.query, active, k.answer.count)
               a == [k.answer EXCEPT !.items = page]
    <2>1. page \in SUBSET Refs
      BY <1>1, <1>2, FoundType, PageForType DEF Answer
    <2>2. task' = [task EXCEPT ![t].pc = "tags", ![t].answer.items = page]
          /\ UNCHANGED <<url, previous, screen, buttons, server, moves, lost>>
      BY <1>4 DEF ServePage
    <2> HIDE DEF page
    <2>3. a \in Answer
      BY <1>2, <2>1 DEF Answer
    <2>4. task' = [task EXCEPT ![t] = [k EXCEPT !.pc = "tags", !.answer = a]]
      BY <1>1, <2>2 DEF Task
    <2> QED
      BY <1>2, <2>2, <2>3, <2>4, AnswerGrows
  <1>5. ASSUME ServeTags(t) PROVE IInv'
    <2> DEFINE tags == AvailableTags(active)
               a == [k.answer EXCEPT !.tags = tags]
    <2>1. tags \in SUBSET Tags
      BY <1>1, TagsAreTags
    <2>2. task' = [task EXCEPT ![t].pc = "listed", ![t].answer.tags = tags]
          /\ UNCHANGED <<url, previous, screen, buttons, server, moves, lost>>
      BY <1>5 DEF ServeTags
    <2> HIDE DEF tags
    <2>3. a \in Answer
      BY <1>2, <2>1 DEF Answer
    <2>4. task' = [task EXCEPT ![t] = [k EXCEPT !.pc = "listed", !.answer = a]]
      BY <1>1, <2>2 DEF Task
    <2> QED
      BY <1>2, <2>2, <2>3, <2>4, AnswerGrows
  <1> QED
    BY <1>3, <1>4, <1>5 DEF ServeList

LEMMA ElsewhereKeeps == ASSUME IInv, Elsewhere PROVE IInv'
  <1>1. /\ Move /\ UNCHANGED <<url, previous, screen, buttons, trash, lost>>
        /\ task' = Witnessed(library'["product"])
    BY DEF Elsewhere
  <1>2. ServerOK' /\ Demo' = Demo
    BY <1>1 DEF Elsewhere, IInv, Typed, ServerOK, Modes, Demo
  <1>3. TasksOK' /\ \A t \in Tasks : GoesOn(task[t], task'[t])
    BY <1>1, WitnessedAreGood DEF IInv, Typed, TasksOK
  <1> QED
    BY <1>1, <1>2, <1>3, TasksGoOn
-----------------------------------------------------------------------------
(* How the handlers go on. *)

\* A handler that is not too late has the query of the url, or another one does.
LEMMA InTime ==
  ASSUME NEW t \in Tasks, ~TooLate(t), task[t].query # url
  PROVE  \E u \in Tasks \ {t} : task[u].pc \in Listing /\ task[u].query = url
  BY DEF TooLate

LEMMA LateOrNot ==
  ASSUME NEW t \in Tasks, lost' = (lost \/ TooLate(t))
  PROVE  lost' \/ task[t].query = url \/ Loading(url)
  BY InTime DEF Loading

LEMMA LostType ==
  ASSUME IInv, UNCHANGED moves, lost' \in BOOLEAN
  PROVE  CountersOK'
  BY DEF IInv, Typed, CountersOK

\* The parts of an invariant kept by a handler that goes on.
LEMMA SaveAnswered ==
  ASSUME IInv, NEW t \in Tasks, task[t].pc = "written", task[t].kind = "create",
         UNCHANGED <<server, moves>>, lost' = (lost \/ TooLate(t)), modal' = "closed",
         ShowFirstPage(t, task[t].query, task[t].valid),
         UNCHANGED <<confirming, deleting, restoring, restoreFeedback>>
  PROVE  IInv'
  <1> DEFINE q == task[t].query
  <1>1. TaskOK(task[t]) /\ q \in Query /\ task[t].valid \in Nat /\ searchInput \in Searches
    BY UrlFields DEF IInv, Typed, TasksOK, TaskOK, Task
  <1>2. ServerOK' /\ Demo' = Demo
    BY ServerStays
  <1>3. ButtonsOK' /\ CountersOK'
    BY LostType DEF IInv, Typed, ButtonsOK, CountersOK
  <1>4. /\ UrlOK' /\ ScreenOK' /\ TasksOK' /\ OnlyTask(t)
        /\ LoadingGoesOn' /\ (lost' \/ Follows')
    <2>1. CASE q.page # 1
      <3>1. [q EXCEPT !.page = 1] \in Query
        <4> HIDE DEF q
        <4> QED
          BY <1>1 DEF Query
      <3>2. UpdateQuery(t, q, [q EXCEPT !.page = 1], TRUE, searchInput)
        BY <2>1 DEF ShowFirstPage
      <3> HIDE DEF q
      <3> QED
        BY <1>1, <1>2, <3>1, <3>2, Updates
    <2>2. CASE q.page = 1
      <3>1. Load(t, "create", Nil, q, task[t].valid) /\ UNCHANGED <<url, previous, searchInput>>
        BY <2>2 DEF ShowFirstPage
      <3>2. lost' \/ q = url \/ Loading(url)
        BY LateOrNot
      <3> QED
        BY <1>1, <1>2, <3>1, <3>2, Reloading
    <2> QED
      BY <2>1, <2>2
  <1>5. DeletingGoesOn' /\ RestoringGoesOn' /\ SavingGoesOn'
    BY <1>4, OthersDelete, OthersRestore, OthersSave DEF IInv
  <1> QED
    BY <1>2, <1>3, <1>4, <1>5 DEF IInv, Typed

LEMMA DeleteAnswered ==
  ASSUME IInv, NEW t \in Tasks, task[t].pc = "written", task[t].kind = "delete",
         UNCHANGED <<server, moves>>, lost' = (lost \/ TooLate(t)),
         confirming' = Nil, restoreFeedback' = task[t].ref,
         IF task[t].page # task[t].query.page
         THEN /\ UpdateQuery(t, task[t].query, [task[t].query EXCEPT !.page = task[t].page], FALSE,
                             searchInput)
              /\ deleting' = Nil
         ELSE /\ Load(t, "delete", task[t].ref, task[t].query, task[t].valid)
              /\ UNCHANGED <<url, previous, searchInput, deleting>>,
         UNCHANGED <<restoring, modal>>
  PROVE  IInv'
  <1> DEFINE q == task[t].query
  <1>1. /\ TaskOK(task[t]) /\ q \in Query /\ q.mode = "product" /\ task[t].valid \in Nat
        /\ task[t].ref \in Refs \cup {Nil} /\ task[t].page \in Nat \ {0} /\ searchInput \in Searches
    BY UrlFields DEF IInv, Typed, TasksOK, TaskOK, Task
  <1>2. ServerOK' /\ Demo' = Demo
    BY ServerStays
  <1>3. ButtonsOK' /\ CountersOK'
    BY <1>1, LostType DEF IInv, Typed, ButtonsOK, CountersOK
  <1>4. /\ UrlOK' /\ ScreenOK' /\ TasksOK' /\ OnlyTask(t)
        /\ LoadingGoesOn' /\ (lost' \/ Follows') /\ DeletingGoesOn'
    <2>1. CASE task[t].page # q.page
      <3>1. [q EXCEPT !.page = task[t].page] \in Query
        BY <1>1, Edits, Zenon
      <3>2. UpdateQuery(t, q, [q EXCEPT !.page = task[t].page], FALSE, searchInput) /\ deleting' = Nil
        BY <2>1
      <3>3. DeletingGoesOn'
        BY <3>2 DEF DeletingGoesOn
      <3> HIDE DEF q
      <3> QED
        BY <1>1, <1>2, <3>1, <3>2, <3>3, Updates
    <2>2. CASE task[t].page = q.page
      <3>1. Load(t, "delete", task[t].ref, q, task[t].valid) /\ UNCHANGED <<url, previous, searchInput, deleting>>
        BY <2>2
      <3>2. /\ lost' \/ q = url \/ Loading(url)
            /\ task[t].pc \notin Listing /\ "delete" \in {"load", "create", "delete", "restore"}
        BY LateOrNot
      <3> HIDE DEF q
      <3>3. /\ UrlOK' /\ ScreenOK' /\ TasksOK' /\ OnlyTask(t)
            /\ LoadingGoesOn' /\ (lost' \/ Follows')
            /\ task'[t].pc = "count" /\ task'[t].kind = "delete" /\ task'[t].ref = task[t].ref
        BY <1>1, <1>2, <3>1, <3>2, Reloading
      <3>4. DeletingGoesOn'
        BY <3>1, <3>3 DEF IInv, DeletingGoesOn, Writing, OnlyTask
      <3> QED
        BY <3>3, <3>4
    <2> QED
      BY <2>1, <2>2
  <1>5. RestoringGoesOn' /\ SavingGoesOn'
    BY <1>4, OthersRestore, OthersSave DEF IInv
  <1> QED
    BY <1>2, <1>3, <1>4, <1>5 DEF IInv, Typed

LEMMA RestoreAnswered ==
  ASSUME IInv, NEW t \in Tasks, task[t].pc = "written", task[t].kind = "restore",
         UNCHANGED <<server, moves>>, lost' = (lost \/ TooLate(t)), restoreFeedback' = Nil,
         Load(t, "restore", task[t].ref, task[t].query, task[t].valid),
         restoring' = IF task[t].query.mode = "portfolio" THEN Nil ELSE restoring,
         UNCHANGED <<url, previous, searchInput, confirming, deleting, modal>>
  PROVE  IInv'
  <1> DEFINE q == task[t].query
  <1>1. /\ TaskOK(task[t]) /\ q \in Query /\ task[t].valid \in Nat /\ task[t].ref \in Refs \cup {Nil}
        /\ q.mode \in {"product", "portfolio"}
    BY DEF IInv, Typed, TasksOK, TaskOK, Task, Query, Modes
  <1>2. ServerOK'
    BY ServerStays
  <1>3. ButtonsOK' /\ CountersOK'
    BY LostType DEF IInv, Typed, ButtonsOK, CountersOK
  <1>4. lost' \/ q = url \/ Loading(url)
    BY LateOrNot
  <1>5. /\ UrlOK' /\ ScreenOK' /\ TasksOK' /\ OnlyTask(t)
        /\ LoadingGoesOn' /\ (lost' \/ Follows')
        /\ q.mode = "product" =>
              task'[t].pc = "count" /\ task'[t].kind = "restore" /\ task'[t].ref = task[t].ref
    BY <1>1, <1>2, <1>4, Reloading
  <1>6. RestoringGoesOn'
    BY <1>1, <1>5 DEF IInv, RestoringGoesOn, Writing, OnlyTask
  <1>7. DeletingGoesOn' /\ SavingGoesOn'
    BY <1>5, OthersDelete, OthersSave DEF IInv
  <1> QED
    BY <1>2, <1>3, <1>5, <1>6, <1>7 DEF IInv, Typed

LEMMA WriteAnsweredKeeps == ASSUME IInv, NEW t \in Tasks, WriteAnswered(t) PROVE IInv'
  <1>1. task[t].pc = "written" /\ UNCHANGED <<server, moves>> /\ lost' = (lost \/ TooLate(t))
    BY DEF WriteAnswered
  <1>2. CASE task[t].kind = "create"
    BY <1>1, <1>2, SaveAnswered DEF WriteAnswered
  <1>3. CASE task[t].kind = "delete"
    BY <1>1, <1>3, DeleteAnswered DEF WriteAnswered
  <1>4. CASE task[t].kind = "restore"
    BY <1>1, <1>4, RestoreAnswered DEF WriteAnswered
  <1> QED
    BY <1>2, <1>3, <1>4 DEF WriteAnswered

\* A handler that ends resets the buttons it may have set.
LEMMA Finished ==
  ASSUME IInv, NEW t \in Tasks, Finally(t), OnlyTask(t), modal' = modal \/ modal' # "submitting",
         task[t].pc \in Listing \/ task[t].kind # "create" \/ modal' # "submitting"
  PROVE  DeletingGoesOn' /\ RestoringGoesOn' /\ SavingGoesOn'
  <1>1. DeletingGoesOn' /\ RestoringGoesOn'
    BY OthersDelete, OthersRestore DEF IInv, Finally
  <1>2. SavingGoesOn'
    BY OthersSave DEF IInv
  <1> QED
    BY <1>1, <1>2

LEMMA WriteFailedKeeps == ASSUME IInv, NEW t \in Tasks, WriteFailed(t) PROVE IInv'
  <1>1. /\ task[t].pc \in {"write", "written"} /\ task' = [task EXCEPT ![t] = NoTask] /\ Finally(t)
        /\ modal' = (IF task[t].kind = "create" THEN "open" ELSE modal)
        /\ UNCHANGED <<url, previous, searchInput, shown, isLoading, loadError, confirming>>
        /\ UNCHANGED <<restoreFeedback, server, moves, lost>>
    BY DEF WriteFailed, screen
  <1>2. ServerOK' /\ Demo' = Demo /\ CountersOK'
    BY <1>1, ServerStays, CountersMoved
  <1>3. UrlOK' /\ ScreenOK' /\ ButtonsOK'
    BY <1>1 DEF IInv, Typed, UrlOK, ScreenOK, ButtonsOK, Finally
  <1>4. TasksOK' /\ OnlyTask(t)
    BY <1>1, TaskReplaced, NoTaskIsGood DEF IInv, Typed
  <1>5. DeletingGoesOn' /\ RestoringGoesOn' /\ SavingGoesOn'
    BY <1>1, <1>4, Finished
  <1>6. LoadingGoesOn'
    BY <1>1, <1>4 DEF IInv, LoadingGoesOn, OnlyTask
  <1>7. Loading(url) => Loading(url)'
    BY <1>1, <1>4 DEF Loading, OnlyTask
  <1>8. BeyondDemo' <=> BeyondDemo
    BY <1>1, <1>2 DEF BeyondDemo, Demo
  <1>9. lost' \/ Follows'
    BY <1>1, <1>7, <1>8 DEF IInv, Follows
  <1> QED
    BY <1>2, <1>3, <1>4, <1>5, <1>6, <1>9 DEF IInv, Typed

LEMMA ListAnsweredKeeps == ASSUME IInv, NEW t \in Tasks, ListAnswered(t) PROVE IInv'
  <1> DEFINE q == task[t].query
             a == task[t].answer
             corrected == Corrected(q, task[t].valid)
             inRange == ~OutOfRange(q.page, a.count)
  <1>1. /\ task[t].pc = "listed" /\ Finally(t) /\ lost' = (lost \/ TooLate(t) \/ Dropped(t))
        /\ UNCHANGED <<server, moves, confirming, restoreFeedback, modal>>
    BY DEF ListAnswered
  <1>2. /\ q \in Query /\ a \in Answer /\ task[t].valid \in Nat
        /\ corrected \in Query /\ searchInput \in Searches
    <2>1. TaskOK(task[t]) /\ task[t] \in Task /\ q \in Query
      BY <1>1 DEF IInv, Typed, TasksOK, TaskOK
    <2>2. a \in Answer /\ task[t].valid \in Nat
      BY <2>1 DEF TaskOK, Task
    <2> QED
      BY <2>1, <2>2, CorrectedType, UrlFields
  <1>3. ServerOK' /\ Demo' = Demo /\ CountersOK' /\ (lost => lost')
    BY <1>1, ServerStays, LostType DEF IInv, Typed, CountersOK
  <1>4. ButtonsOK'
    BY <1>1 DEF IInv, Typed, ButtonsOK, Finally
  <1>5. /\ UrlOK' /\ ScreenOK' /\ TasksOK' /\ OnlyTask(t)
        /\ LoadingGoesOn' /\ (lost' \/ Follows')
    <2>1. CASE inRange
      <3>1. /\ shown' = Display(a, q) /\ isLoading' = FALSE /\ task' = [task EXCEPT ![t] = NoTask]
            /\ UNCHANGED <<url, previous, searchInput, loadError>>
        BY <2>1 DEF ListAnswered
      <3>2. TasksOK' /\ OnlyTask(t)
        BY <3>1, TaskReplaced, NoTaskIsGood DEF IInv, Typed
      <3>3. shown' \in Shown /\ shown'.query = q
        BY <1>2, <3>1, DisplayIsGood
      <3>4. UrlOK' /\ ScreenOK' /\ LoadingGoesOn'
        BY <3>1, <3>3 DEF IInv, Typed, UrlOK, ScreenOK, LoadingGoesOn
      <3>5. ASSUME ~lost', q # url PROVE Loading(url)'
        BY <1>1, <3>1, <3>2, <3>5, InTime DEF Loading, OnlyTask
      <3> QED
        BY <3>1, <3>2, <3>3, <3>4, <3>5 DEF Follows
    <2>2. CASE ~inRange /\ ~Dropped(t) /\ corrected # url
      <3>1. Arrive(t, corrected, FALSE, searchInput)
        BY <2>2 DEF ListAnswered
      <3> HIDE DEF corrected
      <3> QED
        BY <1>2, <1>3, <2>2, <3>1, Navigates
    <2>3. CASE ~inRange /\ (Dropped(t) \/ corrected = url)
      <3>1. /\ isLoading' = FALSE /\ task' = [task EXCEPT ![t] = NoTask]
            /\ UNCHANGED <<url, previous, searchInput, shown, loadError>>
        BY <2>3 DEF ListAnswered
      <3>2. TasksOK' /\ OnlyTask(t)
        BY <3>1, TaskReplaced, NoTaskIsGood DEF IInv, Typed
      <3>3. UrlOK' /\ ScreenOK' /\ LoadingGoesOn'
        BY <3>1 DEF IInv, Typed, UrlOK, ScreenOK, LoadingGoesOn
      <3>4. ASSUME ~lost' PROVE Loading(url)'
        <4>1. ~TooLate(t) /\ ~Dropped(t)
          BY <1>1, <3>4
        <4>2. q # url
          BY <2>3, <4>1 DEF Dropped
        <4> QED
          BY <3>1, <3>2, <4>1, <4>2, InTime DEF Loading, OnlyTask
      <3> QED
        BY <3>2, <3>3, <3>4 DEF Follows
    <2> QED
      BY <2>1, <2>2, <2>3
  <1>6. DeletingGoesOn' /\ RestoringGoesOn' /\ SavingGoesOn'
    BY <1>1, <1>5, Finished
  <1> QED
    BY <1>3, <1>4, <1>5, <1>6 DEF IInv, Typed

LEMMA ListFailedKeeps == ASSUME IInv, NEW t \in Tasks, ListFailed(t) PROVE IInv'
  <1>1. /\ task[t].pc \in Listing /\ loadError' = TRUE /\ isLoading' = FALSE
        /\ task' = [task EXCEPT ![t] = NoTask] /\ Finally(t)
        /\ UNCHANGED <<url, previous, searchInput, shown, confirming, restoreFeedback, modal>>
        /\ UNCHANGED <<server, moves, lost>>
    BY DEF ListFailed
  <1>2. ServerOK' /\ CountersOK'
    BY <1>1, ServerStays, CountersMoved
  <1>3. UrlOK' /\ ScreenOK' /\ ButtonsOK'
    BY <1>1 DEF IInv, Typed, UrlOK, ScreenOK, ButtonsOK, Finally
  <1>4. TasksOK' /\ OnlyTask(t)
    BY <1>1, TaskReplaced, NoTaskIsGood DEF IInv, Typed
  <1>5. DeletingGoesOn' /\ RestoringGoesOn' /\ SavingGoesOn'
    BY <1>1, <1>4, Finished
  <1>6. LoadingGoesOn' /\ Follows'
    BY <1>1 DEF LoadingGoesOn, Follows
  <1> QED
    BY <1>2, <1>3, <1>4, <1>5, <1>6 DEF IInv, Typed
-----------------------------------------------------------------------------
(* The first state, and every step. *)

LEMMA ParsedType ==
  ASSUME NEW raw \in Landings
  PROVE  Parsed(raw) \in Query
  <1> DEFINE page == IF raw.page \in {Absent, 0} THEN 1 ELSE raw.page
             mode == IF raw.mode = "portfolio" THEN "portfolio" ELSE "product"
  <1>1. raw \in [search : Searches, tags : SUBSET Tags, page : Nat \cup {Absent}, mode : STRING]
    BY DashboardAssumption
  <1>2. page \in Nat \ {0} /\ mode \in Modes
    BY <1>1 DEF Modes
  <1>3. Parsed(raw) = [raw EXCEPT !.page = page, !.mode = mode]
    BY Zenon DEF Parsed
  <1> HIDE DEF page, mode
  <1>4. [raw EXCEPT !.page = page, !.mode = mode] \in Query
    BY <1>1, <1>2 DEF Query
  <1> QED
    BY <1>3, <1>4, Zenon

LEMMA Initially == Init => IInv
  <1> SUFFICES ASSUME Init PROVE IInv
    OBVIOUS
  <1>1. ServerOK
    <2>1. Saved \in SUBSET Refs /\ DemoRefs \in SUBSET Refs
      BY DashboardAssumption
    <2> QED
      BY <2>1 DEF Init, ServerOK, Modes
  <1>2. ButtonsOK /\ CountersOK
    <2>1. /\ confirming = Nil /\ deleting = Nil /\ restoring = Nil /\ restoreFeedback = Nil
          /\ modal = "closed" /\ moves = 0 /\ lost = FALSE
      BY DEF Init
    <2>2. 0 \in 0 .. MaxMoves
      BY DashboardAssumption
    <2> QED
      BY <2>1, <2>2 DEF ButtonsOK, CountersOK
  <1>3. DeletingGoesOn /\ RestoringGoesOn /\ SavingGoesOn
    BY DEF Init, DeletingGoesOn, RestoringGoesOn, SavingGoesOn
  <1> DEFINE Started(q, t) ==
               /\ url = q
               /\ searchInput = q.search
               /\ isLoading = (q.mode = "product")
               /\ shown = IF q.mode = "portfolio" THEN Display(AnswerTo(q, Demo), q)
                          ELSE [items |-> {}, count |-> 0, tags |-> {}, since |-> {}, query |-> Nil, valid |-> 0]
               /\ task = [u \in Tasks |-> IF u = t /\ q.mode = "product"
                                          THEN Loader("load", Nil, q, 0) ELSE NoTask]
  <1>4. PICK raw \in Landings, t \in Tasks : Started(DemoQuery(Parsed(raw), Demo, 0), t)
    BY Zenon DEF Init, Demo
  <1>5. PICK q \in Query : Started(q, t)
    BY <1>4, ParsedType, DemoQueryType
  <1>6. q.mode \in {"product", "portfolio"} /\ q.search \in Searches
    BY DEF Query, Modes
  <1>7. previous = Nil /\ loadError = FALSE
    BY DEF Init
  <1>8. UrlOK
    BY <1>5, <1>6, <1>7 DEF UrlOK
  <1>9. TaskOK(NoTask) /\ NoTask \in Task
    BY NoTaskIsGood DEF TaskOK
  <1>10. /\ TaskOK(Loader("load", Nil, q, 0)) /\ Loader("load", Nil, q, 0) \in Task
         /\ Loader("load", Nil, q, 0).pc = "count" /\ Loader("load", Nil, q, 0).query = q
    <2>1. /\ TaskOK(Loader("load", Nil, q, 0)) /\ Loader("load", Nil, q, 0).pc = "count"
          /\ Loader("load", Nil, q, 0).query = q
      <3>1. "load" \in {"load", "create", "delete", "restore"} /\ Nil \in Refs \cup {Nil} /\ 0 \in Nat
        OBVIOUS
      <3> QED
        BY <3>1, LoaderIsGood
    <2> QED
      BY <2>1 DEF TaskOK
  <1>11. TasksOK
    BY <1>5, <1>9, <1>10 DEF TasksOK
  <1>12. CASE q.mode = "product"
    <2>1. task[t].pc = "count" /\ task[t].query = url
      BY <1>5, <1>10, <1>12
    <2>2. shown = [items |-> {}, count |-> 0, tags |-> {}, since |-> {}, query |-> Nil, valid |-> 0] /\ isLoading = TRUE
      BY <1>5, <1>12
    <2>3. ScreenOK
      BY <1>7, <2>2 DEF ScreenOK, Shown
    <2>4. LoadingGoesOn /\ Follows
      BY <2>1 DEF LoadingGoesOn, Follows, Loading
    <2> QED
      BY <1>1, <1>2, <1>3, <1>8, <1>11, <2>3, <2>4 DEF IInv, Typed
  <1>13. CASE q.mode = "portfolio"
    <2>1. shown = Display(AnswerTo(q, Demo), q) /\ isLoading = FALSE /\ url = q
      BY <1>5, <1>13
    <2>2. Demo \in SUBSET Refs
      BY <1>1 DEF Demo, ServerOK, Modes
    <2>3. shown \in Shown /\ shown.query = url
      BY <2>1, <2>2, AnswerIsGood, DisplayIsGood
    <2>4. ScreenOK /\ LoadingGoesOn /\ Follows
      BY <1>7, <2>1, <2>3 DEF ScreenOK, LoadingGoesOn, Follows
    <2> QED
      BY <1>1, <1>2, <1>3, <1>8, <1>11, <2>4 DEF IInv, Typed
  <1> QED
    BY <1>6, <1>12, <1>13

LEMMA UserKeeps == ASSUME IInv, User PROVE IInv'
  BY QueryUser, PressUser, BackKeeps, RetryKeeps, ConfirmKeeps, UndoKeeps, SubmitKeeps,
     SubmitDemoKeeps DEF User

LEMMA ContinueKeeps == ASSUME IInv, NEW t \in Tasks, Continue(t) PROVE IInv'
  BY WriteAnsweredKeeps, WriteFailedKeeps, ListAnsweredKeeps, ListFailedKeeps DEF Continue

LEMMA NextKeeps == ASSUME IInv, Next PROVE IInv'
  BY UserKeeps, ElsewhereKeeps, DebounceKeeps, ServeWriteKeeps, ServeListKeeps, ContinueKeeps DEF Next

LEMMA StutterKeeps == ASSUME IInv, UNCHANGED vars PROVE IInv'
  <1>1. UNCHANGED <<url, previous, searchInput, shown, isLoading, loadError, task, server, lost, moves,
                    confirming, deleting, restoring, restoreFeedback, modal>>
    BY DEF vars, screen, buttons
  <1>2. searchInput \in Searches
    BY UrlFields
  <1>3. ButtonsOK'
    BY <1>1 DEF IInv, Typed, ButtonsOK
  <1> QED
    BY <1>1, <1>2, <1>3, Presses

LEMMA Invariance == Spec => []IInv
  <1>1. Init => IInv
    BY Initially
  <1>2. IInv /\ [Next]_vars => IInv'
    BY NextKeeps, StutterKeeps
  <1> QED
    BY <1>1, <1>2, PTL DEF Spec

\* Every variable of the dashboard keeps its type, pages computed from counts,
\* fallbacks and landings included.
THEOREM DashboardTypeCorrect == Spec => []TypeOK
  BY Invariance, InvIsTyped, PTL

\* However the handlers of Dashboard.tsx overlap and fail, "loading", the busy
\* button of a delete, that of the undo and the submitting form are shown only
\* while a handler is under way that resets them.
THEOREM NothingLeftBusy == Spec => []BusyMeansUnderWay
  BY Invariance, InvIsBusy, PTL

\* The list on the screen belongs to the query in the url, or its load is under
\* way or has failed, unless a handler went on in a render whose query had left
\* the url or dropped a correction.
THEOREM ListBelongsToUrl == Spec => []ListFollowsUrl
  BY Invariance, InvFollows, PTL
-----------------------------------------------------------------------------
(* Why a list contradicts its count.                                       *)

Coherent(a) ==
    /\ a.items = {} /\ a.count > 0 => "left" \in a.since
    /\ a.items # {} /\ a.count = 0 => "entered" \in a.since

\* What has been counted is still found, and what is found was counted, but for
\* the rows whose leaving and entering has been noted.
Counted(k, active) ==
    /\ "left" \notin k.answer.since => k.answer.count <= Cardinality(Found(k.query, active))
    /\ "entered" \notin k.answer.since => Cardinality(Found(k.query, active)) <= k.answer.count

Tells(k, active) ==
    /\ k.pc = "page" => Counted(k, active)
    /\ k.pc \in {"tags", "listed"} => Coherent(k.answer)

AnswersTell == \A t \in Tasks : Tells(task[t], library["product"])

\* The inductive invariant of EmptinessHasACause, on top of IInv.
CInv == Coherent(shown) /\ AnswersTell

\* Only a row that leaves makes those found fewer, only one that enters more.
LEMMA ShiftsTell ==
  ASSUME NEW q \in Query, NEW active \in SUBSET Refs, library["product"] \in SUBSET Refs
  PROVE  /\ "left" \notin Shifts(q, active) =>
               Cardinality(Found(q, library["product"])) <= Cardinality(Found(q, active))
         /\ "entered" \notin Shifts(q, active) =>
               Cardinality(Found(q, active)) <= Cardinality(Found(q, library["product"]))
  <1> DEFINE before == Found(q, library["product"])
             after == Found(q, active)
  <1>1. before \in SUBSET Refs /\ after \in SUBSET Refs
    BY FoundType
  <1>2. /\ "left" \notin Shifts(q, active) => before \in SUBSET after
        /\ "entered" \notin Shifts(q, active) => after \in SUBSET before
    BY DEF Shifts
  <1> HIDE DEF before, after
  <1>3. /\ "left" \notin Shifts(q, active) => Cardinality(before) <= Cardinality(after)
        /\ "entered" \notin Shifts(q, active) => Cardinality(after) <= Cardinality(before)
    BY <1>1, <1>2, MoreRows
  <1> QED
    BY <1>3 DEF before, after

LEMMA CountGoesOn ==
  ASSUME NEW k \in Task, k.query \in Query, NEW l, NEW active \in SUBSET Refs,
         library["product"] \in SUBSET Refs,
         Counted(k, library["product"]),
         l.query = k.query, l.answer.count = k.answer.count,
         l.answer.since = k.answer.since \cup Shifts(k.query, active)
  PROVE  Counted(l, active)
  <1> DEFINE old == Cardinality(Found(k.query, library["product"]))
             new == Cardinality(Found(k.query, active))
  <1>1. old \in Nat /\ new \in Nat /\ k.answer.count \in Nat
    BY FoundType DEF Task, Answer
  <1>2. /\ "left" \notin Shifts(k.query, active) => old <= new
        /\ "entered" \notin Shifts(k.query, active) => new <= old
    BY ShiftsTell
  <1>3. /\ "left" \notin k.answer.since => k.answer.count <= old
        /\ "entered" \notin k.answer.since => old <= k.answer.count
    BY DEF Counted
  <1> HIDE DEF old, new
  <1>4. /\ "left" \notin l.answer.since => k.answer.count <= new
        /\ "entered" \notin l.answer.since => new <= k.answer.count
    BY <1>1, <1>2, <1>3
  <1> QED
    BY <1>4 DEF Counted, new

\* Commits of the server leave what the handlers know true.
LEMMA WitnessedTell ==
  ASSUME IInv, AnswersTell, NEW active \in SUBSET Refs, NEW t \in Tasks
  PROVE  Tells(Witnessed(active)[t], active)
  <1> DEFINE k == task[t]
             w == Witnessed(active)[t]
  <1>1. /\ k \in Task /\ TaskOK(k) /\ TasksOK /\ library["product"] \in SUBSET Refs
        /\ Tells(k, library["product"])
    BY DEF IInv, Typed, TasksOK, ServerOK, Modes, AnswersTell
  <1>2. /\ w.pc = k.pc /\ w.query = k.query
        /\ w.answer.items = k.answer.items /\ w.answer.count = k.answer.count
        /\ w.answer.since = IF k.pc = "page"
                            THEN k.answer.since \cup Shifts(k.query, active) ELSE k.answer.since
    BY <1>1, WitnessedIsGood
  <1> HIDE DEF k, w
  <1>3. CASE k.pc = "page"
    <2>1. k.query \in Query /\ Counted(k, library["product"])
      BY <1>1, <1>3 DEF TaskOK, Tells
    <2>2. Counted(w, active)
      BY <1>1, <1>2, <1>3, <2>1, CountGoesOn
    <2> QED
      BY <1>2, <1>3, <2>2 DEF Tells, w
  <1>4. CASE k.pc # "page"
    BY <1>1, <1>2, <1>4 DEF Tells, Coherent, w
  <1> QED
    BY <1>3, <1>4

LEMMA DisplayTells ==
  ASSUME NEW a, NEW q, Coherent(a)
  PROVE  Coherent(Display(a, q))
  BY DEF Display, Coherent

\* What the demo layer answers at once has rows exactly if some were counted.
LEMMA AnswerToTells ==
  ASSUME NEW q \in Query, NEW active \in SUBSET Refs
  PROVE  Coherent(AnswerTo(q, active))
  <1> DEFINE set == Found(q, active)
             n == Cardinality(set)
             page == PageFor(q, active, n)
  <1>1. set \in SUBSET Refs /\ n \in Nat /\ page \in SUBSET set
    BY FoundType, PageForType
  <1>2. n > 0 => page # {}
    BY <1>1, PageForHasRows
  <1>3. page # {} => n # 0
    BY <1>1, SomeRow
  <1>4. AnswerTo(q, active).items = page /\ AnswerTo(q, active).count = n
    BY DEF AnswerTo, NoAnswer
  <1> HIDE DEF set, n, page
  <1> QED
    BY <1>1, <1>2, <1>3, <1>4 DEF Coherent

\* A step in which no answer is put together: no handler gets further with one.
NoNews ==
    /\ library'["product"] = library["product"]
    /\ \A u \in Tasks : task'[u] = task[u] \/ task'[u].pc \in {"idle", "count", "write", "written"}

LEMMA NoNewsTell == ASSUME AnswersTell, NoNews PROVE AnswersTell'
  <1> SUFFICES ASSUME NEW u \in Tasks PROVE Tells(task'[u], library'["product"])
    BY DEF AnswersTell
  <1>1. Tells(task[u], library["product"]) /\ library'["product"] = library["product"]
    BY DEF AnswersTell, NoNews
  <1>2. CASE task'[u] = task[u]
    BY <1>1, <1>2
  <1>3. CASE task'[u].pc \in {"idle", "count", "write", "written"}
    BY <1>3 DEF Tells
  <1> QED
    BY <1>2, <1>3 DEF NoNews

\* Ways to a list: it is shown at once and tells the truth, or its load starts.
Fresh(t) == Coherent(shown') /\ task'[t].pc \in {"idle", "count", "write"} /\ OnlyTask(t)

LEMMA OneTask ==
  ASSUME TasksOK, NEW t \in Tasks, NEW k, task' = [task EXCEPT ![t] = k]
  PROVE  task'[t] = k /\ OnlyTask(t)
  BY DEF TasksOK, OnlyTask

LEMMA FreshLoad ==
  ASSUME TasksOK, ServerOK', Coherent(shown), NEW t \in Tasks, NEW kind, NEW ref,
         NEW q \in Query, NEW valid, Load(t, kind, ref, q, valid)
  PROVE  Fresh(t)
  <1>1. Demo' \in SUBSET Refs /\ Demo' = library'["portfolio"]
    BY DEF ServerOK, Modes, Demo
  <1>2. CASE q.mode = "portfolio"
    <2>1. /\ shown' = IF OutOfRange(q.page, AnswerTo(q, Demo').count) THEN shown
                      ELSE Display(AnswerTo(q, Demo'), q)
          /\ task' = [task EXCEPT ![t] = NoTask]
      BY <1>1, <1>2 DEF Load, DemoLoad
    <2>2. Coherent(shown')
      BY <1>1, <2>1, AnswerToTells, DisplayTells
    <2>3. NoTask.pc = "idle"
      BY DEF NoTask
    <2> QED
      BY <2>1, <2>2, <2>3, OneTask DEF Fresh
  <1>3. CASE q.mode # "portfolio"
    <2>1. UNCHANGED shown /\ task' = [task EXCEPT ![t] = Loader(kind, ref, q, valid)]
      BY <1>3 DEF Load
    <2>2. Loader(kind, ref, q, valid).pc = "count"
      BY DEF Loader, NoTask
    <2> QED
      BY <2>1, <2>2, OneTask DEF Fresh
  <1> QED
    BY <1>2, <1>3

LEMMA FreshArrival ==
  ASSUME IInv, ServerOK', Coherent(shown), NEW t \in Tasks, NEW q \in Query, NEW push, NEW input,
         Arrive(t, q, push, input)
  PROVE  Fresh(t)
  <1>1. TasksOK /\ shown.valid \in Nat
    BY UrlFields DEF IInv, Typed
  <1>2. CASE Reloads(q)
    <2> DEFINE target == DemoQuery(q, library'["portfolio"], shown.valid)
    <2>1. Load(t, "load", Nil, target, shown.valid)
      BY <1>2 DEF Arrive
    <2>2. target \in Query
      BY <1>1, DemoQueryType
    <2> HIDE DEF target
    <2> QED
      BY <1>1, <2>1, <2>2, FreshLoad
  <1>3. CASE ~Reloads(q)
    <2>1. task' = [task EXCEPT ![t] = NoTask] /\ UNCHANGED shown
      BY <1>3 DEF Arrive
    <2>2. NoTask.pc = "idle"
      BY DEF NoTask
    <2> QED
      BY <1>1, <2>1, <2>2, OneTask DEF Fresh
  <1> QED
    BY <1>2, <1>3

LEMMA FreshUpdate ==
  ASSUME IInv, ServerOK', Coherent(shown), NEW t \in Tasks, NEW from, NEW q \in Query, NEW push,
         NEW input, UpdateQuery(t, from, q, push, input)
  PROVE  Fresh(t)
  <1>1. CASE q # from
    BY <1>1, FreshArrival DEF UpdateQuery
  <1>2. CASE q = from
    <2>1. task' = [task EXCEPT ![t] = NoTask] /\ UNCHANGED shown
      BY <1>2 DEF UpdateQuery
    <2>2. NoTask.pc = "idle"
      BY DEF NoTask
    <2> QED
      BY <2>1, <2>2, OneTask DEF Fresh, IInv, Typed
  <1> QED
    BY <1>1, <1>2

LEMMA FreshFirstPage ==
  ASSUME IInv, ServerOK', Coherent(shown), NEW t \in Tasks, NEW q \in Query, NEW valid,
         ShowFirstPage(t, q, valid)
  PROVE  Fresh(t)
  <1>1. CASE q.page # 1
    <2>1. [q EXCEPT !.page = 1] \in Query
      BY DEF Query
    <2>2. UpdateQuery(t, q, [q EXCEPT !.page = 1], TRUE, searchInput)
      BY <1>1 DEF ShowFirstPage
    <2> QED
      BY <2>1, <2>2, FreshUpdate
  <1>2. CASE q.page = 1
    BY <1>2, FreshLoad DEF ShowFirstPage, IInv, Typed
  <1> QED
    BY <1>1, <1>2

LEMMA FreshTells ==
  ASSUME CInv, NEW t \in Tasks, Fresh(t), library'["product"] = library["product"]
  PROVE  CInv'
  <1>1. NoNews
    BY DEF Fresh, OnlyTask, NoNews
  <1> QED
    BY <1>1, NoNewsTell DEF CInv, Fresh

LEMMA AskTells ==
  ASSUME IInv, IInv', CInv, NEW q \in Query, NEW input, Ask(q, input)
  PROVE  CInv'
  <1>1. PICK t \in Tasks : UpdateQuery(t, url, q, TRUE, input)
    BY DEF Ask, Idle
  <1>2. Fresh(t)
    BY <1>1, FreshUpdate DEF IInv, Typed, CInv
  <1> QED
    BY <1>2, FreshTells DEF Ask, server

LEMMA QueryTells ==
  ASSUME IInv, IInv', CInv,
         \/ \E p \in 1 .. TotalPages(shown.count) : GoToPage(p)
         \/ \E g \in shown.tags : ToggleTag(g)
         \/ \E m \in Modes : SwitchMode(m)
         \/ ClearFilters
  PROVE  CInv'
  <1>0. url \in Query /\ NoSearch \in Searches /\ 1 \in Nat \ {0} /\ shown.count \in Nat
    BY UrlFields
  <1>1. ASSUME NEW p \in 1 .. TotalPages(shown.count), GoToPage(p) PROVE CInv'
    <2>1. p \in Nat \ {0}
      BY <1>0, TotalPagesType
    <2>2. [url EXCEPT !.page = p] \in Query
      BY <1>0, <2>1 DEF Query
    <2> QED
      BY <1>1, <2>2, AskTells DEF GoToPage
  <1>2. ASSUME NEW g \in shown.tags, ToggleTag(g) PROVE CInv'
    <2> DEFINE tags == IF g \in url.tags THEN url.tags \ {g} ELSE url.tags \cup {g}
    <2>1. tags \in SUBSET Tags
      BY UrlFields
    <2>2. Ask([url EXCEPT !.tags = tags, !.page = 1], searchInput)
      BY <1>2 DEF ToggleTag
    <2> HIDE DEF tags
    <2>3. [url EXCEPT !.tags = tags, !.page = 1] \in Query
      BY <1>0, <2>1, Edits, Zenon
    <2> QED
      BY <2>2, <2>3, AskTells
  <1>3. ASSUME NEW m \in Modes, SwitchMode(m) PROVE CInv'
    <2>1. [search |-> NoSearch, tags |-> {}, page |-> 1, mode |-> m] \in Query
      BY <1>0 DEF Query
    <2> QED
      BY <1>3, <2>1, AskTells DEF SwitchMode
  <1>4. ASSUME ClearFilters PROVE CInv'
    <2>1. [url EXCEPT !.search = NoSearch, !.tags = {}, !.page = 1] \in Query
      BY <1>0, Edits, Zenon
    <2> QED
      BY <1>4, <2>1, AskTells DEF ClearFilters
  <1> QED
    BY <1>1, <1>2, <1>3, <1>4

LEMMA PressTells ==
  ASSUME CInv, UNCHANGED <<shown, task, server>>
  PROVE  CInv'
  BY DEF CInv, AnswersTell, server

LEMMA StartTells ==
  ASSUME IInv, CInv, NEW t \in Idle, NEW kind, NEW ref, NEW page, Start(t, kind, ref, page),
         UNCHANGED <<screen, server>>
  PROVE  CInv'
  <1> DEFINE k == [NoTask EXCEPT !.pc = "write", !.kind = kind, !.ref = ref, !.query = url,
                                 !.valid = shown.valid, !.page = page]
  <1>1. t \in Tasks /\ TasksOK /\ task' = [task EXCEPT ![t] = k] /\ k.pc = "write"
    BY DEF Idle, IInv, Typed, Start, NoTask
  <1> HIDE DEF k
  <1>2. Fresh(t)
    BY <1>1, OneTask DEF Fresh, CInv, screen
  <1> QED
    BY <1>1, <1>2, FreshTells DEF server

LEMMA UserTells ==
  ASSUME IInv, IInv', CInv, User
  PROVE  CInv'
  <1>1. ServerOK' /\ url \in Query /\ searchInput \in Searches
    BY UrlFields DEF IInv, Typed
  <1>2. ASSUME Back PROVE CInv'
    <2>1. PICK t \in Tasks : Arrive(t, previous, TRUE, searchInput)
      BY <1>2 DEF Back, Idle
    <2>2. previous \in Query /\ UNCHANGED server
      BY <1>2 DEF Back, IInv, Typed, UrlOK
    <2>3. Fresh(t)
      BY <1>1, <2>1, <2>2, FreshArrival DEF CInv
    <2> QED
      BY <2>2, <2>3, FreshTells DEF server
  <1>3. ASSUME Retry PROVE CInv'
    <2>1. PICK t \in Tasks : Load(t, "load", Nil, url, shown.valid)
      BY <1>3 DEF Retry, Idle
    <2>2. Fresh(t)
      BY <1>1, <2>1, FreshLoad DEF CInv, IInv, Typed
    <2> QED
      BY <1>3, <2>2, FreshTells DEF Retry, server
  <1>4. ASSUME ConfirmDelete \/ Undo \/ Submit PROVE CInv'
    BY <1>4, StartTells DEF ConfirmDelete, Undo, Submit
  <1>5. ASSUME SubmitDemo PROVE CInv'
    <2>1. PICK t \in Tasks : ShowFirstPage(t, url, shown.valid)
      BY <1>5 DEF SubmitDemo, Idle
    <2>2. Fresh(t)
      BY <1>1, <2>1, FreshFirstPage DEF CInv
    <2>3. library'["product"] = library["product"]
      BY <1>5 DEF SubmitDemo, IInv, Typed, ServerOK, Modes
    <2> QED
      BY <2>2, <2>3, FreshTells
  <1>6. ASSUME \/ \E s \in Searches : Type(s)
               \/ \E r \in shown.items : AskDelete(r)
               \/ CancelDelete \/ OpenModal \/ CancelModal
        PROVE  CInv'
    <2>1. UNCHANGED <<shown, task, server>>
      BY <1>6 DEF Type, AskDelete, CancelDelete, OpenModal, CancelModal, screen
    <2> QED
      BY <2>1, PressTells
  <1> QED
    BY <1>2, <1>3, <1>4, <1>5, <1>6, QueryTells DEF User

LEMMA DebounceTells == ASSUME IInv, IInv', CInv, Debounce PROVE CInv'
  <1>1. [url EXCEPT !.search = searchInput, !.page = 1] \in Query
    <2>1. url \in Query /\ searchInput \in Searches /\ 1 \in Nat \ {0} /\ {} \in SUBSET Tags
      BY UrlFields
    <2> QED
      BY <2>1, Edits, Zenon
  <1>2. PICK t \in Tasks :
           UpdateQuery(t, url, [url EXCEPT !.search = searchInput, !.page = 1], FALSE, searchInput)
    BY DEF Debounce, Idle
  <1>3. Fresh(t)
    BY <1>1, <1>2, FreshUpdate DEF IInv, Typed, CInv
  <1> QED
    BY <1>3, FreshTells DEF Debounce, server

\* A write that commits, of this tab or of another session, is noted.
LEMMA WriteTells == ASSUME IInv, CInv, NEW t \in Tasks, ServeWrite(t) PROVE CInv'
  <1>1. PICK active \in SUBSET Refs, deleted \in SUBSET Refs : Served(t, active, deleted)
    BY ServedSets
  <1> DEFINE seen == Witnessed(active)
  <1>2. /\ task' = [seen EXCEPT ![t].pc = "written"] /\ library'["product"] = active
        /\ UNCHANGED shown
    BY <1>1 DEF Served, ServeWrite, screen, IInv, Typed, ServerOK, Modes
  <1>3. seen \in [Tasks -> Task] /\ \A u \in Tasks : Tells(seen[u], active)
    BY WitnessedAreGood, WitnessedTell DEF IInv, Typed, CInv
  <1> HIDE DEF seen
  <1>4. task'[t].pc = "written" /\ \A u \in Tasks \ {t} : task'[u] = seen[u]
    BY <1>2, <1>3 DEF Task
  <1>5. \A u \in Tasks : Tells(task'[u], active)
    BY <1>3, <1>4 DEF Tells
  <1> QED
    BY <1>2, <1>5 DEF CInv, AnswersTell

LEMMA ElsewhereTells == ASSUME IInv, IInv', CInv, Elsewhere PROVE CInv'
  <1>1. library'["product"] \in SUBSET Refs
    BY DEF IInv, Typed, ServerOK, Modes
  <1>2. UNCHANGED shown /\ task' = Witnessed(library'["product"])
    BY DEF Elsewhere, screen
  <1> QED
    BY <1>1, <1>2, WitnessedTell DEF CInv, AnswersTell

\* The three queries of the server: what was counted holds until the page is read.
LEMMA ListTells == ASSUME IInv, CInv, NEW t \in Tasks, ServeList(t) PROVE CInv'
  <1> DEFINE k == task[t]
             l == task'[t]
             active == library["product"]
             found == Found(k.query, active)
  <1>1. k \in Task /\ TaskOK(k) /\ active \in SUBSET Refs /\ Tells(k, active) /\ TasksOK
    BY DEF IInv, Typed, TasksOK, ServerOK, Modes, CInv, AnswersTell
  <1>2. k.pc \in Listing /\ k.query \in Query /\ k.answer \in Answer
    BY <1>1 DEF ServeList, ServeCount, ServePage, ServeTags, TaskOK, Task
  <1>3. UNCHANGED <<shown, library>> /\ OnlyTask(t)
    BY <1>1 DEF ServeList, ServeCount, ServePage, ServeTags, screen, server, OnlyTask, TasksOK
  <1>4. found \in SUBSET Refs /\ Cardinality(found) \in Nat
    BY <1>1, <1>2, FoundType
  <1>5. Tells(l, active)
    <2>1. CASE ServeCount(t)
      <3>1. l.pc = "page" /\ l.query = k.query /\ l.answer.count = Cardinality(found)
        BY <1>1, <2>1 DEF ServeCount, TasksOK, Task, Answer
      <3> QED
        BY <1>4, <3>1 DEF Tells, Counted
    <2>2. CASE ServePage(t)
      <3> DEFINE page == PageFor(k.query, active, k.answer.count)
      <3>1. /\ l.pc = "tags" /\ l.answer.items = page /\ l.answer.count = k.answer.count
            /\ l.answer.since = k.answer.since /\ k.pc = "page"
        BY <1>1, <2>2 DEF ServePage, TasksOK, Task, Answer
      <3>2. Counted(k, active) /\ k.answer.count \in Nat
        BY <1>1, <1>2, <3>1 DEF Tells, Answer
      <3>3. page \in SUBSET found
        BY <1>1, <1>2, <3>2, PageForType
      <3>4. "left" \notin k.answer.since /\ k.answer.count > 0 => page # {}
        BY <1>1, <1>2, <3>2, PageForHasRows DEF Counted
      <3>5. "entered" \notin k.answer.since /\ k.answer.count = 0 => page = {}
        BY <1>4, <3>2, <3>3, SomeRow DEF Counted
      <3> HIDE DEF page
      <3> QED
        BY <3>1, <3>2, <3>4, <3>5 DEF Tells, Coherent
    <2>3. CASE ServeTags(t)
      <3>1. /\ l.pc = "listed" /\ l.answer.items = k.answer.items /\ k.pc = "tags"
            /\ l.answer.count = k.answer.count /\ l.answer.since = k.answer.since
        BY <1>1, <2>3 DEF ServeTags, TasksOK, Task, Answer
      <3> QED
        BY <1>1, <3>1 DEF Tells, Coherent
    <2> QED
      BY <2>1, <2>2, <2>3 DEF ServeList
  <1> QED
    BY <1>3, <1>5 DEF CInv, AnswersTell, OnlyTask

LEMMA ContinueTells == ASSUME IInv, IInv', CInv, NEW t \in Tasks, Continue(t) PROVE CInv'
  <1> DEFINE k == task[t]
  <1>1. /\ k \in Task /\ TaskOK(k) /\ ServerOK' /\ TasksOK /\ Coherent(shown)
        /\ AnswersTell
    BY DEF IInv, Typed, TasksOK, CInv
  <1>2. NoTask.pc = "idle"
    BY DEF NoTask
  <1>3. UNCHANGED server
    BY DEF Continue, WriteAnswered, WriteFailed, ListAnswered, ListFailed
  <1>4. ASSUME WriteAnswered(t) PROVE Fresh(t)
    <2>1. k.query \in Query /\ k.page \in Nat \ {0}
      BY <1>1, <1>4 DEF WriteAnswered, TaskOK
    <2>2. [k.query EXCEPT !.page = k.page] \in Query
      <3> HIDE DEF k
      <3> QED
        BY <2>1 DEF Query
    <2>3. \/ ShowFirstPage(t, k.query, k.valid)
          \/ UpdateQuery(t, k.query, [k.query EXCEPT !.page = k.page], FALSE, searchInput)
          \/ \E kind, ref : Load(t, kind, ref, k.query, k.valid)
      BY <1>4 DEF WriteAnswered
    <2> HIDE DEF k
    <2> QED
      BY <1>1, <2>1, <2>2, <2>3, FreshFirstPage, FreshUpdate, FreshLoad
  <1>5. ASSUME WriteFailed(t) \/ ListFailed(t) PROVE Fresh(t)
    BY <1>1, <1>2, <1>5, OneTask DEF WriteFailed, ListFailed, screen, Fresh
  <1>6. ASSUME ListAnswered(t) PROVE Fresh(t)
    <2> DEFINE corrected == Corrected(k.query, k.valid)
    <2>1. k.pc = "listed" /\ k.query \in Query /\ k.valid \in Nat /\ Coherent(k.answer)
      BY <1>1, <1>6 DEF ListAnswered, TaskOK, Task, AnswersTell, Tells
    <2>2. CASE ~OutOfRange(k.query.page, k.answer.count)
      <3>1. shown' = Display(k.answer, k.query) /\ task' = [task EXCEPT ![t] = NoTask]
        BY <1>6, <2>2 DEF ListAnswered
      <3> QED
        BY <1>1, <1>2, <2>1, <3>1, DisplayTells, OneTask DEF Fresh
    <2>3. CASE OutOfRange(k.query.page, k.answer.count) /\ ~Dropped(t) /\ corrected # url
      <3>1. Arrive(t, corrected, FALSE, searchInput)
        BY <1>6, <2>3 DEF ListAnswered
      <3>2. corrected \in Query
        BY <2>1, CorrectedType
      <3> HIDE DEF corrected
      <3> QED
        BY <1>1, <3>1, <3>2, FreshArrival
    <2>4. CASE OutOfRange(k.query.page, k.answer.count) /\ ~(~Dropped(t) /\ corrected # url)
      <3>1. UNCHANGED shown /\ task' = [task EXCEPT ![t] = NoTask]
        BY <1>6, <2>4 DEF ListAnswered
      <3> QED
        BY <1>1, <1>2, <3>1, OneTask DEF Fresh
    <2> QED
      BY <2>2, <2>3, <2>4
  <1>7. Fresh(t)
    BY <1>4, <1>5, <1>6 DEF Continue
  <1> QED
    BY <1>3, <1>7, FreshTells DEF server

LEMMA TellsAtFirst == Init => CInv
  <1> SUFFICES ASSUME Init PROVE CInv
    OBVIOUS
  <1>1. IInv
    BY Initially
  <1>2. PICK raw \in Landings, t \in Tasks :
           LET q == DemoQuery(Parsed(raw), Demo, 0) IN
           /\ shown = IF q.mode = "portfolio" THEN Display(AnswerTo(q, Demo), q)
                      ELSE [items |-> {}, count |-> 0, tags |-> {}, since |-> {},
                            query |-> Nil, valid |-> 0]
           /\ task = [u \in Tasks |-> IF u = t /\ q.mode = "product"
                                      THEN Loader("load", Nil, q, 0) ELSE NoTask]
    BY Zenon DEF Init, Demo
  <1> DEFINE q == DemoQuery(Parsed(raw), Demo, 0)
  <1>3. q \in Query /\ Demo \in SUBSET Refs
    BY <1>1, ParsedType, DemoQueryType DEF IInv, Typed, ServerOK, Modes, Demo
  <1>4. Loader("load", Nil, q, 0).pc = "count" /\ NoTask.pc = "idle"
    BY DEF Loader, NoTask
  <1>5. /\ shown = IF q.mode = "portfolio" THEN Display(AnswerTo(q, Demo), q)
                   ELSE [items |-> {}, count |-> 0, tags |-> {}, since |-> {},
                         query |-> Nil, valid |-> 0]
        /\ \A u \in Tasks : task[u].pc \in {"idle", "count"}
    BY <1>2, <1>4
  <1> HIDE DEF q
  <1>6. Coherent(shown)
    <2>1. CASE q.mode = "portfolio"
      BY <1>3, <1>5, <2>1, AnswerToTells, DisplayTells
    <2>2. CASE q.mode # "portfolio"
      BY <1>5, <2>2 DEF Coherent
    <2> QED
      BY <2>1, <2>2
  <1> QED
    BY <1>5, <1>6 DEF CInv, AnswersTell, Tells

LEMMA TellsOn == ASSUME IInv, IInv', CInv, [Next]_vars PROVE CInv'
  <1>1. CASE UNCHANGED vars
    BY <1>1, PressTells DEF vars, screen
  <1> QED
    BY <1>1, UserTells, ElsewhereTells, DebounceTells, WriteTells, ListTells, ContinueTells DEF Next

\* A list without rows that were counted, or with rows where none were, has its
\* cause between the server's queries: no page beyond the end is displayed, no
\* correction or emptied last page leaves an empty screen by itself.
THEOREM EmptinessExplained == Spec => []EmptinessHasACause
  <1>1. Init => CInv
    BY TellsAtFirst
  <1>2. IInv /\ IInv' /\ CInv /\ [Next]_vars => CInv'
    BY TellsOn
  <1>3. CInv => EmptinessHasACause
    BY DEF CInv, Coherent, EmptinessHasACause
  <1> QED
    BY <1>1, <1>2, <1>3, Invariance, PTL DEF Spec
=============================================================================
