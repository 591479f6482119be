---------------------------- MODULE ShellProofs ----------------------------
(***************************************************************************)
(* Theorems of Shell: the query a guest came for survives until the guest  *)
(* signs in, and signing in leads there.                                   *)
(***************************************************************************)
EXTENDS Shell, StartupProofs

\* The document and the calls, apart from the server.
DocumentOK ==
    /\ entries \in Seq(Places) /\ Len(entries) \in 1 .. MaxEntries /\ at \in DOMAIN entries
    /\ initial \in Places

StatusOK ==
    /\ boot \in {"checking", "ready", "unavailable"}
    /\ auth \in {"checking", "authenticated", "unauthenticated"}
    /\ request \in {"none", "health", "me"}

CallsOK ==
    /\ form \in [page : SignInPages, redirectTo : Dashboards] \cup {Nil}
    /\ popping \in BOOLEAN /\ leaving \in BOOLEAN

KeptOK ==
    /\ storage \in Dashboards \cup {Nil} /\ wanted \in (Dashboards \ {Plain}) \cup {Nil}
    /\ session \in BOOLEAN

TabOK == DocumentOK /\ StatusOK /\ CallsOK /\ KeptOK

\* What is wanted is what is stored; a sign-in is sent only by a guest, and a
\* sign-out only by a user, after the boot.
Kept ==
    /\ wanted # Nil => storage = wanted
    /\ request # "none" => auth = "checking"
    /\ leaving => request = "none"
    /\ form # Nil => request = "none" /\ auth = "unauthenticated"
    /\ wanted # Nil /\ form # Nil => (form.page = "login" => form.redirectTo = wanted)

ShellInv == IInv /\ TabOK /\ Kept

LEMMA InvIsTyped == ShellInv => ShellTypeOK
  BY DEF ShellInv, IInv, TabOK, DocumentOK, StatusOK, CallsOK, KeptOK, ShellTypeOK
-----------------------------------------------------------------------------
(* The operators of loginRedirect.ts. *)

LEMMA Preferred ==
  ASSUME NEW a \in Dashboards \cup {Nil}, NEW b \in Dashboards \cup {Nil}
  PROVE  /\ selectPreferredRedirect(a, b) \in Dashboards
         /\ a \in Dashboards \ {Plain} => selectPreferredRedirect(a, b) = a
         /\ a = Nil /\ b \in Dashboards \ {Plain} => selectPreferredRedirect(a, b) = b
  BY ShellAssumption DEF selectPreferredRedirect, hasDashboardQuery

LEMMA Writes ==
  ASSUME KeptOK, NEW p \in Places
  PROVE  /\ writeLoginRedirect(p) \in Dashboards \cup {Nil}
         /\ hasDashboardQuery(p) => p \in Dashboards \ {Plain} /\ writeLoginRedirect(p) = p
         /\ ~hasDashboardQuery(p) /\ p # Plain => writeLoginRedirect(p) = storage
  BY Preferred, ShellAssumption DEF KeptOK, writeLoginRedirect, hasDashboardQuery

LEMMA Resolves ==
  ASSUME KeptOK, initial \in Places, NEW p \in SignInPages
  PROVE  /\ resolveLoginRedirect(p) \in Dashboards /\ redirectTo(p) \in Dashboards
         /\ p = "login" /\ storage \in Dashboards \ {Plain} => redirectTo(p) = storage
  <1>1. readLoginRedirect \in Dashboards
    BY ShellAssumption DEF readLoginRedirect, KeptOK
  <1>2. storage \in Dashboards \ {Plain} => readLoginRedirect = storage
    BY ShellAssumption DEF readLoginRedirect
  <1>3. /\ resolveLoginRedirect(p) \in Dashboards
        /\ p = "login" /\ storage \in Dashboards \ {Plain} => resolveLoginRedirect(p) = storage
    BY <1>1, <1>2, Preferred, ShellAssumption DEF resolveLoginRedirect
  <1> QED
    BY <1>3 DEF redirectTo

LEMMA WantedLeadsBack == ShellInv => WantedIsKept
  <1> SUFFICES ASSUME ShellInv, wanted # Nil
               PROVE  /\ redirectTo("login") = wanted
                      /\ form # Nil /\ form.page = "login" => form.redirectTo = wanted
    BY DEF WantedIsKept
  <1>1. storage = wanted /\ storage \in Dashboards \ {Plain}
    BY DEF ShellInv, TabOK, KeptOK, Kept
  <1>2. redirectTo("login") = storage
    BY <1>1, Resolves DEF ShellInv, TabOK, DocumentOK, SignInPages
  <1> QED
    BY <1>1, <1>2 DEF ShellInv, Kept
-----------------------------------------------------------------------------
(* The history of the document. *)

LEMMA PlaceOK == ASSUME DocumentOK PROVE place \in Places /\ at \in Nat /\ at >= 1
  BY DEF DocumentOK, place

LEMMA Showing ==
  ASSUME DocumentOK, NEW p \in Places,
         \/ Replace(p) \/ Push(p) \/ Popped \/ UNCHANGED document
         \/ \E i \in DOMAIN entries : Show(entries, i)
         \/ /\ initial' \in Places
            /\ (entries' = <<p>> /\ at' = 1) \/ UNCHANGED <<entries, at>>
  PROVE  DocumentOK'
  <1>1. CASE Replace(p)
    BY <1>1 DEF Replace, Show, DocumentOK
  <1>2. CASE Push(p)
    <2>1. at \in 1 .. Len(entries) /\ Len(entries) \in Nat
      BY DEF DocumentOK
    <2>2. SubSeq(entries, 1, at) \in Seq(Places) /\ Len(SubSeq(entries, 1, at)) = at
      BY <2>1 DEF DocumentOK
    <2>3. entries' \in Seq(Places) /\ Len(entries') = at + 1
      BY <1>2, <2>2 DEF Push, Show
    <2>4. at' = at + 1 /\ at + 1 \in 1 .. MaxEntries /\ initial' = initial
      BY <1>2, <2>1, ShellAssumption DEF Push, Show
    <2> QED
      BY <2>3, <2>4 DEF DocumentOK
  <1>3. CASE Popped
    BY <1>3 DEF Popped, Show, DocumentOK
  <1>4. CASE UNCHANGED document
    BY <1>4 DEF document, DocumentOK
  <1>5. CASE \E i \in DOMAIN entries : Show(entries, i)
    BY <1>5 DEF Show, DocumentOK
  <1>6. CASE /\ initial' \in Places
             /\ (entries' = <<p>> /\ at' = 1) \/ UNCHANGED <<entries, at>>
    <2>1. CASE entries' = <<p>> /\ at' = 1
      <3>1. <<p>> \in Seq(Places) /\ Len(<<p>>) = 1 /\ 1 \in DOMAIN <<p>>
        OBVIOUS
      <3>2. 1 \in 1 .. MaxEntries
        BY ShellAssumption
      <3> QED
        BY <1>6, <2>1, <3>1, <3>2 DEF DocumentOK
    <2>2. CASE UNCHANGED <<entries, at>>
      BY <1>6, <2>2 DEF DocumentOK
    <2> QED
      BY <1>6, <2>1, <2>2
  <1> QED
    BY <1>1, <1>2, <1>3, <1>4, <1>5, <1>6
-----------------------------------------------------------------------------
(* The steps of the tab. *)

LEMMA MoveKeeps == ASSUME IInv, Move \/ UNCHANGED serverVars PROVE IInv'
  <1>1. CASE UNCHANGED serverVars
    BY <1>1, EnvironmentKeeps
  <1>2. CASE Move
    <2>1. UNCHANGED <<dsn, postgres, redis, schema, pc, db, redisClient, authService, missed>>
      BY <1>2 DEF Move, process
    <2>2. changes' \in 0 .. MaxChanges
      <3>1. changes \in 0 .. MaxChanges /\ MaxChanges \in Nat
        BY StartupAssumption DEF IInv, ServerTypeOK
      <3>2. changes < MaxChanges /\ changes' = changes + 1
        BY <1>2 DEF Move, Change
      <3> QED
        BY <3>1, <3>2
    <2>3. ServerTypeOK'
      BY <2>1, <2>2 DEF IInv, ServerTypeOK
    <2>4. UsersFirst' /\ ServiceFollows'
      BY <2>1 DEF IInv, UsersFirst, ServiceFollows
    <2> QED
      BY <2>3, <2>4 DEF IInv
  <1> QED
    BY <1>1, <1>2

\* A document is loaded: the boot starts again, and its own address is kept.
LEMMA LoadKeeps ==
  ASSUME ShellInv, NEW p \in Places, Load(p)
  PROVE  StatusOK' /\ CallsOK' /\ KeptOK' /\ Kept'
  <1>1. StatusOK' /\ CallsOK'
    BY DEF Load, StatusOK, CallsOK
  <1>2. KeptOK
    BY DEF ShellInv, TabOK
  <1>3. storage' = writeLoginRedirect(p)
    BY DEF Load
  <1>4. session' \in BOOLEAN
    <2>1. session' = session \/ session' = (session \/ form # Nil)
      BY DEF Load
    <2> QED
      BY <1>2, <2>1 DEF KeptOK
  <1>5. wanted' \in (Dashboards \ {Plain}) \cup {Nil} /\ (wanted' # Nil => storage' = wanted')
    <2>1. CASE hasDashboardQuery(p)
      BY <1>2, <1>3, <2>1, Writes DEF Load
    <2>2. CASE ~hasDashboardQuery(p) /\ p = Plain
      BY <2>2 DEF Load
    <2>3. CASE ~hasDashboardQuery(p) /\ p # Plain
      BY <1>2, <1>3, <2>3, Writes DEF Load, ShellInv, Kept, KeptOK
    <2> QED
      BY <2>1, <2>2, <2>3
  <1>6. storage' \in Dashboards \cup {Nil}
    BY <1>2, <1>3, Writes
  <1>7. KeptOK'
    BY <1>4, <1>5, <1>6 DEF KeptOK
  <1>8. auth' = "checking" /\ form' = Nil /\ leaving' = FALSE
    BY DEF Load
  <1> QED
    BY <1>1, <1>5, <1>7, <1>8 DEF Kept

\* The guest is seen at a place.
LEMMA PersistKeeps ==
  ASSUME ShellInv, Persist, MarkWanted
  PROVE  /\ storage' \in Dashboards \cup {Nil}
         /\ wanted' \in (Dashboards \ {Plain}) \cup {Nil}
         /\ wanted' # Nil => storage' = wanted'
  <1>1. KeptOK /\ place \in Places
    BY PlaceOK DEF ShellInv, TabOK
  <1>2. CASE hasDashboardQuery(place)
    BY <1>1, <1>2, Writes DEF Persist, MarkWanted
  <1>3. CASE ~hasDashboardQuery(place) /\ place = Plain
    BY <1>1, <1>3, Writes DEF Persist, MarkWanted
  <1>4. CASE ~hasDashboardQuery(place) /\ place # Plain
    BY <1>1, <1>4, Writes DEF Persist, MarkWanted, ShellInv, Kept, KeptOK
  <1> QED
    BY <1>2, <1>3, <1>4

LEMMA ActKeeps == ASSUME ShellInv, Act PROVE ShellInv'
  <1> USE DEF tabVars, document, status, calls
  <1>1. IInv /\ DocumentOK /\ StatusOK /\ CallsOK /\ KeptOK /\ Kept /\ place \in Places
    BY PlaceOK DEF ShellInv, TabOK
  <1>2. ASSUME NEW p \in Places, Visit(p) PROVE ShellInv'
    <2>1. Load(p) /\ Move /\ initial' \in Places
      BY <1>2 DEF Visit, Load
    <2>2. DocumentOK'
      BY <1>1, <1>2, <2>1, Showing DEF Visit
    <2> QED
      BY <1>1, <2>1, <2>2, LoadKeeps, MoveKeeps DEF ShellInv, TabOK
  <1>3. ASSUME Reload PROVE ShellInv'
    <2>1. Load(place) /\ Move /\ initial' \in Places /\ UNCHANGED <<entries, at>>
      BY <1>1, <1>3 DEF Reload, Load
    <2>2. DocumentOK'
      BY <1>1, <2>1, Showing
    <2> QED
      BY <1>1, <2>1, <2>2, LoadKeeps, MoveKeeps DEF ShellInv, TabOK
  <1>4. ASSUME NEW p \in Places, Follow(p) PROVE ShellInv'
    <2>1. DocumentOK'
      BY <1>1, <1>4, Showing DEF Follow
    <2>2. IInv'
      BY <1>1, <1>4, MoveKeeps DEF Follow
    <2>3. StatusOK' /\ CallsOK' /\ KeptOK' /\ Kept'
      BY <1>1, <1>4 DEF Follow, StatusOK, CallsOK, KeptOK, Kept
    <2> QED
      BY <2>1, <2>2, <2>3 DEF ShellInv, TabOK
  <1>5. ASSUME NEW d \in Dashboards, Browse(d) PROVE ShellInv'
    <2>1. Push(d) \/ Replace(d)
      BY <1>5 DEF Browse
    <2>2. DocumentOK'
      BY <1>1, <2>1, Showing DEF Places
    <2>3. IInv'
      BY <1>1, <1>5, MoveKeeps DEF Browse
    <2>4. StatusOK' /\ CallsOK' /\ KeptOK' /\ Kept'
      BY <1>1, <1>5 DEF Browse, StatusOK, CallsOK, KeptOK, Kept
    <2> QED
      BY <2>2, <2>3, <2>4 DEF ShellInv, TabOK
  <1>6. ASSUME NEW i, Travel(i) PROVE ShellInv'
    <2>1. i \in DOMAIN entries /\ Show(entries, i)
      BY <1>6 DEF Travel
    <2>2. DocumentOK'
      BY <1>1, <2>1, Showing
    <2>3. IInv'
      BY <1>1, <1>6, MoveKeeps DEF Travel
    <2>4. StatusOK' /\ CallsOK' /\ KeptOK' /\ Kept'
      BY <1>1, <1>6 DEF Travel, StatusOK, CallsOK, KeptOK, Kept
    <2> QED
      BY <2>2, <2>3, <2>4 DEF ShellInv, TabOK
  <1>7. ASSUME Submit PROVE ShellInv'
    <2>1. IInv' /\ DocumentOK'
      BY <1>1, <1>7, MoveKeeps, Showing DEF Submit
    <2>2. place \in SignInPages /\ redirectTo(place) \in Dashboards
      BY <1>1, <1>7, Resolves DEF Submit, DocumentOK
    <2>3. form' = [page |-> place, redirectTo |-> redirectTo(place)]
      BY <1>7 DEF Submit
    <2>4. CallsOK'
      BY <1>1, <1>7, <2>2, <2>3 DEF Submit, CallsOK
    <2>5. request = "none" /\ auth = "unauthenticated"
      BY <1>1, <1>7 DEF Submit, Guest, Shown, StatusOK, Kept
    <2>6. wanted # Nil /\ place = "login" => redirectTo(place) = wanted
      BY WantedLeadsBack DEF WantedIsKept
    <2>7. Kept'
      BY <1>1, <1>7, <2>3, <2>5, <2>6 DEF Submit, Kept
    <2>8. StatusOK' /\ KeptOK'
      BY <1>1, <1>7 DEF Submit, StatusOK, KeptOK
    <2> QED
      BY <2>1, <2>4, <2>7, <2>8 DEF ShellInv, TabOK
  <1>8. ASSUME SignOut \/ SessionEnds PROVE ShellInv'
    <2>1. IInv'
      BY <1>1, <1>8, MoveKeeps DEF SignOut, SessionEnds
    <2>2. DocumentOK'
      BY <1>1, <1>8, Showing DEF SignOut, SessionEnds
    <2>3. StatusOK' /\ CallsOK' /\ KeptOK'
      BY <1>1, <1>8 DEF SignOut, SessionEnds, StatusOK, CallsOK, KeptOK
    <2>4. leaving' => request' = "none"
      BY <1>1, <1>8 DEF SignOut, SessionEnds, User, Shown, Kept
    <2>5. Kept'
      BY <1>1, <1>8, <2>4 DEF SignOut, SessionEnds, Kept
    <2> QED
      BY <2>1, <2>2, <2>3, <2>5 DEF ShellInv, TabOK
  <1>9. ASSUME SessionExpired PROVE ShellInv'
    <2>1. IInv' /\ DocumentOK'
      BY <1>1, <1>9, MoveKeeps, Showing DEF SessionExpired
    <2>2. Persist /\ MarkWanted /\ form = Nil
      BY <1>1, <1>9 DEF SessionExpired, User, Shown, Kept
    <2>3. StatusOK' /\ CallsOK' /\ KeptOK' /\ Kept'
      <3>1. request = "none"
        BY <1>1, <1>9 DEF SessionExpired, User, Shown, Kept
      <3> QED
        BY <1>1, <1>9, <2>2, <3>1, PersistKeeps
           DEF SessionExpired, StatusOK, CallsOK, KeptOK, Kept
    <2> QED
      BY <2>1, <2>3 DEF ShellInv, TabOK
  <1> QED
    BY <1>2, <1>3, <1>4, <1>5, <1>6, <1>7, <1>8, <1>9 DEF Act

LEMMA AnswerKeeps == ASSUME ShellInv, Answer PROVE ShellInv'
  <1> USE DEF tabVars, document, status, calls
  <1>1. IInv /\ DocumentOK /\ StatusOK /\ CallsOK /\ KeptOK /\ Kept /\ place \in Places
    BY PlaceOK DEF ShellInv, TabOK
  <1>2. IInv'
    <2>1. UNCHANGED serverVars
      BY DEF Answer, HealthAnswered, MeAnswered, Redirect, Popped, SignInAnswered,
             SignInFails, SignedOut, SignOutRejected
    <2> QED
      BY <1>1, <2>1, MoveKeeps
  <1>3. ASSUME HealthAnswered \/ Popped \/ SignInFails \/ SignOutRejected PROVE ShellInv'
    <2>1. DocumentOK'
      BY <1>1, <1>3, Showing DEF HealthAnswered, SignInFails, SignOutRejected
    <2>2. StatusOK' /\ CallsOK' /\ KeptOK'
      BY <1>1, <1>3 DEF HealthAnswered, Popped, SignInFails, SignOutRejected, StatusOK,
                        CallsOK, KeptOK
    <2>3. Kept'
      BY <1>1, <1>3 DEF HealthAnswered, Popped, SignInFails, SignOutRejected, Kept
    <2> QED
      BY <1>2, <2>1, <2>2, <2>3 DEF ShellInv, TabOK
  <1>4. ASSUME MeAnswered PROVE ShellInv'
    <2>1. DocumentOK' /\ CallsOK'
      BY <1>1, <1>4, Showing DEF MeAnswered, CallsOK
    <2>2. request = "me" /\ request' = "none" /\ form = Nil /\ form' = Nil
      BY <1>1, <1>4 DEF MeAnswered, Kept
    <2>3. StatusOK'
      BY <1>1, <1>4 DEF MeAnswered, StatusOK
    <2>4. CASE auth' = "authenticated" /\ storage' = storage
               /\ wanted' = IF place \in Dashboards THEN Nil ELSE wanted
      BY <1>1, <1>2, <1>4, <2>1, <2>2, <2>3, <2>4
         DEF ShellInv, TabOK, KeptOK, Kept, MeAnswered
    <2>5. CASE Persist /\ MarkWanted
      <3>1. KeptOK'
        BY <1>1, <1>4, <2>5, PersistKeeps DEF MeAnswered, KeptOK
      <3>2. Kept'
        BY <2>2, <2>5, PersistKeeps DEF Kept
      <3> QED
        BY <1>2, <2>1, <2>3, <3>1, <3>2 DEF ShellInv, TabOK
    <2> QED
      BY <1>4, <2>4, <2>5 DEF MeAnswered
  <1>5. ASSUME Redirect PROVE ShellInv'
    <2>1. StatusOK' /\ CallsOK'
      BY <1>1, <1>5 DEF Redirect, StatusOK, CallsOK
    <2>2. ASSUME TurnAway PROVE DocumentOK' /\ KeptOK' /\ Kept'
      <3>1. "root" \in Places
        BY DEF Places
      <3> QED
        BY <1>1, <1>5, <2>2, <3>1, Showing DEF Redirect, TurnAway, KeptOK, Kept
    <2>3. ASSUME EnterDashboard PROVE DocumentOK' /\ KeptOK' /\ Kept'
      <3>1. Plain \in Places
        BY ShellAssumption DEF Places
      <3> QED
        BY <1>1, <1>5, <2>3, <3>1, Showing DEF Redirect, EnterDashboard, KeptOK, Kept
    <2>4. ASSUME LeaveSignIn PROVE DocumentOK' /\ KeptOK' /\ Kept'
      <3>1. redirectTo(place) \in Places
        BY <1>1, <2>4, Resolves DEF LeaveSignIn, DocumentOK, Places
      <3> QED
        BY <1>1, <1>5, <2>4, <3>1, Showing DEF Redirect, LeaveSignIn, KeptOK, Kept
    <2> QED
      BY <1>2, <1>5, <2>1, <2>2, <2>3, <2>4 DEF Redirect, ShellInv, TabOK
  <1>6. ASSUME SignInAnswered PROVE ShellInv'
    <2>1. StatusOK' /\ CallsOK' /\ KeptOK' /\ Kept'
      BY <1>1, <1>6 DEF SignInAnswered, GoesBack, StatusOK, CallsOK, KeptOK, Kept
    <2>2. Target \in Places
      <3>1. form.page \in SignInPages /\ form.redirectTo \in Dashboards
        BY <1>1, <1>6 DEF SignInAnswered, CallsOK
      <3>2. resolveLoginRedirect(form.page) \in Dashboards
        BY <1>1, <3>1, Resolves DEF DocumentOK
      <3> QED
        BY <3>1, <3>2, ShellAssumption DEF Target, Places
    <2>3. DocumentOK'
      BY <1>1, <1>6, <2>2, Showing DEF SignInAnswered
    <2> QED
      BY <1>2, <2>1, <2>3 DEF ShellInv, TabOK
  <1>7. ASSUME SignedOut PROVE ShellInv'
    <2>1. DocumentOK'
      BY <1>1, <1>7, Showing DEF SignedOut
    <2>2. StatusOK' /\ CallsOK' /\ Kept'
      <3>1. /\ auth' = "unauthenticated" /\ wanted' = Nil /\ leaving' = FALSE
            /\ UNCHANGED <<boot, request, form, popping>>
        BY <1>7 DEF SignedOut
      <3>2. request = "none"
        BY <1>1, <1>7 DEF SignedOut, Kept
      <3> QED
        BY <1>1, <3>1, <3>2 DEF StatusOK, CallsOK, Kept
    <2>3. session' \in BOOLEAN
      <3>1. session' = session \/ session' = FALSE
        BY <1>7 DEF SignedOut
      <3> QED
        BY <1>1, <3>1 DEF KeptOK
    <2>4. KeptOK'
      BY <1>1, <1>7, <2>3 DEF SignedOut, KeptOK
    <2> QED
      BY <1>2, <2>1, <2>2, <2>4 DEF ShellInv, TabOK
  <1> QED
    BY <1>3, <1>4, <1>5, <1>6, <1>7 DEF Answer
\* The tab asks the server; it changes neither its process nor its tables.
LEMMA ServerUntouched == ASSUME Act \/ Answer PROVE UNCHANGED <<schema, process>>
  <1>1. Act => UNCHANGED <<schema, process>>
    <2>1. Move \/ UNCHANGED serverVars => UNCHANGED <<schema, process>>
      BY DEF Move, serverVars
    <2> QED
      BY <2>1 DEF Act, Visit, Reload, Load, Follow, Browse, Travel, Submit, SignOut, SessionEnds,
                  SessionExpired
  <1>2. Answer => UNCHANGED <<schema, process>>
    BY DEF Answer, HealthAnswered, MeAnswered, Redirect, Popped, SignInAnswered, SignInFails,
           SignedOut, SignOutRejected, serverVars
  <1> QED
    BY <1>1, <1>2
-----------------------------------------------------------------------------
(* The theorems. *)

LEMMA ShellInitially == ShellInit => ShellInv
  <1> SUFFICES ASSUME ShellInit PROVE ShellInv
    OBVIOUS
  <1>1. IInv
    BY Initially DEF ShellInit
  <1>2. DocumentOK
    <2>1. <<"root">> \in Seq(Places) /\ Len(<<"root">>) = 1 /\ 1 \in DOMAIN <<"root">>
      BY DEF Places
    <2>2. 1 \in 1 .. MaxEntries /\ "root" \in Places
      BY ShellAssumption DEF Places
    <2> QED
      BY <2>1, <2>2 DEF ShellInit, DocumentOK
  <1>3. StatusOK /\ CallsOK /\ KeptOK /\ Kept
    BY DEF ShellInit, StatusOK, CallsOK, KeptOK, Kept
  <1> QED
    BY <1>1, <1>2, <1>3 DEF ShellInv, TabOK

LEMMA ShellKeeps == ShellInv /\ [Next]_vars => ShellInv'
  <1> SUFFICES ASSUME ShellInv, [Next]_vars PROVE ShellInv'
    OBVIOUS
  <1>1. ASSUME UNCHANGED tabVars PROVE TabOK' /\ Kept'
    BY <1>1 DEF tabVars, document, status, calls, ShellInv, TabOK, DocumentOK, StatusOK,
                CallsOK, KeptOK, Kept
  <1>2. CASE ServerNext /\ UNCHANGED tabVars
    BY <1>1, <1>2, ServerKeeps DEF ShellInv
  <1>3. CASE UNCHANGED vars
    BY <1>1, <1>3, ServerKeeps DEF vars, ShellInv
  <1> QED
    BY <1>2, <1>3, ActKeeps, AnswerKeeps DEF Next

\* The variables of the tab and of the server keep their types; in particular a
\* redirect is always a dashboard, whatever was stored and wherever it was loaded.
THEOREM ShellTypeCorrect == Spec => []ShellTypeOK
  BY ShellInitially, ShellKeeps, InvIsTyped, PTL DEF Spec

\* A server that passes its health check can sign users in: however the
\* dependencies come and go and starts are cut short, the session service exists
\* and there is a table of users.
THEOREM ReadyServersWork == Spec => []ReadyMeansUsable
  <1>1. ShellInv => ReadyMeansUsable
    BY ReadyIsUsable DEF ShellInv
  <1> QED
    BY ShellInitially, ShellKeeps, <1>1, PTL DEF Spec

\* The query a guest was turned away from stays the one that signing in leads to,
\* over any number of reloads, other pages, failed attempts and server starts.
THEOREM WantedStaysWanted == Spec => []WantedIsKept
  BY ShellInitially, ShellKeeps, WantedLeadsBack, PTL DEF Spec

\* In the tab's world, too, a server that is ready on tables it has not migrated
\* could not look at them when it started.
THEOREM ReadyServersMigrated == Spec => []StaleSchemaHasACause
  <1>1. ShellInit => TablesKnown
    BY TablesInitially DEF ShellInit
  <1>2. ShellInv /\ TablesKnown /\ [Next]_vars => TablesKnown'
    <2> SUFFICES ASSUME ShellInv, TablesKnown, [Next]_vars PROVE TablesKnown'
      OBVIOUS
    <2>1. CASE [ServerNext]_serverVars
      BY <2>1, ServerKnows DEF ShellInv, IInv
    <2>2. CASE Act \/ Answer
      <3>1. UNCHANGED <<schema, process>>
        BY <2>2, ServerUntouched
      <3> QED
        BY <3>1, TablesUnseen
    <2> QED
      BY <2>1, <2>2 DEF Next, vars
  <1> QED
    BY ShellInitially, ShellKeeps, <1>1, <1>2, StaleHasACause, PTL DEF Spec

\* A <Navigate> leads to a screen that fits: the redirect of a page is a dashboard
\* wherever it comes from, so no second redirect follows.
THEOREM RedirectsSettle == Spec => RedirectsFit
  <1>1. ShellInv /\ [Next]_vars => [Redirect => Fits']_vars
    <2> SUFFICES ASSUME ShellInv, Redirect PROVE Fits'
      OBVIOUS
    <2>1. UNCHANGED <<boot, auth>>
      BY DEF Redirect, status
    <2>2. DocumentOK /\ KeptOK /\ "root" \notin Dashboards /\ Plain \in Dashboards
      BY ShellAssumption DEF ShellInv, TabOK
    <2>3. \A p : Replace(p) => place' = p
      BY <2>2 DEF Replace, Show, DocumentOK, place
    <2>4. CASE TurnAway
      <3>1. place' = "root" /\ auth = "unauthenticated"
        BY <2>3, <2>4 DEF TurnAway
      <3> QED
        BY <2>1, <2>2, <3>1 DEF Fits
    <2>5. CASE EnterDashboard
      <3>1. place' = Plain /\ auth = "authenticated"
        BY <2>3, <2>5 DEF EnterDashboard
      <3> QED
        BY <2>1, <2>2, <3>1 DEF Fits
    <2>6. CASE LeaveSignIn
      <3>1. place' = redirectTo(place) /\ place \in SignInPages /\ auth = "authenticated"
        BY <2>3, <2>6 DEF LeaveSignIn
      <3>2. place' \in Dashboards
        BY <2>2, <3>1, Resolves DEF DocumentOK
      <3> QED
        BY <2>1, <3>1, <3>2 DEF Fits
    <2> QED
      BY <2>4, <2>5, <2>6 DEF Redirect
  <1> QED
    BY ShellInitially, ShellKeeps, <1>1, PTL DEF Spec, RedirectsFit

\* A guest who signs in at /login is brought to the query wanted and nowhere else.
THEOREM GuestsReturn == Spec => GuestReturns
  <1>1. ShellInv /\ [Next]_vars =>
          [(wanted # Nil /\ (SignsIn \/ IsShownIn)) => place' = wanted]_vars
    <2> SUFFICES ASSUME ShellInv, Next, wanted # Nil, SignsIn \/ IsShownIn
                 PROVE  place' = wanted
      OBVIOUS
    <2>1. WantedIsKept /\ at \in DOMAIN entries /\ Plain # wanted
      BY WantedLeadsBack DEF ShellInv, TabOK, KeptOK, DocumentOK
    <2>2. CASE IsShownIn
      BY <2>1, <2>2 DEF IsShownIn, LeaveSignIn, Replace, Show, WantedIsKept, place
    <2>3. CASE SignsIn
      <3>1. SignInAnswered
        <4>1. auth = "unauthenticated" /\ form # Nil /\ form' = Nil /\ auth' = "authenticated"
          BY <2>3 DEF SignsIn, ShellInv, Kept
        <4>2. \A p : ~Load(p) /\ ~Follow(p)
          BY <4>1 DEF Load, Follow, calls
        <4>3. ~Act
          BY <4>1, <4>2 DEF Act, Visit, Reload, Browse, Travel, Submit, SignOut, SessionEnds,
                            SessionExpired, status, calls
        <4> QED
          BY <4>1, <4>3 DEF Next, Answer, tabVars, status, calls, HealthAnswered, MeAnswered,
                            Redirect, Popped, SignInFails, SignedOut, SignOutRejected
      <3>2. form.page = "login" /\ form.redirectTo = wanted
        BY <2>1, <2>3 DEF SignsIn, WantedIsKept
      <3>3. Target = wanted /\ ~GoesBack
        BY <2>1, <3>2 DEF Target, GoesBack
      <3> QED
        BY <2>1, <3>1, <3>3 DEF SignInAnswered, Replace, Show, place
    <2> QED
      BY <2>2, <2>3
  <1> QED
    BY ShellInitially, ShellKeeps, <1>1, PTL DEF Spec, GuestReturns
=============================================================================
