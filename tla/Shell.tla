------------------------------- MODULE Shell -------------------------------
(***************************************************************************)
(* The application in one tab (App.tsx): its boot against the server of    *)
(* Startup, which screen a route shows, and how a guest who was turned     *)
(* away from the dashboard returns to it after signing in (Login.tsx,      *)
(* lib/loginRedirect.ts).                                                  *)
(*                                                                         *)
(* A route that renders <Navigate> navigates in an effect: Redirect is a   *)
(* step of its own.  What the calls of the session client may do is the    *)
(* subject of AuthPage; here a call has an outcome.                        *)
(***************************************************************************)
EXTENDS Startup, Sequences

CONSTANTS
    Dashboards,   \* dashboard addresses, with their queries
    Plain,        \* the one without a query
    Demo,         \* the one the demo link of the landing page asks for
    Nil,
    MaxEntries    \* bound on the history of a tab

\* "demo" is /login?redirect=Demo.
SignInPages == {"login", "demo", "signup"}
Places == {"root"} \cup SignInPages \cup Dashboards

ASSUME ShellAssumption ==
    /\ {Plain, Demo} \subseteq Dashboards /\ Plain # Demo
    /\ Nil \notin Dashboards /\ Dashboards \cap ({"root"} \cup SignInPages) = {}
    /\ MaxEntries \in Nat \ {0}

VARIABLES
    entries,     \* the history of the document
    at,          \* which entry is shown
    initial,     \* where the document was loaded
    storage,     \* the redirect kept in sessionStorage, or Nil
    boot,        \* bootStatus
    auth,        \* authStatus
    request,     \* the request of the boot under way: "health", "me" or "none"
    form,        \* the sign-in under way: the page and its redirectTo, or Nil
    popping,     \* navigate(-1) was called
    leaving,     \* the sign-out is under way
    session,     \* whether the cookies of the browser are good
    wanted       \* a history variable: the query a guest came for, or Nil

document == <<entries, at, initial>>
status == <<boot, auth, request>>
calls == <<form, popping, leaving>>
tabVars == <<document, storage, status, calls, session, wanted>>
vars == <<serverVars, tabVars>>

place == entries[at]
-----------------------------------------------------------------------------
(* lib/loginRedirect.ts. *)

hasDashboardQuery(d) == d \in Dashboards \ {Plain}

\* Of two candidates, Nil or not: the first one with a query, or the first one.
selectPreferredRedirect(a, b) ==
    IF hasDashboardQuery(a) THEN a
    ELSE IF hasDashboardQuery(b) THEN b
    ELSE Plain

\* Faulty variant: what is stored already stays.
KeepLoginRedirect(p) == IF p \in Dashboards /\ storage = Nil THEN p ELSE storage

\* What is stored after writeLoginRedirect(p).
writeLoginRedirect(p) == IF p \in Dashboards THEN selectPreferredRedirect(p, storage) ELSE storage

\* The navigation entry of a document has the address it was loaded at, too.
readLoginRedirect ==
    IF storage # Nil THEN storage ELSE IF initial \in Dashboards THEN initial ELSE Plain

resolveLoginRedirect(p) ==
    selectPreferredRedirect(IF p = "demo" THEN Demo ELSE Nil, readLoginRedirect)

\* Faulty variant: any place may be the fallback.
FallbackAnywhere(p) ==
    IF resolveLoginRedirect(p) = Plain THEN initial ELSE resolveLoginRedirect(p)

\* LoginRoute; fallbackRedirectTo is the initial dashboard.
redirectTo(p) ==
    IF resolveLoginRedirect(p) = Plain /\ initial \in Dashboards THEN initial
                                                                 ELSE resolveLoginRedirect(p)
-----------------------------------------------------------------------------
(* The tab. *)

ShellInit ==
    /\ ServerInit
    /\ entries = <<"root">> /\ at = 1 /\ initial = "root" /\ storage = Nil
    /\ boot = "checking" /\ auth = "checking" /\ request = "health"
    /\ form = Nil /\ popping = FALSE /\ leaving = FALSE
    /\ session \in BOOLEAN /\ wanted = Nil

\* What comes from outside shares one bound.
Move == Change /\ UNCHANGED <<dsn, postgres, redis, schema, process>>

Show(es, i) == entries' = es /\ at' = i /\ UNCHANGED initial

Replace(p) == Show([entries EXCEPT ![at] = p], at)

Push(p) == at < MaxEntries /\ Show(Append(SubSeq(entries, 1, at), p), at + 1)

\* A document is loaded: it keeps where it was asked for and boots.  A sign-in
\* the old one had sent may still be carried out.
Load(p) ==
    /\ Move
    /\ initial' = p /\ storage' = writeLoginRedirect(p)
    /\ boot' = "checking" /\ auth' = "checking" /\ request' = "health"
    /\ form' = Nil /\ popping' = FALSE /\ leaving' = FALSE
    /\ session' \in {session, session \/ form # Nil}
    /\ wanted' = (IF hasDashboardQuery(p) THEN p ELSE IF p = Plain THEN Nil ELSE wanted)

Visit(p) == entries' = <<p>> /\ at' = 1 /\ Load(p)

Reload == UNCHANGED <<entries, at>> /\ Load(place)

\* fetchHealthStatus never rejects: a lost answer counts as "unavailable".
HealthAnswered ==
    /\ request = "health"
    /\ \/ Ready /\ boot' = "ready" /\ request' = "me"
       \/ boot' = "unavailable" /\ request' = "none"
    /\ UNCHANGED <<serverVars, document, storage, auth, calls, session, wanted>>

\* Faulty variant: nothing is kept.
PersistNothing == storage' = storage

\* The guest is seen at a dashboard: persistDashboardRedirectIfNeeded.
Persist == storage' = writeLoginRedirect(place)

MarkWanted == wanted' = (IF hasDashboardQuery(place) THEN place
                         ELSE IF place = Plain THEN Nil ELSE wanted)

\* fetchCurrentUser is answered with a user, with none, or rejects.
MeAnswered ==
    /\ request = "me" /\ request' = "none"
    /\ \/ /\ session /\ authService /\ auth' = "authenticated"
          /\ wanted' = (IF place \in Dashboards THEN Nil ELSE wanted)
          /\ UNCHANGED storage
       \/ auth' = "unauthenticated" /\ Persist /\ MarkWanted
    /\ UNCHANGED <<serverVars, document, boot, calls, session>>

Shown == boot = "ready" /\ auth # "checking"

\* <Navigate> of the dashboard's, the root's and the sign-in routes.
TurnAway ==
    /\ Shown /\ auth = "unauthenticated" /\ place \in Dashboards /\ Replace("root")
    /\ UNCHANGED <<storage, wanted>>

EnterDashboard ==
    /\ Shown /\ auth = "authenticated" /\ place = "root" /\ Replace(Plain)
    /\ wanted' = Nil
    /\ UNCHANGED storage

\* Faulty variant: a user who is signed in stays on the page.
NotToSignInAgain == FALSE /\ UNCHANGED <<document, storage, wanted>>

LeaveSignIn ==
    /\ Shown /\ auth = "authenticated" /\ place \in SignInPages
    /\ storage' = Nil /\ Replace(redirectTo(place)) /\ wanted' = Nil

Redirect == /\ TurnAway \/ EnterDashboard \/ LeaveSignIn
            /\ UNCHANGED <<serverVars, status, calls, session>>
-----------------------------------------------------------------------------
(* The landing page and the sign-in pages. *)

Guest == Shown /\ auth = "unauthenticated"

Follow(p) ==
    /\ Guest
    /\ \/ place = "root" /\ p \in SignInPages
       \/ place = "signup" /\ p = "login"
       \/ place \in {"login", "demo"} /\ p = "signup"
    /\ Push(p)
    /\ UNCHANGED <<serverVars, storage, status, calls, session, wanted>>

\* The handler goes on in the render it was submitted in.
Submit ==
    /\ Guest /\ place \in SignInPages /\ form = Nil
    /\ form' = [page |-> place, redirectTo |-> redirectTo(place)]
    /\ UNCHANGED <<serverVars, document, storage, status, popping, leaving, session, wanted>>

\* Where handleSuccessRedirect goes.
Target ==
    IF form.page = "signup" THEN Plain
    ELSE IF form.redirectTo # Plain THEN form.redirectTo ELSE resolveLoginRedirect(form.page)

GoesBack == form.page # "signup" /\ Target = Plain /\ at > 1

\* navigate(-1) takes effect later.
SignInAnswered ==
    /\ form # Nil /\ form' = Nil
    /\ authService /\ postgres /\ redis /\ schema.users # "none"
    /\ session' = TRUE /\ storage' = Nil /\ auth' = "authenticated" /\ wanted' = Nil
    /\ popping' = (popping \/ GoesBack)
    /\ IF GoesBack THEN UNCHANGED document ELSE Replace(Target)
    /\ UNCHANGED <<serverVars, boot, request, leaving>>

SignInFails ==
    /\ form # Nil /\ form' = Nil
    /\ UNCHANGED <<serverVars, document, storage, status, popping, leaving, session, wanted>>

Popped ==
    /\ popping /\ popping' = FALSE
    /\ Show(entries, IF at > 1 THEN at - 1 ELSE at)
    /\ UNCHANGED <<serverVars, storage, status, form, leaving, session, wanted>>
-----------------------------------------------------------------------------
(* The dashboard. *)

User == Shown /\ auth = "authenticated" /\ place \in Dashboards

Browse(d) ==
    /\ User /\ Move /\ d # place /\ (Push(d) \/ Replace(d))
    /\ UNCHANGED <<storage, status, calls, session, wanted>>

SignOut ==
    /\ User /\ ~leaving /\ leaving' = TRUE
    /\ UNCHANGED <<serverVars, document, storage, status, form, popping, session, wanted>>

\* onLoggedOut; what was wanted before is settled.
SignedOut ==
    /\ leaving /\ leaving' = FALSE
    /\ session' \in {session, FALSE} /\ auth' = "unauthenticated" /\ wanted' = Nil
    /\ UNCHANGED <<serverVars, document, storage, boot, request, form, popping>>

SignOutRejected ==
    /\ leaving /\ leaving' = FALSE
    /\ UNCHANGED <<serverVars, document, storage, status, form, popping, session, wanted>>

SessionEnds ==
    /\ Move /\ session /\ session' = FALSE
    /\ UNCHANGED <<document, storage, status, calls, wanted>>

\* handleSessionExpired, after a call of the dashboard.
SessionExpired ==
    /\ User /\ ~session
    /\ Persist /\ MarkWanted /\ auth' = "unauthenticated"
    /\ UNCHANGED <<serverVars, document, boot, request, calls, session>>

\* The buttons of the browser.
Travel(i) ==
    /\ Move /\ i \in DOMAIN entries \ {at} /\ Show(entries, i)
    /\ UNCHANGED <<storage, status, calls, session, wanted>>

Act ==
    \/ \E p \in Places : Visit(p) \/ Follow(p)
    \/ \E d \in Dashboards : Browse(d)
    \/ \E i \in {at - 1, at + 1} : Travel(i)
    \/ Reload \/ Submit \/ SignOut \/ SessionEnds \/ SessionExpired

Answer ==
    \/ HealthAnswered \/ MeAnswered \/ Redirect \/ Popped
    \/ SignInAnswered \/ SignInFails \/ SignedOut \/ SignOutRejected

Next == (ServerNext /\ UNCHANGED tabVars) \/ Act \/ Answer

Spec == ShellInit /\ [][Next]_vars

\* The process is started and runs, answers arrive or are given up, and a
\* render's effects run.
FairSpec ==
    /\ Spec
    /\ WF_vars(Main /\ UNCHANGED tabVars)
    /\ WF_vars(HealthAnswered) /\ WF_vars(MeAnswered)
    /\ WF_vars(Redirect) /\ WF_vars(Popped)
    /\ WF_vars(SignInAnswered \/ SignInFails) /\ WF_vars(SignedOut \/ SignOutRejected)
-----------------------------------------------------------------------------
(* Properties. *)

ShellTypeOK ==
    /\ ServerTypeOK
    /\ entries \in Seq(Places) /\ Len(entries) \in 1 .. MaxEntries /\ at \in DOMAIN entries
    /\ initial \in Places /\ storage \in Dashboards \cup {Nil}
    /\ boot \in {"checking", "ready", "unavailable"}
    /\ auth \in {"checking", "authenticated", "unauthenticated"}
    /\ request \in {"none", "health", "me"}
    /\ form \in [page : SignInPages, redirectTo : Dashboards] \cup {Nil}
    /\ popping \in BOOLEAN /\ leaving \in BOOLEAN /\ session \in BOOLEAN
    /\ wanted \in (Dashboards \ {Plain}) \cup {Nil}

\* While a guest waits to return to a query, that is where signing in leads:
\* through reloads, other pages and failed attempts, and though a redirect of
\* an earlier visit may still be stored or another dashboard was opened first.
WantedIsKept ==
    wanted # Nil =>
        /\ redirectTo("login") = wanted
        /\ form # Nil /\ form.page = "login" => form.redirectTo = wanted

SignsIn == form # Nil /\ form' = Nil /\ form.page = "login" /\ auth' = "authenticated"

IsShownIn == place = "login" /\ LeaveSignIn

\* "A guest who opens the dashboard with a query returns to that query": a user
\* who signs in at /login after having been turned away at the boot or by an
\* expired session is brought to the query and nowhere else.
GuestReturns ==
    [][(wanted # Nil /\ (SignsIn \/ IsShownIn)) => place' = wanted]_vars

\* Where the tab is fits who it is for; otherwise the route sends it elsewhere.
Fits == ~Shown \/ (auth = "authenticated" <=> place \in Dashboards)

\* A <Navigate> is the last: the screen it leads to does not send the tab
\* elsewhere again, from whatever entry, stored redirect or initial address.
RedirectsFit == [][Redirect => Fits']_vars

\* Again and again the tab shows a screen that fits: users at the dashboard,
\* guests elsewhere; no two routes send it to and fro for ever.
ScreensSettle == []<>Fits
=============================================================================
