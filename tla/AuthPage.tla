------------------------------ MODULE AuthPage ------------------------------
(***************************************************************************)
(* One page of the client on top of AuthSessions: frontend/src/lib/auth.ts *)
(* with the parts of App.tsx that start its calls and react to them, and   *)
(* the access check of internal/auth/middleware.go and GetMe.              *)
(*                                                                         *)
(* A call is one fetchWithAuth (kind "api") or fetchCurrentUser (kind      *)
(* "me"): it sends its request, and on a 401 joins or starts the page's    *)
(* one refresh and sends the request again.  A promise of the page may     *)
(* reject at any moment; the handler at the server then runs on unheard.   *)
(***************************************************************************)
EXTENDS AuthSessions

CONSTANTS
    Calls,    \* calls of fetchWithAuth and fetchCurrentUser under way at once
    Broken    \* a promise that has rejected

ASSUME BrokenAssumption == Broken \notin Requests \cup {Nil}

VARIABLES
    refreshPromise,  \* Nil, the refresh request it stands for, or Broken
    submitting,      \* the sign-in or sign-up the form waits for, or Nil
    loggingOut,      \* the logout the dashboard waits for, or Nil
    authStatus,      \* of the application shell
    call             \* call[c]: where the call is, and whether it was carried out

pageVars == <<refreshPromise, submitting, loggingOut, authStatus, call>>

allVars == <<vars, pageVars>>

\* cookie: the access cookie that the request under way was sent with; try: 2
\* once the call has sent its request again; ran: how often the server has
\* carried it out.
Call == [pc : {"idle", "sent", "done", "waiting"}, kind : {"api", "me"},
         cookie : Users \cup {Nil}, try : {1, 2}, ran : 0..2]

NoCall == [pc |-> "idle", kind |-> "api", cookie |-> Nil, try |-> 1, ran |-> 0]

PageInit ==
    /\ Init
    /\ refreshPromise = Nil
    /\ submitting = Nil
    /\ loggingOut = Nil
    /\ authStatus = "checking"
    /\ call = [c \in Calls |-> NoCall]

-----------------------------------------------------------------------------
(* Calls.                                                                  *)

Waiting == {c \in Calls : call[c].pc = "waiting"}

\* Faulty variant: the refresh cookie is read where the access cookie should be.
FetchWithOtherCookie(c, kind) ==
    call' = [call EXCEPT ![c] = [NoCall EXCEPT !.pc = "sent", !.kind = kind,
                                               !.cookie = jar.refresh]]

\* fetch(input, withCredentials(init)), for the first time.
Fetch(c, kind) ==
    call' = [call EXCEPT ![c] = [NoCall EXCEPT !.pc = "sent", !.kind = kind,
                                               !.cookie = jar.access]]

\* The boot of the application asks who is signed in.
Boot(c) ==
    /\ authStatus = "checking"
    /\ \A d \in Calls : call[d].pc = "idle"
    /\ Fetch(c, "me")
    /\ UNCHANGED <<vars, refreshPromise, submitting, loggingOut, authStatus>>

\* The dashboard loads, creates, deletes or restores.
CallApi(c) ==
    /\ authStatus = "authenticated"
    /\ call[c].pc = "idle"
    /\ Fetch(c, "api")
    /\ UNCHANGED <<vars, refreshPromise, submitting, loggingOut, authStatus>>

Without(ended) == [c \in Calls |-> IF c \in ended THEN NoCall ELSE call[c]]

\* Faulty variant: the failure of a boot is caught and dropped.
EndQuietly(ended) ==
    /\ call' = Without(ended)
    /\ UNCHANGED authStatus

\* The calls in ended are over without success: a boot among them finds nobody
\* signed in.
End(ended) ==
    /\ call' = Without(ended)
    /\ authStatus' = IF \E c \in ended : call[c].kind = "me" THEN "unauthenticated"
                     ELSE authStatus

\* RequireAuthenticatedUser finds a valid access cookie, and the handler of the
\* request does its work.
CarryOut(c) ==
    /\ call[c].pc = "sent"
    /\ call[c].cookie # Nil
    /\ call' = [call EXCEPT ![c].pc = "done", ![c].ran = @ + 1]
    /\ UNCHANGED <<vars, refreshPromise, submitting, loggingOut, authStatus>>

\* The answer of the handler arrives, or one that refuses the request for another
\* reason than its cookie.  It names the user if the handler ran; its body may
\* still be unreadable.
Answered(c) ==
    /\ call[c].pc \in {"sent", "done"}
    /\ \/ End({c})
       \/ /\ call[c].pc = "done"
          /\ call' = Without({c})
          /\ authStatus' = IF call[c].kind = "me" THEN "authenticated" ELSE authStatus
    /\ UNCHANGED <<vars, refreshPromise, submitting, loggingOut>>

Wait(c) ==
    /\ call' = [call EXCEPT ![c].pc = "waiting", ![c].cookie = Nil]
    /\ UNCHANGED authStatus

\* Faulty variant: every call refreshes on its own.
RefreshOfItsOwn(c) ==
    /\ Wait(c)
    /\ \E r \in Requests : SendRefresh(r) /\ refreshPromise' = r

\* refreshSession: the calls of a page share one promise, whatever became of
\* it; one that has rejected rejects whoever awaits it.
RefreshSession(c) ==
    \/ /\ refreshPromise = Nil
       /\ Wait(c)
       /\ \E r \in Requests : SendRefresh(r) /\ refreshPromise' = r
    \/ /\ refreshPromise \in Requests
       /\ Wait(c)
       /\ UNCHANGED <<vars, refreshPromise>>
    \/ /\ refreshPromise = Broken
       /\ End({c})
       /\ UNCHANGED <<vars, refreshPromise>>

\* A 401, which is written before the handler of the request is reached.  The
\* cookie was missing, or the token in it expired on the way, whatever the cookies
\* are by the time the 401 arrives.
Unauthorized(c) ==
    /\ call[c].pc = "sent" /\ call[c].try = 1
    /\ RefreshSession(c)
    /\ UNCHANGED <<submitting, loggingOut>>

\* The second 401 is final.
UnauthorizedAgain(c) ==
    /\ call[c].pc = "sent" /\ call[c].try = 2
    /\ End({c})
    /\ UNCHANGED <<vars, refreshPromise, submitting, loggingOut>>

\* Faulty variant: a request that fails is sent again.
SentAgain(c) ==
    /\ call[c].pc \in {"sent", "done"} /\ call[c].try = 1
    /\ call' = [call EXCEPT ![c].pc = "sent", ![c].try = 2]
    /\ UNCHANGED <<vars, refreshPromise, submitting, loggingOut, authStatus>>

\* The fetch rejects, whether or not the server has carried the request out,
\* and nobody tries again.
Rejected(c) ==
    /\ call[c].pc \in {"sent", "done"}
    /\ End({c})
    /\ UNCHANGED <<vars, refreshPromise, submitting, loggingOut>>

-----------------------------------------------------------------------------
(* The end of a refresh: every call that waits for it goes on.             *)

\* The promise fulfils and is reset.  The cookies are set before the calls
\* send their requests again; SESSION_EXPIRED tells the shell.
RefreshAnswered ==
    /\ refreshPromise \in Requests
    /\ Deliver(refreshPromise)
    /\ refreshPromise' = Nil
    /\ LET code == req[refreshPromise].code IN
       \/ /\ code = "ok"
          /\ call' = [c \in Calls |->
                        IF c \in Waiting
                        THEN [call[c] EXCEPT !.pc = "sent", !.try = 2,
                                             !.cookie = jar'.access]
                        ELSE call[c]]
          /\ UNCHANGED authStatus
       \/ /\ code = "SESSION_EXPIRED"
          /\ call' = Without(Waiting)
          /\ authStatus' = "unauthenticated"
       \/ /\ code \notin {"ok", "SESSION_EXPIRED"}
          /\ End(Waiting)
    /\ UNCHANGED <<submitting, loggingOut>>

\* Faulty variant: the promise is reset, but the calls are forgotten.
RefreshForgotten ==
    /\ refreshPromise \in Requests
    /\ refreshPromise' = Nil
    /\ UNCHANGED <<vars, submitting, loggingOut, authStatus, call>>

\* Faulty variant: the promise is reset when it rejects, too.
RefreshRejectedAndReset ==
    /\ refreshPromise \in Requests
    /\ refreshPromise' = Nil
    /\ End(Waiting)
    /\ UNCHANGED <<vars, submitting, loggingOut>>

\* The promise rejects.  The line that resets refreshPromise is not reached.
RefreshRejected ==
    /\ refreshPromise \in Requests
    /\ refreshPromise' = Broken
    /\ End(Waiting)
    /\ UNCHANGED <<vars, submitting, loggingOut>>

-----------------------------------------------------------------------------
(* The login form, the logout button and the address bar.                  *)

SignIn ==
    /\ authStatus = "unauthenticated"
    /\ submitting = Nil
    /\ \E r \in Requests :
          /\ \/ \E u \in Users : SendLogin(r, u) \/ SendSignup(r, u)
             \/ \E kind \in {"login", "signup"} : FailEarly(r, kind)
          /\ submitting' = r
    /\ UNCHANGED <<refreshPromise, loggingOut, authStatus, call>>

\* The cookies are set although the body of the answer may turn out unreadable.
SignInAnswered ==
    /\ submitting \in Requests
    /\ Deliver(submitting)
    /\ submitting' = Nil
    /\ \/ req[submitting].code = "ok" /\ authStatus' = "authenticated"
       \/ UNCHANGED authStatus
    /\ UNCHANGED <<refreshPromise, loggingOut, call>>

SignInRejected ==
    /\ submitting \in Requests
    /\ submitting' = Nil
    /\ UNCHANGED <<vars, refreshPromise, loggingOut, authStatus, call>>

SignOut ==
    /\ authStatus = "authenticated"
    /\ loggingOut = Nil
    /\ \E r \in Requests : SendLogout(r) /\ loggingOut' = r
    /\ UNCHANGED <<refreshPromise, submitting, authStatus, call>>

\* logout does not look at the status of the answer.
SignOutAnswered ==
    /\ loggingOut \in Requests
    /\ Deliver(loggingOut)
    /\ loggingOut' = Nil
    /\ authStatus' = "unauthenticated"
    /\ UNCHANGED <<refreshPromise, submitting, call>>

SignOutRejected ==
    /\ loggingOut \in Requests
    /\ loggingOut' = Nil
    /\ UNCHANGED <<vars, refreshPromise, submitting, authStatus, call>>

\* A new page, once the server is done with the requests of the old one: a
\* reload before that is an overlap of two pages (see README, section 5).  To
\* reload a page that is still booting is to boot later.
Reload ==
    /\ authStatus # "checking"
    /\ \A r \in Requests : req[r].pc = "idle"
    /\ refreshPromise' = Nil
    /\ submitting' = Nil
    /\ loggingOut' = Nil
    /\ authStatus' = "checking"
    /\ call' = [c \in Calls |-> NoCall]
    /\ UNCHANGED vars

-----------------------------------------------------------------------------
(* The server, the clock, and the whole.                                   *)

\* The handler of r runs its next command, which succeeds or fails.
Handle(r) ==
    /\ Serve(r) \/ FailLoad(r) \/ FailDelete(r) \/ FailSave(r)
    /\ UNCHANGED pageVars

\* Nobody waits for the answer any more.
Unheard(r) ==
    /\ r \notin {refreshPromise, submitting, loggingOut}
    /\ Lose(r)
    /\ UNCHANGED pageVars

Clock ==
    /\ (\E t \in Tokens : SessionLapses(t)) \/ AccessLapses \/ RefreshCookieLapses
    /\ UNCHANGED pageVars

\* The browser settles every promise of fetch: with an answer or an error.
Settle(c) ==
    \/ Answered(c)
    \/ Unauthorized(c)
    \/ UnauthorizedAgain(c)
    \/ Rejected(c)

SettleRefresh == RefreshAnswered \/ RefreshRejected

PageNext ==
    \/ \E c \in Calls : Boot(c) \/ CallApi(c) \/ CarryOut(c) \/ Settle(c)
    \/ SettleRefresh
    \/ SignIn \/ SignInAnswered \/ SignInRejected
    \/ SignOut \/ SignOutAnswered \/ SignOutRejected
    \/ Reload
    \/ \E r \in Requests : Handle(r) \/ Unheard(r)
    \/ Clock

PageSpec == PageInit /\ [][PageNext]_allVars

\* A booting application asks, and the browser settles its promises; nothing
\* is assumed of the user, the server, the stores and the clock.
FairPageSpec ==
    /\ PageSpec
    /\ WF_allVars(\E c \in Calls : Boot(c))
    /\ \A c \in Calls : WF_allVars(Settle(c))
    /\ WF_allVars(SettleRefresh)

-----------------------------------------------------------------------------
(* Properties.                                                             *)

PageTypeOK ==
    /\ TypeOK
    /\ refreshPromise \in Requests \cup {Nil, Broken}
    /\ submitting \in Requests \cup {Nil}
    /\ loggingOut \in Requests \cup {Nil}
    /\ authStatus \in {"checking", "authenticated", "unauthenticated"}
    /\ call \in [Calls -> Call]

\* A call that waits for a refresh waits for one that is under way, and the
\* page waits for a refresh only if a call does: however calls join and the
\* refresh ends, none is left behind.
WaitersHaveARefresh ==
    /\ Waiting # {} => refreshPromise \in Requests
    /\ refreshPromise \in Requests => /\ Waiting # {}
                                      /\ req[refreshPromise].kind = "refresh"

\* The retry after a 401 never repeats a create, delete or restore that was
\* carried out: not when the cookie lapses on the way, not when several calls
\* share a refresh, not when a connection breaks after the server has done its
\* work.
CarriedOutOnce == \A c \in Calls : call[c].ran <= 1

\* Every call ends: waiting for the shared refresh cannot last for ever.
EveryCallEnds == \A c \in Calls : call[c].pc # "idle" ~> call[c].pc = "idle"

\* "Unknown -> AuthChecking -> Authenticated | Unauthenticated": the shell
\* does not stay on its checking screen, whatever fails or rejects.
BootDecides == authStatus = "checking" ~> authStatus # "checking"
=============================================================================
