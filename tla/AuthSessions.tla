---------------------------- MODULE AuthSessions ----------------------------
(***************************************************************************)
(* The session service (internal/auth/service.go, session_store.go,        *)
(* user_store.go) behind internal/handlers/auth.go, and the browser whose  *)
(* tabs share one pair of cookies.                                         *)
(*                                                                         *)
(* A request captures the refresh cookie when it is sent.  Each call to    *)
(* PostgreSQL or Redis is one step, and other requests run in between;     *)
(* nothing makes load, delete and save of a refresh one unit.  The answer  *)
(* reaches the browser later, in any order, or never.                      *)
(***************************************************************************)
EXTENDS Integers

CONSTANTS
    Users,      \* accounts a visitor may sign up for or sign in to
    Tokens,     \* opaque refresh tokens, one for every session ever issued
    Requests,   \* requests the browser's tabs have in flight at the same time
    Nil         \* no user, no token, no cookie

ASSUME NilAssumption == Nil \notin Users \cup Tokens \cup Requests

VARIABLES
    accounts,   \* users with a row in table "users"
    redis,      \* redis[t]: what Redis and the clock say of token t
    issued,     \* issued[t]: the RefreshSession saved under t
    jar,        \* the browser's two authentication cookies
    req,        \* req[r]: what the handler of r holds, then its answer
    loggedOut   \* history: tokens whose logout the browser saw succeed

vars == <<accounts, redis, issued, jar, req, loggedOut>>

\* "overdue": ExpiresAt has passed and Redis has not evicted the key yet.
TokenStates == {"unused", "live", "overdue", "gone"}

Kinds == {"none", "login", "signup", "refresh", "logout"}

Stages == {"idle", "load", "drop", "delete", "save", "revoke", "reply"}

Codes == {"none", "ok", "rejected", "failed", "signed_out",
          "AUTH_REQUIRED", "SESSION_EXPIRED"}

Session == [user : Users \cup {Nil}, from : Tokens \cup {Nil}]

Jar == [access : Users \cup {Nil}, refresh : Tokens \cup {Nil}]

\* token: the refresh cookie the request carried; new: the token it was given.
Request == [pc : Stages, kind : Kinds, user : Users \cup {Nil},
            token : Tokens \cup {Nil}, new : Tokens \cup {Nil}, code : Codes]

NoSession == [user |-> Nil, from |-> Nil]

NoCookies == [access |-> Nil, refresh |-> Nil]

Idle == [pc |-> "idle", kind |-> "none", user |-> Nil, token |-> Nil,
         new |-> Nil, code |-> "none"]

Init ==
    /\ accounts = {}
    /\ redis = [t \in Tokens |-> "unused"]
    /\ issued = [t \in Tokens |-> NoSession]
    /\ jar = NoCookies
    /\ req = [r \in Requests |-> Idle]
    /\ loggedOut = {}

-----------------------------------------------------------------------------
(* Steps the handlers share.                                               *)

Becomes(r, state) == req' = [req EXCEPT ![r] = state]

\* The handler of r ends; its answer is on the way to the browser.
Reply(r, state, code) ==
    Becomes(r, [state EXCEPT !.pc = "reply", !.code = code])

UnchangedStores == UNCHANGED <<accounts, redis, issued>>

UnchangedBrowser == UNCHANGED <<jar, loggedOut>>

-----------------------------------------------------------------------------
(* POST /auth/login and /auth/signup.                                      *)

\* A known email with the right password goes on to issue a session; anything
\* else is 400, 401, 429 or 503.
SendLogin(r, u) ==
    LET state == [Idle EXCEPT !.kind = "login", !.user = u] IN
    /\ req[r].pc = "idle"
    /\ \/ u \in accounts /\ Becomes(r, [state EXCEPT !.pc = "save"])
       \/ Reply(r, state, "rejected")
    /\ UnchangedStores /\ UnchangedBrowser

\* CreateUser commits the account before any session exists; the unique index
\* on email turns a second account away with 409; 400, 429 and 503 as above.
SendSignup(r, u) ==
    LET state == [Idle EXCEPT !.kind = "signup", !.user = u] IN
    /\ req[r].pc = "idle"
    /\ \/ /\ u \notin accounts
          /\ accounts' = accounts \cup {u}
          /\ Becomes(r, [state EXCEPT !.pc = "save"])
       \/ Reply(r, state, "rejected") /\ UNCHANGED accounts
    /\ UNCHANGED <<redis, issued>> /\ UnchangedBrowser

-----------------------------------------------------------------------------
(* POST /auth/refresh: load, check the expiry, delete, save.               *)

\* A request that the rate limiter turns away (429), or a server without a session
\* service (503), changes nothing: the cookies stay.
SendRefresh(r) ==
    LET state == [Idle EXCEPT !.kind = "refresh", !.token = jar.refresh] IN
    /\ req[r].pc = "idle"
    /\ \/ Reply(r, state, "rejected")
       \/ jar.refresh = Nil /\ Reply(r, state, "AUTH_REQUIRED")
       \/ jar.refresh # Nil /\ Becomes(r, [state EXCEPT !.pc = "load"])
    /\ UnchangedStores /\ UnchangedBrowser

\* Faulty variant: the comparison with the clock is the wrong way round.
NotYetExpired(t) == redis[t] = "live"

\* session.ExpiresAt.Before(time.Now())
Expired(t) == redis[t] = "overdue"

\* Faulty variant: the session comes from a cache that deletions do not reach.
LoadCached(r) ==
    LET t == req[r].token IN
    /\ req[r].pc = "load" /\ ~Expired(t)
    /\ Becomes(r, [req[r] EXCEPT !.pc = "delete", !.user = issued[t].user])
    /\ UnchangedStores /\ UnchangedBrowser

Load(r) ==
    LET t == req[r].token IN
    /\ req[r].pc = "load"
    /\ \/ redis[t] = "gone" /\ Reply(r, req[r], "SESSION_EXPIRED")
       \/ /\ redis[t] # "gone" /\ Expired(t)
          /\ Becomes(r, [req[r] EXCEPT !.pc = "drop"])
       \/ /\ redis[t] # "gone" /\ ~Expired(t)
          /\ Becomes(r, [req[r] EXCEPT !.pc = "delete", !.user = issued[t].user])
    /\ UnchangedStores /\ UnchangedBrowser

\* The error of this deletion is ignored: it may not happen.
DropOverdue(r) ==
    /\ req[r].pc = "drop"
    /\ \E left \in {"gone", redis[req[r].token]} :
           redis' = [redis EXCEPT ![req[r].token] = left]
    /\ Reply(r, req[r], "SESSION_EXPIRED")
    /\ UNCHANGED <<accounts, issued>> /\ UnchangedBrowser

\* Faulty variant: the old session is left to its TTL.
LeaveOld(r) ==
    /\ req[r].pc = "delete"
    /\ Becomes(r, [req[r] EXCEPT !.pc = "save"])
    /\ UnchangedStores /\ UnchangedBrowser

\* DEL answers how many keys it removed; the code does not look.
DeleteOld(r) ==
    /\ req[r].pc = "delete"
    /\ redis' = [redis EXCEPT ![req[r].token] = "gone"]
    /\ Becomes(r, [req[r] EXCEPT !.pc = "save"])
    /\ UNCHANGED <<accounts, issued>> /\ UnchangedBrowser

\* generateOpaqueToken: a token nobody ever held.
Fresh(t) == redis[t] = "unused"

\* Faulty variant: the session is stored for the token, not for the user.
SessionOfToken(u, p) == [user |-> p, from |-> p]

NewSession(u, p) == [user |-> u, from |-> p]

Saved(r, t) ==
    /\ redis' = [redis EXCEPT ![t] = "live"]
    /\ issued' = [issued EXCEPT ![t] = NewSession(req[r].user, req[r].token)]

\* issueSession, the last step of login, signup and refresh.
Save(r, t) ==
    /\ req[r].pc = "save"
    /\ Fresh(t)
    /\ Saved(r, t)
    /\ Reply(r, [req[r] EXCEPT !.new = t], "ok")
    /\ UNCHANGED accounts /\ UnchangedBrowser

-----------------------------------------------------------------------------
(* POST /auth/logout.                                                      *)

\* Turned away before the handler, or by it, like a refresh.
SendLogout(r) ==
    LET state == [Idle EXCEPT !.kind = "logout", !.token = jar.refresh] IN
    /\ req[r].pc = "idle"
    /\ \/ Reply(r, state, "rejected")
       \/ jar.refresh = Nil /\ Reply(r, state, "signed_out")
       \/ jar.refresh # Nil /\ Becomes(r, [state EXCEPT !.pc = "revoke"])
    /\ UnchangedStores /\ UnchangedBrowser

Revoke(r) ==
    /\ req[r].pc = "revoke"
    /\ redis' = [redis EXCEPT ![req[r].token] = "gone"]
    /\ Reply(r, req[r], "signed_out")
    /\ UNCHANGED <<accounts, issued>> /\ UnchangedBrowser

-----------------------------------------------------------------------------
(* Failures of the stores.  A command that is reported as failed (timeout, *)
(* cancelled context) may have been executed.                              *)

\* The row is not inserted, nothing is read: 500 at the first statement.
FailEarly(r, kind) ==
    /\ req[r].pc = "idle"
    /\ Reply(r, [Idle EXCEPT !.kind = kind], "failed")
    /\ UnchangedStores /\ UnchangedBrowser

FailLoad(r) ==
    /\ req[r].pc = "load"
    /\ Reply(r, req[r], "failed")
    /\ UnchangedStores /\ UnchangedBrowser

FailDelete(r) ==
    /\ req[r].pc \in {"delete", "revoke"}
    /\ \E left \in {"gone", redis[req[r].token]} :
           redis' = [redis EXCEPT ![req[r].token] = left]
    /\ Reply(r, req[r], "failed")
    /\ UNCHANGED <<accounts, issued>> /\ UnchangedBrowser

FailSave(r) ==
    /\ req[r].pc = "save"
    /\ \/ UNCHANGED <<redis, issued>>
       \/ \E t \in Tokens : Fresh(t) /\ Saved(r, t)
    /\ Reply(r, req[r], "failed")
    /\ UNCHANGED accounts /\ UnchangedBrowser

Fail(r) ==
    \/ \E kind \in {"login", "signup"} : FailEarly(r, kind)
    \/ FailLoad(r) \/ FailDelete(r) \/ FailSave(r)

-----------------------------------------------------------------------------
(* The browser.                                                            *)

\* Faulty variant: only the access cookie is replaced.
SetAccessCookie(q) == [jar EXCEPT !.access = q.user]

SetAuthCookies(q) == [access |-> q.user, refresh |-> q.new]

\* ClearAuthCookies: after a logout, and after a refresh that failed for any
\* reason but a missing cookie.  A logout that fails leaves the cookies.
Clears(q) ==
    \/ q.code \in {"signed_out", "SESSION_EXPIRED"}
    \/ q.code = "failed" /\ q.kind = "refresh"

Deliver(r) ==
    LET q == req[r] IN
    /\ q.pc = "reply"
    /\ jar' = IF q.code = "ok" THEN SetAuthCookies(q)
              ELSE IF Clears(q) THEN NoCookies ELSE jar
    /\ loggedOut' = IF q.code = "signed_out" THEN loggedOut \cup ({q.token} \ {Nil})
                    ELSE loggedOut
    /\ Becomes(r, Idle)
    /\ UnchangedStores

\* The connection or the server process breaks at any moment: what the handler
\* has done stays done, and the browser learns nothing.
Lose(r) ==
    /\ req[r].pc # "idle"
    /\ Becomes(r, Idle)
    /\ UnchangedStores /\ UnchangedBrowser

\* The access cookie and the token in it expire.
AccessLapses ==
    /\ jar.access # Nil
    /\ jar' = [jar EXCEPT !.access = Nil]
    /\ UNCHANGED <<req, loggedOut>> /\ UnchangedStores

\* 24 hours after it was saved a session is overdue, then Redis evicts it.
SessionLapses(t) ==
    /\ redis[t] \in {"live", "overdue"}
    /\ redis' = [redis EXCEPT ![t] = IF @ = "live" THEN "overdue" ELSE "gone"]
    /\ UNCHANGED <<accounts, issued, req>> /\ UnchangedBrowser

\* The refresh cookie has the session's TTL, counted from its delivery, and
\* the access cookie a shorter one.
RefreshCookieLapses ==
    /\ jar.refresh # Nil /\ jar.access = Nil
    /\ redis[jar.refresh] \notin {"live", "unused"}
    /\ jar' = NoCookies
    /\ UNCHANGED <<req, loggedOut>> /\ UnchangedStores

-----------------------------------------------------------------------------

Send(r) ==
    \/ \E u \in Users : SendLogin(r, u) \/ SendSignup(r, u)
    \/ SendRefresh(r)
    \/ SendLogout(r)

Serve(r) ==
    \/ Load(r) \/ DropOverdue(r) \/ DeleteOld(r) \/ Revoke(r)
    \/ \E t \in Tokens : Save(r, t)

Next ==
    \/ \E r \in Requests : Send(r) \/ Serve(r) \/ Fail(r) \/ Deliver(r) \/ Lose(r)
    \/ \E t \in Tokens : SessionLapses(t)
    \/ AccessLapses
    \/ RefreshCookieLapses

Spec == Init /\ [][Next]_vars

-----------------------------------------------------------------------------
(* Properties.                                                             *)

TypeOK ==
    /\ accounts \subseteq Users
    /\ redis \in [Tokens -> TokenStates]
    /\ issued \in [Tokens -> Session]
    /\ jar \in Jar
    /\ req \in [Requests -> Request]
    /\ loggedOut \subseteq Tokens

\* "When a new refresh token is issued the previous one is invalid": a session
\* that any other was rotated from is gone, and so is one whose logout was
\* acknowledged, whatever overlaps, fails or is lost.
SpentTokensAreDead ==
    /\ \A t \in Tokens : issued[t].from # Nil => redis[issued[t].from] = "gone"
    /\ \A t \in loggedOut : redis[t] = "gone"

\* A session is never handed from one user to another: a rotated session has
\* the user of the one before it, all the way back to the sign-in, and the two
\* cookies of the browser are always those of one user with an account.
IdentityIsKept ==
    /\ \A t \in Tokens : redis[t] # "unused" => issued[t].user \in accounts
    /\ \A t \in Tokens : issued[t].from # Nil
                           => issued[t].user = issued[issued[t].from].user
    /\ jar.access # Nil => /\ jar.refresh # Nil
                           /\ jar.access = issued[jar.refresh].user

\* Whoever is told that the session has expired is told the truth, from the
\* answer's being written until it is read: its session cannot be used any
\* more.
ExpiredAnswersAreTrue ==
    \A r \in Requests : req[r].code = "SESSION_EXPIRED" => redis[req[r].token] # "live"

\* Refreshes do not overlap at the server.  Nothing in this module sees to that;
\* a page of the client does (AuthPage), two tabs do not.
OneRefreshAtATime ==
    \A r, s \in Requests : req[r].kind = "refresh" /\ req[s].kind = "refresh" => r = s

\* "Two concurrent refreshes with one refresh token: only the first that
\* succeeds is valid": a token is rotated into one session.
OneRotationPerToken ==
    \A s, t \in Tokens : issued[s].from # Nil /\ issued[s].from = issued[t].from
                           => s = t
=============================================================================
