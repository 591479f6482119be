--------------------------- MODULE AuthPageProofs ---------------------------
(***************************************************************************)
(* Proofs about AuthPage for every number of users, tokens, requests and   *)
(* calls.                                                                  *)
(*                                                                         *)
(* A page takes only steps of AuthSessions, so what is proved there holds  *)
(* here (PageIsABrowser).  It sees to it that its refreshes do not overlap *)
(* at the server (PageRefreshesOnce), which is what AuthSessions needs of  *)
(* its client for rotating a token once (PageRotatesOnce).                 *)
(***************************************************************************)
EXTENDS PageSignIns, AuthSessionsProofs

USE NilAssumption, BrokenAssumption

-----------------------------------------------------------------------------
(* Every step of the page is one of AuthSessions or leaves it alone.       *)

LEMMA PageStep == [PageNext]_allVars => [Next]_vars
  <1> SUFFICES ASSUME [PageNext]_allVars PROVE [Next]_vars
    OBVIOUS
  <1>1. ASSUME NEW c \in Calls, Boot(c) \/ CallApi(c) \/ CarryOut(c)
        PROVE  UNCHANGED vars
    BY <1>1 DEF Boot, CallApi, CarryOut
  <1>2. ASSUME NEW c \in Calls, Settle(c)
        PROVE  UNCHANGED vars \/ \E r \in Requests : Send(r)
    BY <1>2 DEF Settle, Answered, Unauthorized, RefreshSession, UnauthorizedAgain,
                Rejected, Send
  <1>3. ASSUME SettleRefresh
        PROVE  UNCHANGED vars \/ \E r \in Requests : Deliver(r)
    BY <1>3 DEF SettleRefresh, RefreshAnswered, RefreshRejected
  <1>4. ASSUME SignIn \/ SignOut
        PROVE  \E r \in Requests : Send(r) \/ Fail(r)
    BY <1>4 DEF SignIn, SignOut, Send, Fail
  <1>5. ASSUME SignInAnswered \/ SignInRejected \/ SignOutAnswered \/ SignOutRejected
        PROVE  UNCHANGED vars \/ \E r \in Requests : Deliver(r)
    BY <1>5 DEF SignInAnswered, SignInRejected, SignOutAnswered, SignOutRejected
  <1>6. ASSUME NEW r \in Requests, Handle(r) \/ Unheard(r)
        PROVE  Serve(r) \/ Fail(r) \/ Lose(r)
    BY <1>6 DEF Handle, Unheard, Fail
  <1>7. Reload \/ UNCHANGED allVars => UNCHANGED vars
    BY DEF Reload, allVars
  <1>8. Clock => (\E t \in Tokens : SessionLapses(t)) \/ AccessLapses \/ RefreshCookieLapses
    BY DEF Clock
  <1> QED
    BY <1>1, <1>2, <1>3, <1>4, <1>5, <1>6, <1>7, <1>8 DEF PageNext, Next

\* The page, its calls, its shared refresh and its forms drive the server as
\* AuthSessions allows it: every theorem about AuthSessions holds for the page.
THEOREM PageIsABrowser == PageSpec => Spec
  <1>1. PageInit => Init
    BY DEF PageInit
  <1> QED
    BY <1>1, PageStep, PTL DEF PageSpec, Spec

-----------------------------------------------------------------------------
(* Who waits for what.                                                     *)

PromiseOK ==
    /\ refreshPromise \in Requests \cup {Nil, Broken}
    /\ submitting \in Requests \cup {Nil}
    /\ loggingOut \in Requests \cup {Nil}
    /\ submitting \in Requests => req[submitting].kind \in {"login", "signup"}
    /\ loggingOut \in Requests => req[loggingOut].kind = "logout"
    /\ refreshPromise \in Requests => req[refreshPromise].kind = "refresh"

\* As long as the promise has not rejected it knows the refresh there is; when
\* it has, there may be one that nobody hears, and no other is sent.
RefreshKnown ==
    /\ refreshPromise # Broken
         => \A r \in Requests : req[r].kind = "refresh" => r = refreshPromise
    /\ OneRefreshAtATime

PromiseInv ==
    /\ \A r \in Requests : req[r].pc = "idle" => req[r].kind = "none"
    /\ PromiseOK
    /\ RefreshKnown

\* What the server and the network do to a request that is not idle.
Progress(r) ==
    /\ Moves(r)
    /\ req[r].pc # "idle" /\ req'[r].pc # "idle" /\ req'[r].kind = req[r].kind

LEMMA ServerProgress ==
  ASSUME IInv, NEW r \in Requests, Serve(r) \/ FailLoad(r) \/ FailDelete(r) \/ FailSave(r)
  PROVE  Progress(r)
  <1> USE DEF Progress, Moves, Becomes, Reply, Request
  <1>1. req \in [Requests -> Request] /\ req[r] \in Request
    BY DEF IInv, TypeOK
  <1>2. ASSUME Load(r) PROVE Progress(r)
    <2>1. req[r].pc = "load"
      BY <1>2 DEF Load
    <2>2. CASE Reply(r, req[r], "SESSION_EXPIRED")
      BY <1>1, <2>1, <2>2
    <2>3. CASE Becomes(r, [req[r] EXCEPT !.pc = "drop"])
      BY <1>1, <2>1, <2>3
    <2>4. CASE Becomes(r, [req[r] EXCEPT !.pc = "delete", !.user = issued[req[r].token].user])
      BY <1>1, <2>1, <2>4
    <2> QED
      BY <1>2, <2>2, <2>3, <2>4 DEF Load
  <1>3. ASSUME DropOverdue(r) \/ DeleteOld(r) \/ Revoke(r) PROVE Progress(r)
    <2>1. CASE DropOverdue(r)
      BY <1>1, <2>1 DEF DropOverdue
    <2>2. CASE DeleteOld(r)
      BY <1>1, <2>2 DEF DeleteOld
    <2>3. CASE Revoke(r)
      BY <1>1, <2>3 DEF Revoke
    <2> QED
      BY <1>3, <2>1, <2>2, <2>3
  <1>4. ASSUME NEW t \in Tokens, Save(r, t) PROVE Progress(r)
    BY <1>1, <1>4 DEF Save
  <1>5. ASSUME FailLoad(r) \/ FailDelete(r) \/ FailSave(r) PROVE Progress(r)
    <2>1. req[r].pc # "idle" /\ Reply(r, req[r], "failed")
      BY <1>5 DEF FailLoad, FailDelete, FailSave
    <2> QED
      BY <1>1, <2>1
  <1> QED
    BY <1>2, <1>3, <1>4, <1>5 DEF Serve

LEMMA ProgressKeeps ==
  ASSUME IInv, PromiseInv, NEW r \in Requests, Progress(r),
         UNCHANGED <<refreshPromise, submitting, loggingOut>>
  PROVE  PromiseInv'
  BY DEF Progress, Moves, PromiseInv, PromiseOK, RefreshKnown, OneRefreshAtATime

\* An idle request is sent.
Sends(r, kinds) ==
    /\ Moves(r)
    /\ req[r].pc = "idle" /\ req'[r].pc # "idle" /\ req'[r].kind \in kinds

LEMMA SendsKind ==
  ASSUME IInv, NEW r \in Requests
  PROVE  /\ SendRefresh(r) => Sends(r, {"refresh"})
         /\ SendLogout(r) => Sends(r, {"logout"})
         /\ \A u \in Users : SendLogin(r, u) => Sends(r, {"login", "signup"})
         /\ \A u \in Users : SendSignup(r, u) => Sends(r, {"login", "signup"})
         /\ \A k \in {"login", "signup"} : FailEarly(r, k) => Sends(r, {"login", "signup"})
  <1>1. req \in [Requests -> Request]
    BY DEF IInv, TypeOK
  <1>2. ASSUME NEW state, NEW kinds, Becomes(r, state), req[r].pc = "idle",
               state.pc # "idle", state.kind \in kinds
        PROVE  Sends(r, kinds)
    BY <1>1, <1>2 DEF Sends, Moves, Becomes
  <1>3. ASSUME SendRefresh(r) PROVE Sends(r, {"refresh"})
    <2> DEFINE state == [Idle EXCEPT !.kind = "refresh", !.token = jar.refresh]
    <2>1. /\ req[r].pc = "idle"
          /\ \/ Reply(r, state, "rejected") \/ Reply(r, state, "AUTH_REQUIRED")
             \/ Becomes(r, [state EXCEPT !.pc = "load"])
      BY <1>3 DEF SendRefresh
    <2>2. ASSUME NEW code
          PROVE  /\ [state EXCEPT !.pc = "reply", !.code = code].pc = "reply"
                 /\ [state EXCEPT !.pc = "reply", !.code = code].kind = "refresh"
      BY DEF Idle
    <2>3. /\ [state EXCEPT !.pc = "load"].pc = "load"
          /\ [state EXCEPT !.pc = "load"].kind = "refresh"
      BY DEF Idle
    <2> HIDE DEF state
    <2>4. ASSUME NEW code, Reply(r, state, code) PROVE Sends(r, {"refresh"})
      BY <1>2, <2>1, <2>2, <2>4 DEF Reply
    <2>5. CASE Becomes(r, [state EXCEPT !.pc = "load"])
      BY <1>2, <2>1, <2>3, <2>5
    <2> QED
      BY <2>1, <2>4, <2>5
  <1>4. ASSUME SendLogout(r) PROVE Sends(r, {"logout"})
    <2> DEFINE state == [Idle EXCEPT !.kind = "logout", !.token = jar.refresh]
    <2>1. /\ req[r].pc = "idle"
          /\ \/ Reply(r, state, "rejected") \/ Reply(r, state, "signed_out")
             \/ Becomes(r, [state EXCEPT !.pc = "revoke"])
      BY <1>4 DEF SendLogout
    <2>2. ASSUME NEW code
          PROVE  /\ [state EXCEPT !.pc = "reply", !.code = code].pc = "reply"
                 /\ [state EXCEPT !.pc = "reply", !.code = code].kind = "logout"
      BY DEF Idle
    <2>3. /\ [state EXCEPT !.pc = "revoke"].pc = "revoke"
          /\ [state EXCEPT !.pc = "revoke"].kind = "logout"
      BY DEF Idle
    <2> HIDE DEF state
    <2>4. ASSUME NEW code, Reply(r, state, code) PROVE Sends(r, {"logout"})
      BY <1>2, <2>1, <2>2, <2>4 DEF Reply
    <2>5. CASE Becomes(r, [state EXCEPT !.pc = "revoke"])
      BY <1>2, <2>1, <2>3, <2>5
    <2> QED
      BY <2>1, <2>4, <2>5
  <1> USE DEF Sends, Moves, Becomes, Reply, Idle
  <1>5. ASSUME NEW u \in Users, SendLogin(r, u) PROVE Sends(r, {"login", "signup"})
    BY <1>1, <1>5 DEF SendLogin
  <1>6. ASSUME NEW u \in Users, SendSignup(r, u) PROVE Sends(r, {"login", "signup"})
    BY <1>1, <1>6, ZenonT(30) DEF SendSignup
  <1>7. ASSUME NEW k \in {"login", "signup"}, FailEarly(r, k)
        PROVE  Sends(r, {"login", "signup"})
    BY <1>1, <1>7 DEF FailEarly
  <1> HIDE DEF Sends, Moves, Becomes, Reply, Idle
  <1> QED
    BY <1>3, <1>4, <1>5, <1>6, <1>7

\* A request comes to its end.
Ends(r) == Moves(r) /\ req'[r].pc = "idle" /\ req'[r].kind = "none"

LEMMA EndsKind ==
  ASSUME IInv, NEW r \in Requests, Deliver(r) \/ Lose(r)
  PROVE  Ends(r)
  BY Moved DEF Ends, Deliver, Lose, Idle

-----------------------------------------------------------------------------
(* Every action keeps the page's bookkeeping.                              *)

\* Steps that touch no request and no promise.
LEMMA NothingSent ==
  ASSUME PromiseInv, UNCHANGED <<req, refreshPromise, submitting, loggingOut>>
  PROVE  PromiseInv'
  BY DEF PromiseInv, PromiseOK, RefreshKnown, OneRefreshAtATime

LEMMA RefreshSent ==
  ASSUME IInv, PromiseInv, refreshPromise = Nil, NEW r \in Requests, SendRefresh(r),
         refreshPromise' = r, UNCHANGED <<submitting, loggingOut>>
  PROVE  PromiseInv'
  <1>1. Sends(r, {"refresh"})
    BY SendsKind
  <1>2. \A q \in Requests : req[q].kind # "refresh"
    BY DEF PromiseInv, RefreshKnown
  <1> QED
    BY <1>1, <1>2 DEF Sends, Moves, PromiseInv, PromiseOK, RefreshKnown, OneRefreshAtATime

\* The shared promise settles.
LEMMA RefreshEnds ==
  ASSUME IInv, PromiseInv, SettleRefresh
  PROVE  PromiseInv'
  <1>1. CASE RefreshRejected
    BY <1>1 DEF RefreshRejected, vars, PromiseInv, PromiseOK, RefreshKnown, OneRefreshAtATime
  <1>2. CASE RefreshAnswered
    <2>1. /\ refreshPromise \in Requests /\ Ends(refreshPromise) /\ refreshPromise' = Nil
          /\ UNCHANGED <<submitting, loggingOut>>
      BY <1>2, EndsKind DEF RefreshAnswered
    <2> QED
      BY <2>1 DEF Ends, Moves, PromiseInv, PromiseOK, RefreshKnown, OneRefreshAtATime
  <1> QED
    BY <1>1, <1>2 DEF SettleRefresh

LEMMA CallsSettle ==
  ASSUME IInv, PromiseInv, NEW c \in Calls, Settle(c)
  PROVE  PromiseInv'
  <1>1. CASE Answered(c) \/ UnauthorizedAgain(c) \/ Rejected(c)
    BY <1>1, NothingSent DEF Answered, UnauthorizedAgain, Rejected, vars
  <1>2. CASE Unauthorized(c)
    <2>1. CASE refreshPromise # Nil
      <3>1. UNCHANGED <<req, refreshPromise, submitting, loggingOut>>
        BY <1>2, <2>1 DEF Unauthorized, RefreshSession, vars
      <3> QED
        BY <3>1, NothingSent
    <2>2. CASE refreshPromise = Nil
      BY <1>2, <2>2, RefreshSent DEF Unauthorized, RefreshSession
    <2> QED
      BY <2>1, <2>2
  <1> QED
    BY <1>1, <1>2 DEF Settle

LEMMA FormsStep ==
  ASSUME IInv, PromiseInv,
         \/ SignIn \/ SignInAnswered \/ SignInRejected
         \/ SignOut \/ SignOutAnswered \/ SignOutRejected
  PROVE  PromiseInv'
  <1> USE DEF Moves, PromiseInv, PromiseOK, RefreshKnown, OneRefreshAtATime
  <1>1. CASE SignIn
    <2>1. PICK r \in Requests :
             /\ \/ \E u \in Users : SendLogin(r, u) \/ SendSignup(r, u)
                \/ \E kind \in {"login", "signup"} : FailEarly(r, kind)
             /\ submitting' = r
      BY <1>1 DEF SignIn
    <2>2. Sends(r, {"login", "signup"})
      BY <2>1, SendsKind
    <2>3. UNCHANGED <<refreshPromise, loggingOut>>
      BY <1>1 DEF SignIn
    <2> QED
      BY <2>1, <2>2, <2>3 DEF Sends
  <1>2. CASE SignOut
    <2>1. PICK r \in Requests : SendLogout(r) /\ loggingOut' = r
      BY <1>2 DEF SignOut
    <2>2. Sends(r, {"logout"})
      BY <2>1, SendsKind
    <2>3. UNCHANGED <<refreshPromise, submitting>>
      BY <1>2 DEF SignOut
    <2> QED
      BY <2>1, <2>2, <2>3 DEF Sends
  <1>3. CASE SignInAnswered
    <2>1. /\ submitting \in Requests /\ Ends(submitting) /\ submitting' = Nil
          /\ UNCHANGED <<refreshPromise, loggingOut>>
      BY <1>3, EndsKind DEF SignInAnswered
    <2> QED
      BY <2>1 DEF Ends
  <1>4. CASE SignOutAnswered
    <2>1. /\ loggingOut \in Requests /\ Ends(loggingOut) /\ loggingOut' = Nil
          /\ UNCHANGED <<refreshPromise, submitting>>
      BY <1>4, EndsKind DEF SignOutAnswered
    <2> QED
      BY <2>1 DEF Ends
  <1>5. CASE SignInRejected \/ SignOutRejected
    BY <1>5 DEF SignInRejected, SignOutRejected, vars
  <1> QED
    BY <1>1, <1>2, <1>3, <1>4, <1>5

\* Only a request that nobody waits for is given up.
LEMMA UnheardStep ==
  ASSUME IInv, PromiseInv, NEW r \in Requests, Unheard(r)
  PROVE  PromiseInv'
  <1>1. /\ Ends(r) /\ r \notin {refreshPromise, submitting, loggingOut}
        /\ UNCHANGED <<refreshPromise, submitting, loggingOut>>
    BY EndsKind DEF Unheard, pageVars
  <1> QED
    BY <1>1 DEF Ends, Moves, PromiseInv, PromiseOK, RefreshKnown, OneRefreshAtATime

LEMMA PromiseNext == IInv /\ PromiseInv /\ [PageNext]_allVars => PromiseInv'
  <1> SUFFICES ASSUME IInv, PromiseInv, [PageNext]_allVars PROVE PromiseInv'
    OBVIOUS
  <1>1. ASSUME NEW c \in Calls, Boot(c) \/ CallApi(c) \/ CarryOut(c) PROVE PromiseInv'
    BY <1>1, NothingSent DEF Boot, CallApi, CarryOut, vars
  <1>2. CASE Clock \/ UNCHANGED allVars
    BY <1>2, NothingSent DEF Clock, SessionLapses, AccessLapses, RefreshCookieLapses,
                             UnchangedBrowser, allVars, pageVars, vars
  <1>3. CASE Reload
    BY <1>3 DEF Reload, vars, PromiseInv, PromiseOK, RefreshKnown, OneRefreshAtATime
  <1>4. ASSUME NEW r \in Requests, Handle(r) PROVE PromiseInv'
    BY <1>4, ServerProgress, ProgressKeeps DEF Handle, pageVars
  <1> QED
    BY <1>1, <1>2, <1>3, <1>4, CallsSettle, RefreshEnds, FormsStep, UnheardStep DEF PageNext

THEOREM PageInvariance == PageSpec => [](IInv /\ PromiseInv)
  <1>1. PageInit => PromiseInv
    BY DEF PageInit, Init, Idle, PromiseInv, PromiseOK, RefreshKnown, OneRefreshAtATime
  <1>2. IInv /\ PromiseInv /\ [PageNext]_allVars => PromiseInv'
    BY PromiseNext
  <1> QED
    BY <1>1, <1>2, PageIsABrowser, Invariance, PTL DEF PageSpec

\* The refreshes of a page never overlap at the server, however its calls, its
\* sign-ins and its rejected promises interleave with handlers that run on.
THEOREM PageRefreshesOnce == PageSpec => []OneRefreshAtATime
  <1>1. PromiseInv => OneRefreshAtATime
    BY DEF PromiseInv, RefreshKnown
  <1> QED
    BY <1>1, PageInvariance, PTL

\* Therefore a page rotates every refresh token at most once, which two tabs do
\* not: the first to save leaves a session that nobody uses.
THEOREM PageRotatesOnce == PageSpec => []OneRotationPerToken
  BY PageIsABrowser, PageRefreshesOnce, OneRefreshRotatesOnce, PTL

-----------------------------------------------------------------------------
(* Calls.                                                                  *)

\* A call that is going to send its request, or to send it again, has not been
\* carried out.
NotTwice(k) == k.ran <= 1 /\ (k.pc \in {"sent", "waiting"} => k.ran = 0)

CallInv ==
    /\ authStatus \in {"checking", "authenticated", "unauthenticated"}
    /\ call \in [Calls -> Call]
    /\ \A c \in Calls : NotTwice(call[c])
    /\ (\E c \in Calls : call[c].pc = "waiting") <=> refreshPromise \in Requests

LEMMA NoCallOK == NoCall \in Call /\ NotTwice(NoCall) /\ NoCall.pc = "idle"
  BY DEF NoCall, Call, NotTwice

\* What the page makes of a call's record is a call's record.
LEMMA CallRecords ==
  ASSUME NEW k \in Call, NEW a \in Users \cup {Nil}
  PROVE  /\ [k EXCEPT !.pc = "sent", !.try = 2, !.cookie = a] \in Call
         /\ [k EXCEPT !.pc = "waiting", !.cookie = Nil] \in Call
         /\ \A kind \in {"api", "me"} :
               [k EXCEPT !.pc = "sent", !.kind = kind, !.cookie = a] \in Call
         /\ k.ran = 0 => [k EXCEPT !.pc = "done", !.ran = @ + 1] \in Call
  <1>1. [k EXCEPT !.pc = "sent", !.try = 2, !.cookie = a] \in Call
    BY DEF Call
  <1>2. [k EXCEPT !.pc = "waiting", !.cookie = Nil] \in Call
    BY DEF Call
  <1>3. ASSUME NEW kind \in {"api", "me"}
        PROVE  [k EXCEPT !.pc = "sent", !.kind = kind, !.cookie = a] \in Call
    BY DEF Call
  <1>4. ASSUME k.ran = 0 PROVE [k EXCEPT !.pc = "done", !.ran = @ + 1] \in Call
    <2>1. [k EXCEPT !.pc = "done", !.ran = @ + 1] = [k EXCEPT !.pc = "done", !.ran = 1]
      BY <1>4
    <2>2. 1 \in 0..2
      OBVIOUS
    <2> QED
      BY <2>1, <2>2 DEF Call
  <1> QED
    BY <1>1, <1>2, <1>3, <1>4

\* Calls that do not wait for a refresh end.
LEMMA CallsEnd ==
  ASSUME CallInv, NEW ended \in SUBSET Calls, \A c \in ended : call[c].pc # "waiting",
         call' = Without(ended), UNCHANGED refreshPromise,
         authStatus' \in {"checking", "authenticated", "unauthenticated"}
  PROVE  CallInv'
  BY NoCallOK DEF CallInv, Without, NotTwice

\* All calls that wait for a refresh end with it.
LEMMA WaitingEnds ==
  ASSUME CallInv, call' = Without(Waiting), refreshPromise' \notin Requests,
         authStatus' \in {"checking", "authenticated", "unauthenticated"}
  PROVE  CallInv'
  BY NoCallOK DEF CallInv, Without, Waiting, NotTwice

LEMMA CallOnItsWay ==
  ASSUME IInv, CallInv, NEW c \in Calls, Boot(c) \/ CallApi(c) \/ CarryOut(c)
  PROVE  CallInv'
  <1>1. jar.access \in Users \cup {Nil}
    BY DEF IInv, TypeOK, Jar
  <1>2. UNCHANGED <<refreshPromise, authStatus>>
    BY DEF Boot, CallApi, CarryOut
  <1>3. ASSUME NEW kind \in {"api", "me"}, Fetch(c, kind), call[c].pc = "idle"
        PROVE  CallInv'
    <2>1. [NoCall EXCEPT !.pc = "sent", !.kind = kind, !.cookie = jar.access] \in Call
      BY <1>1, NoCallOK, CallRecords
    <2> QED
      BY <1>2, <1>3, <2>1 DEF Fetch, CallInv, NoCall, NotTwice
  <1>4. CASE CarryOut(c)
    <2>1. call[c] \in Call /\ call[c].ran = 0
      BY <1>4 DEF CarryOut, CallInv, NotTwice
    <2>2. [call[c] EXCEPT !.pc = "done", !.ran = @ + 1] \in Call
      BY <1>1, <2>1, CallRecords
    <2> QED
      BY <1>2, <1>4, <2>1, <2>2 DEF CarryOut, CallInv, Call, NotTwice
  <1> QED
    BY <1>3, <1>4 DEF Boot, CallApi

LEMMA CallSettles ==
  ASSUME CallInv, NEW c \in Calls, Settle(c)
  PROVE  CallInv'
  <1>1. ASSUME End({c}), call[c].pc # "waiting", UNCHANGED refreshPromise PROVE CallInv'
    <2>1. authStatus' \in {"checking", "authenticated", "unauthenticated"}
      BY <1>1 DEF End, CallInv
    <2> QED
      BY <1>1, <2>1, CallsEnd DEF End
  <1>2. CASE UnauthorizedAgain(c) \/ Rejected(c)
    BY <1>1, <1>2 DEF UnauthorizedAgain, Rejected
  <1>3. CASE Answered(c)
    <2>1. CASE End({c})
      BY <1>1, <1>3, <2>1 DEF Answered
    <2>2. CASE /\ call' = Without({c})
               /\ authStatus' = IF call[c].kind = "me" THEN "authenticated" ELSE authStatus
      <3>1. authStatus' \in {"checking", "authenticated", "unauthenticated"}
        BY <2>2 DEF CallInv
      <3> QED
        BY <1>3, <2>2, <3>1, CallsEnd DEF Answered
    <2> QED
      BY <1>3, <2>1, <2>2 DEF Answered
  <1>4. CASE Unauthorized(c)
    <2>1. ASSUME Wait(c), refreshPromise' \in Requests PROVE CallInv'
      <3>1. call[c] \in Call /\ [call[c] EXCEPT !.pc = "waiting", !.cookie = Nil] \in Call
        BY CallRecords DEF CallInv
      <3>2. call[c].ran = 0
        BY <1>4 DEF Unauthorized, CallInv, NotTwice
      <3> QED
        BY <2>1, <3>1, <3>2 DEF Wait, CallInv, Call, NotTwice
    <2> QED
      BY <1>1, <1>4, <2>1 DEF Unauthorized, RefreshSession
  <1> QED
    BY <1>2, <1>3, <1>4 DEF Settle

\* When the shared refresh settles, every call that waited for it goes on or ends.
LEMMA RefreshSettles ==
  ASSUME IInv', CallInv, SettleRefresh
  PROVE  CallInv'
  <1>1. refreshPromise' \notin Requests
    BY DEF SettleRefresh, RefreshAnswered, RefreshRejected
  <1>2. CASE End(Waiting)
    BY <1>1, <1>2, WaitingEnds DEF End, CallInv
  <1>3. CASE call' = Without(Waiting) /\ authStatus' = "unauthenticated"
    BY <1>1, <1>3, WaitingEnds
  <1>4. CASE /\ call' = [c \in Calls |->
                           IF c \in Waiting
                           THEN [call[c] EXCEPT !.pc = "sent", !.try = 2,
                                                !.cookie = jar'.access]
                           ELSE call[c]]
             /\ UNCHANGED authStatus
    <2>1. jar'.access \in Users \cup {Nil}
      BY DEF IInv, TypeOK, Jar
    <2>2. \A c \in Calls : [call[c] EXCEPT !.pc = "sent", !.try = 2,
                                           !.cookie = jar'.access] \in Call
      BY <2>1, CallRecords DEF CallInv
    <2>3. \A c \in Calls : call'[c].pc # "waiting" /\ NotTwice(call'[c])
      BY <1>4, <2>2 DEF CallInv, Waiting, NotTwice, Call
    <2> QED
      BY <1>1, <1>4, <2>2, <2>3 DEF CallInv, NotTwice
  <1> QED
    BY <1>2, <1>3, <1>4 DEF SettleRefresh, RefreshAnswered, RefreshRejected

LEMMA CallNext == IInv /\ IInv' /\ CallInv /\ [PageNext]_allVars => CallInv'
  <1> SUFFICES ASSUME IInv, IInv', CallInv, [PageNext]_allVars PROVE CallInv'
    OBVIOUS
  <1>1. ASSUME \/ SignIn \/ SignInAnswered \/ SignInRejected
               \/ SignOut \/ SignOutAnswered \/ SignOutRejected
        PROVE  /\ UNCHANGED <<refreshPromise, call>>
               /\ authStatus' \in {"authenticated", "unauthenticated", authStatus}
    BY <1>1 DEF SignIn, SignInAnswered, SignInRejected, SignOut, SignOutAnswered,
                SignOutRejected
  <1>2. ASSUME \/ \E r \in Requests : Handle(r) \/ Unheard(r)
               \/ Clock \/ UNCHANGED allVars
        PROVE  UNCHANGED <<refreshPromise, call, authStatus>>
    BY <1>2 DEF Handle, Unheard, Clock, allVars, pageVars
  <1>3. CASE Reload
    BY <1>3, NoCallOK DEF Reload, CallInv
  <1>4. ASSUME UNCHANGED <<refreshPromise, call>>,
               authStatus' \in {"authenticated", "unauthenticated", authStatus}
        PROVE  CallInv'
    BY <1>4 DEF CallInv, NotTwice
  <1> QED
    BY <1>1, <1>2, <1>3, <1>4, CallOnItsWay, CallSettles, RefreshSettles DEF PageNext

THEOREM CallInvariance == PageSpec => []CallInv
  <1>1. PageInit => CallInv
    BY NoCallOK DEF PageInit, CallInv
  <1> QED
    BY <1>1, CallNext, PageInvariance, PTL DEF PageSpec

\* Promises, forms, calls, stores and handlers keep their types.
THEOREM PageTypeCorrect == PageSpec => []PageTypeOK
  <1>1. IInv /\ PromiseInv /\ CallInv => PageTypeOK
    BY DEF IInv, PromiseInv, PromiseOK, CallInv, PageTypeOK
  <1> QED
    BY <1>1, PageInvariance, CallInvariance, PTL

\* However calls join a refresh and however it ends, no call waits for a refresh
\* that is over, and no refresh is awaited by nobody.
THEOREM NobodyLeftBehind == PageSpec => []WaitersHaveARefresh
  <1>1. PromiseInv /\ CallInv => WaitersHaveARefresh
    BY DEF PromiseInv, PromiseOK, CallInv, WaitersHaveARefresh, Waiting
  <1> QED
    BY <1>1, PageInvariance, CallInvariance, PTL

\* A retry never repeats what the server has carried out.
THEOREM NothingRepeated == PageSpec => []CarriedOutOnce
  <1>1. CallInv => CarriedOutOnce
    BY DEF CallInv, NotTwice, CarriedOutOnce
  <1> QED
    BY <1>1, CallInvariance, PTL

-----------------------------------------------------------------------------
(* The page keeps the ledger.                                              *)

\* The history has an entry for every token.
EveryTokenDescends == signIn = [t \in Tokens |-> signIn[t]]

LEMMA WatchedPageStep ==
  EveryTokenDescends /\ [PageNext /\ Descend]_<<allVars, signIn>>
     => EveryTokenDescends' /\ [Next /\ Descend]_<<vars, signIn>>
  <1> SUFFICES ASSUME EveryTokenDescends, [PageNext /\ Descend]_<<allVars, signIn>>
               PROVE  EveryTokenDescends' /\ [Next /\ Descend]_<<vars, signIn>>
    OBVIOUS
  <1>1. CASE UNCHANGED <<allVars, signIn>>
    BY <1>1 DEF allVars, EveryTokenDescends
  <1>2. CASE PageNext /\ Descend
    <2>1. EveryTokenDescends'
      BY <1>2 DEF Descend, EveryTokenDescends
    <2>2. CASE Next
      BY <1>2, <2>1, <2>2
    <2>3. CASE UNCHANGED vars
      <3>1. redis' = redis
        BY <2>3 DEF vars
      <3>2. signIn' = [t \in Tokens |-> signIn[t]]
        BY <1>2, <3>1 DEF Descend
      <3> QED
        BY <2>1, <2>3, <3>2 DEF EveryTokenDescends
    <2> QED
      BY <1>2, <2>2, <2>3, PageStep
  <1> QED
    BY <1>1, <1>2

\* One page in the browser: whatever its calls, forms and rejected promises do,
\* each of its sign-ins has one usable session at a time, which nobody but a
\* refresh that found it usable replaces.
THEOREM PageKeepsLedger == PageSignInSpec => ImplementsLedger
  <1>1. PageInit /\ NobodySignedIn => Init /\ NobodySignedIn /\ EveryTokenDescends
    BY DEF PageInit, NobodySignedIn, EveryTokenDescends
  <1>2. PageSignInSpec => SignInSpec
    BY <1>1, WatchedPageStep, PTL DEF PageSignInSpec, SignInSpec
  <1>3. [PageNext /\ Descend]_<<allVars, signIn>> => [PageNext]_allVars
    OBVIOUS
  <1>4. PageSignInSpec => PageSpec
    BY <1>3, PTL DEF PageSignInSpec, PageSpec
  <1> QED
    BY <1>2, <1>4, PageRefreshesOnce, ServiceKeepsLedger, PTL

=============================================================================
