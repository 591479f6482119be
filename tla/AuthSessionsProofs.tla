------------------------- MODULE AuthSessionsProofs -------------------------
(***************************************************************************)
(* Proofs about AuthSessions for every number of users, tokens and         *)
(* overlapping requests.                                                   *)
(*                                                                         *)
(* The stores only grow: an account stays, a saved session keeps its user  *)
(* and its predecessor, and a token only moves from unused over live and   *)
(* overdue to gone (StoresGrow).  What a handler learned from the stores   *)
(* before its last step therefore stays true while others run, as far as   *)
(* it is stated in those terms (HandlerOK), and that is all the next step  *)
(* needs.  IInv adds the handlers' knowledge to the properties.            *)
(***************************************************************************)
EXTENDS Logouts, TLAPS

USE NilAssumption

\* A token that can never be used again.
Over(t) == redis[t] \in {"overdue", "gone"}

\* What a handler knows at each stage, and what its answer says.
HandlerOK(q) ==
    /\ q.token # Nil => redis[q.token] # "unused"
    /\ q.pc \in {"load", "drop", "delete", "revoke"} => q.token # Nil
    /\ q.pc # "reply" => q.code = "none"
    /\ q.pc = "drop" => Over(q.token)
    /\ q.pc = "delete" => q.user = issued[q.token].user
    /\ q.pc = "save" => /\ q.user \in accounts
                        /\ q.token # Nil => /\ redis[q.token] = "gone"
                                            /\ q.user = issued[q.token].user
    /\ q.code = "ok" => /\ q.new # Nil
                        /\ redis[q.new] # "unused"
                        /\ q.user = issued[q.new].user
    /\ q.code = "SESSION_EXPIRED" => q.token # Nil /\ Over(q.token)
    /\ q.code = "signed_out" /\ q.token # Nil => redis[q.token] = "gone"

\* What the stores and the cookie jar say.
StoresOK ==
    /\ \A t \in Tokens : redis[t] = "unused" => issued[t] = NoSession
    /\ \A t \in Tokens : redis[t] # "unused" => issued[t].user \in accounts
    /\ \A t \in Tokens : issued[t].from # Nil
                           => /\ redis[issued[t].from] = "gone"
                              /\ issued[t].user = issued[issued[t].from].user

BrowserOK ==
    /\ \A t \in loggedOut : redis[t] = "gone"
    /\ jar.refresh # Nil => redis[jar.refresh] # "unused"
    /\ jar.access # Nil => /\ jar.refresh # Nil
                           /\ jar.access = issued[jar.refresh].user

IInv ==
    /\ TypeOK
    /\ StoresOK
    /\ BrowserOK
    /\ \A r \in Requests : HandlerOK(req[r])

\* What no step ever does to the stores.
StoresGrow ==
    /\ accounts \subseteq accounts'
    /\ \A t \in Tokens :
          /\ redis[t] # "unused" => redis'[t] # "unused" /\ issued'[t] = issued[t]
          /\ Over(t) => Over(t)'
          /\ redis[t] = "gone" => redis'[t] = "gone"

LEMMA IdleIsFine == Idle \in Request /\ HandlerOK(Idle)
  BY DEF Idle, Request, Stages, Kinds, Codes, HandlerOK

LEMMA InitIInv == Init => IInv
  <1> SUFFICES ASSUME Init PROVE IInv
    OBVIOUS
  <1>1. TypeOK
    <2>1. NoSession \in Session /\ NoCookies \in Jar /\ "unused" \in TokenStates
      BY DEF NoSession, Session, NoCookies, Jar, TokenStates
    <2> QED
      BY <2>1, IdleIsFine DEF Init, TypeOK
  <1>2. StoresOK
    BY DEF Init, StoresOK, NoSession
  <1>3. BrowserOK
    BY DEF Init, BrowserOK, NoCookies
  <1>4. \A r \in Requests : HandlerOK(req[r])
    BY IdleIsFine DEF Init
  <1> QED
    BY <1>1, <1>2, <1>3, <1>4 DEF IInv

\* What a handler knows stays true while the stores grow.
LEMMA KnowledgeLasts ==
  ASSUME TypeOK, StoresGrow, NEW q \in Request, HandlerOK(q)
  PROVE  HandlerOK(q)'
  BY DEF TypeOK, StoresGrow, HandlerOK, Request, Over

\* The browser's cookies stay valid while the stores grow.
LEMMA BrowserLasts ==
  ASSUME TypeOK, StoresGrow, BrowserOK, UNCHANGED <<jar, loggedOut>>
  PROVE  BrowserOK'
  BY DEF TypeOK, StoresGrow, BrowserOK, Jar

\* A step of one handler preserves the knowledge of all.
LEMMA OneHandlerMoves ==
  ASSUME IInv, StoresGrow, NEW r \in Requests, NEW state \in Request,
         Becomes(r, state), HandlerOK(state)'
  PROVE  /\ req' \in [Requests -> Request]
         /\ (\A q \in Requests : HandlerOK(req[q]))'
  <1>1. req' = [req EXCEPT ![r] = state] /\ req \in [Requests -> Request]
    BY DEF Becomes, IInv, TypeOK
  <1>2. ASSUME NEW q \in Requests PROVE HandlerOK(req[q])'
    <2>1. CASE q = r
      BY <1>1, <2>1 DEF HandlerOK, Over
    <2>2. CASE q # r
      <3>1. req'[q] = req[q] /\ req[q] \in Request /\ HandlerOK(req[q]) /\ TypeOK
        BY <1>1, <2>2 DEF IInv
      <3>2. \A s \in Request : HandlerOK(s) => HandlerOK(s)'
        BY <3>1, KnowledgeLasts
      <3> QED
        BY <3>1, <3>2 DEF HandlerOK, Over
    <2> QED
      BY <2>1, <2>2
  <1> QED
    BY <1>1, <1>2

\* When the stores do not change they grow.
LEMMA NothingIsGrowth == UnchangedStores => StoresGrow
  BY DEF UnchangedStores, StoresGrow, Over

\* A handler's step that leaves the stores and the browser alone.
LEMMA QuietStep ==
  ASSUME IInv, NEW r \in Requests, NEW state \in Request, Becomes(r, state),
         HandlerOK(state), UnchangedStores, UnchangedBrowser
  PROVE  IInv' /\ StoresGrow
  <1>1. StoresGrow
    BY NothingIsGrowth
  <1>2. HandlerOK(state)'
    BY <1>1, KnowledgeLasts DEF IInv
  <1>3. /\ req' \in [Requests -> Request]
        /\ (\A q \in Requests : HandlerOK(req[q]))'
    BY <1>1, <1>2, OneHandlerMoves
  <1>4. TypeOK' /\ StoresOK' /\ BrowserOK'
    BY <1>3 DEF IInv, TypeOK, StoresOK, BrowserOK, UnchangedStores, UnchangedBrowser
  <1> QED
    BY <1>1, <1>3, <1>4 DEF IInv

\* A handler's step that lets one used token die.
LEMMA KillStep ==
  ASSUME IInv, NEW r \in Requests, NEW state \in Request, Becomes(r, state),
         NEW t \in Tokens, redis[t] # "unused", NEW left \in {"gone", redis[t]},
         redis' = [redis EXCEPT ![t] = left],
         UNCHANGED <<accounts, issued>>, UnchangedBrowser,
         HandlerOK(state)'
  PROVE  IInv' /\ StoresGrow
  <1>1. StoresGrow
    BY DEF StoresGrow, Over, IInv, TypeOK
  <1>2. /\ req' \in [Requests -> Request]
        /\ (\A q \in Requests : HandlerOK(req[q]))'
    BY <1>1, OneHandlerMoves
  <1>3. TypeOK'
    BY <1>2 DEF IInv, TypeOK, TokenStates, UnchangedBrowser
  <1>4. StoresOK'
    BY DEF IInv, TypeOK, StoresOK, Session
  <1>5. BrowserOK'
    BY <1>1, BrowserLasts DEF IInv, UnchangedBrowser
  <1> QED
    BY <1>1, <1>2, <1>3, <1>4, <1>5 DEF IInv

-----------------------------------------------------------------------------
(* Every action of Next preserves IInv and lets the stores only grow.      *)

LEMMA AnswerIsARequest ==
  ASSUME NEW q \in Request, NEW code \in Codes
  PROVE  [q EXCEPT !.pc = "reply", !.code = code] \in Request
  BY DEF Request, Stages

LEMMA SendLoginStep ==
  ASSUME IInv, NEW r \in Requests, NEW u \in Users, SendLogin(r, u)
  PROVE  IInv' /\ StoresGrow
  <1> DEFINE state == [Idle EXCEPT !.kind = "login", !.user = u]
             saving == [state EXCEPT !.pc = "save"]
             refused == [state EXCEPT !.pc = "reply", !.code = "rejected"]
  <1>1. CASE u \in accounts /\ Becomes(r, saving)
    <2>1. saving \in Request /\ HandlerOK(saving)
      BY <1>1 DEF Idle, Request, Stages, Kinds, Codes, HandlerOK
    <2> HIDE DEF saving
    <2> QED
      BY <1>1, <2>1, QuietStep DEF SendLogin
  <1>2. CASE Becomes(r, refused)
    <2>1. refused \in Request /\ HandlerOK(refused)
      BY DEF Idle, Request, Stages, Kinds, Codes, HandlerOK
    <2> HIDE DEF refused
    <2> QED
      BY <1>2, <2>1, QuietStep DEF SendLogin
  <1> QED
    BY <1>1, <1>2 DEF SendLogin, Reply

LEMMA SendSignupStep ==
  ASSUME IInv, NEW r \in Requests, NEW u \in Users, SendSignup(r, u)
  PROVE  IInv' /\ StoresGrow
  <1> DEFINE state == [Idle EXCEPT !.kind = "signup", !.user = u]
             saving == [state EXCEPT !.pc = "save"]
             refused == [state EXCEPT !.pc = "reply", !.code = "rejected"]
  <1>1. CASE accounts' = accounts \cup {u} /\ Becomes(r, saving)
    <2>1. StoresGrow
      BY <1>1 DEF SendSignup, StoresGrow, Over
    <2>2. saving \in Request /\ HandlerOK(saving)'
      BY <1>1 DEF Idle, Request, Stages, Kinds, Codes, HandlerOK
    <2> HIDE DEF saving
    <2>3. /\ req' \in [Requests -> Request]
          /\ (\A q \in Requests : HandlerOK(req[q]))'
      BY <1>1, <2>1, <2>2, OneHandlerMoves
    <2>4. TypeOK' /\ StoresOK' /\ BrowserOK'
      BY <1>1, <2>3 DEF SendSignup, IInv, TypeOK, StoresOK, BrowserOK, UnchangedBrowser
    <2> QED
      BY <2>1, <2>3, <2>4 DEF IInv
  <1>2. CASE Becomes(r, refused) /\ UNCHANGED accounts
    <2>1. refused \in Request /\ HandlerOK(refused)
      BY DEF Idle, Request, Stages, Kinds, Codes, HandlerOK
    <2> HIDE DEF refused
    <2>2. UnchangedStores /\ UnchangedBrowser
      BY <1>2 DEF SendSignup, UnchangedStores
    <2> QED
      BY <1>2, <2>1, <2>2, QuietStep
  <1> QED
    BY <1>1, <1>2 DEF SendSignup, Reply

LEMMA SendRefreshStep ==
  ASSUME IInv, NEW r \in Requests, SendRefresh(r)
  PROVE  IInv' /\ StoresGrow
  <1> DEFINE state == [Idle EXCEPT !.kind = "refresh", !.token = jar.refresh]
             refused == [state EXCEPT !.pc = "reply", !.code = "AUTH_REQUIRED"]
             limited == [state EXCEPT !.pc = "reply", !.code = "rejected"]
             loading == [state EXCEPT !.pc = "load"]
  <1>1. /\ jar.refresh \in Tokens \cup {Nil}
        /\ jar.refresh # Nil => redis[jar.refresh] # "unused"
    BY DEF IInv, TypeOK, Jar, BrowserOK
  <1>2. CASE Becomes(r, refused)
    <2>1. refused \in Request /\ HandlerOK(refused)
      BY <1>1 DEF Idle, Request, Stages, Kinds, Codes, HandlerOK
    <2> HIDE DEF refused
    <2> QED
      BY <1>2, <2>1, QuietStep DEF SendRefresh
  <1>3. CASE jar.refresh # Nil /\ Becomes(r, loading)
    <2>1. loading \in Request /\ HandlerOK(loading)
      BY <1>1, <1>3 DEF Idle, Request, Stages, Kinds, Codes, HandlerOK
    <2> HIDE DEF loading
    <2> QED
      BY <1>3, <2>1, QuietStep DEF SendRefresh
  <1>4. CASE Becomes(r, limited)
    <2>1. limited \in Request /\ HandlerOK(limited)
      BY <1>1 DEF Idle, Request, Stages, Kinds, Codes, HandlerOK
    <2> HIDE DEF limited
    <2> QED
      BY <1>4, <2>1, QuietStep DEF SendRefresh
  <1> QED
    BY <1>2, <1>3, <1>4 DEF SendRefresh, Reply

LEMMA SendLogoutStep ==
  ASSUME IInv, NEW r \in Requests, SendLogout(r)
  PROVE  IInv' /\ StoresGrow
  <1> DEFINE state == [Idle EXCEPT !.kind = "logout", !.token = jar.refresh]
             signedOut == [state EXCEPT !.pc = "reply", !.code = "signed_out"]
             limited == [state EXCEPT !.pc = "reply", !.code = "rejected"]
             revoking == [state EXCEPT !.pc = "revoke"]
  <1>1. /\ jar.refresh \in Tokens \cup {Nil}
        /\ jar.refresh # Nil => redis[jar.refresh] # "unused"
    BY DEF IInv, TypeOK, Jar, BrowserOK
  <1>2. CASE jar.refresh = Nil /\ Becomes(r, signedOut)
    <2>1. signedOut \in Request /\ HandlerOK(signedOut)
      BY <1>1, <1>2 DEF Idle, Request, Stages, Kinds, Codes, HandlerOK
    <2> HIDE DEF signedOut
    <2> QED
      BY <1>2, <2>1, QuietStep DEF SendLogout
  <1>3. CASE jar.refresh # Nil /\ Becomes(r, revoking)
    <2>1. revoking \in Request /\ HandlerOK(revoking)
      BY <1>1, <1>3 DEF Idle, Request, Stages, Kinds, Codes, HandlerOK
    <2> HIDE DEF revoking
    <2> QED
      BY <1>3, <2>1, QuietStep DEF SendLogout
  <1>4. CASE Becomes(r, limited)
    <2>1. limited \in Request /\ HandlerOK(limited)
      BY <1>1 DEF Idle, Request, Stages, Kinds, Codes, HandlerOK
    <2> HIDE DEF limited
    <2> QED
      BY <1>4, <2>1, QuietStep DEF SendLogout
  <1> QED
    BY <1>2, <1>3, <1>4 DEF SendLogout, Reply

LEMMA LoadStep ==
  ASSUME IInv, NEW r \in Requests, Load(r)
  PROVE  IInv' /\ StoresGrow
  <1> DEFINE t == req[r].token
             expired == [req[r] EXCEPT !.pc = "reply", !.code = "SESSION_EXPIRED"]
             dropping == [req[r] EXCEPT !.pc = "drop"]
             deleting == [req[r] EXCEPT !.pc = "delete", !.user = issued[t].user]
  <1>1. /\ req[r] \in Request /\ HandlerOK(req[r]) /\ req[r].pc = "load"
        /\ t \in Tokens
        /\ issued[t].user \in Users \cup {Nil}
    BY DEF IInv, TypeOK, Load, HandlerOK, Request, Session
  <1>2. CASE redis[t] = "gone" /\ Becomes(r, expired)
    <2>1. expired \in Request /\ HandlerOK(expired)
      BY <1>1, <1>2 DEF Request, Stages, Codes, HandlerOK, Over
    <2> HIDE DEF expired
    <2> QED
      BY <1>2, <2>1, QuietStep DEF Load
  <1>3. CASE Expired(t) /\ Becomes(r, dropping)
    <2>1. dropping \in Request /\ HandlerOK(dropping)
      BY <1>1, <1>3 DEF Request, Stages, Codes, HandlerOK, Over, Expired
    <2> HIDE DEF dropping
    <2> QED
      BY <1>3, <2>1, QuietStep DEF Load
  <1>4. CASE Becomes(r, deleting)
    <2>1. deleting \in Request /\ HandlerOK(deleting)
      BY <1>1 DEF Request, Stages, Codes, HandlerOK
    <2> HIDE DEF deleting
    <2> QED
      BY <1>4, <2>1, QuietStep DEF Load
  <1> QED
    BY <1>2, <1>3, <1>4 DEF Load, Reply

\* The steps that delete the token the request carried: what the handler holds
\* afterwards is "after".
LEMMA DeletionStep ==
  ASSUME IInv, NEW r \in Requests, req[r].pc \in {"drop", "delete", "revoke"},
         NEW left \in {"gone", redis[req[r].token]},
         redis' = [redis EXCEPT ![req[r].token] = left],
         UNCHANGED <<accounts, issued>>, UnchangedBrowser,
         NEW after \in Request, Becomes(r, after), HandlerOK(after)'
  PROVE  IInv' /\ StoresGrow
  <1>1. req[r].token \in Tokens /\ redis[req[r].token] # "unused"
    BY DEF IInv, TypeOK, HandlerOK, Request
  <1> QED
    BY <1>1, KillStep

LEMMA DropOverdueStep ==
  ASSUME IInv, NEW r \in Requests, DropOverdue(r)
  PROVE  IInv' /\ StoresGrow
  <1>1. req[r] \in Request /\ HandlerOK(req[r]) /\ req[r].pc = "drop"
    BY DEF IInv, TypeOK, DropOverdue
  <1>2. PICK left \in {"gone", redis[req[r].token]} :
            redis' = [redis EXCEPT ![req[r].token] = left]
    BY DEF DropOverdue
  <1>3. PICK after \in Request : after = [req[r] EXCEPT !.pc = "reply", !.code = "SESSION_EXPIRED"]
    BY <1>1 DEF Request, Stages, Codes
  <1>4. Becomes(r, after)
    BY <1>3 DEF DropOverdue, Reply
  <1>5. HandlerOK(after)'
    <2>1. req[r].token \in Tokens /\ Over(req[r].token) /\ redis \in [Tokens -> TokenStates]
      BY <1>1 DEF HandlerOK, Request, IInv, TypeOK
    <2>2. redis'[req[r].token] \in {"overdue", "gone"}
      BY <1>2, <2>1 DEF Over
    <2>3. /\ after.pc = "reply" /\ after.code = "SESSION_EXPIRED"
          /\ after.token = req[r].token
      BY <1>3, <1>1 DEF Request
    <2> QED
      BY <2>1, <2>2, <2>3 DEF HandlerOK, Over
  <1> QED
    BY <1>1, <1>2, <1>3, <1>4, <1>5, DeletionStep DEF DropOverdue

LEMMA DeleteOldStep ==
  ASSUME IInv, NEW r \in Requests, DeleteOld(r)
  PROVE  IInv' /\ StoresGrow
  <1>1. req[r] \in Request /\ HandlerOK(req[r]) /\ req[r].pc = "delete"
    BY DEF IInv, TypeOK, DeleteOld
  <1>2. redis' = [redis EXCEPT ![req[r].token] = "gone"]
    BY DEF DeleteOld
  <1>3. PICK after \in Request : after = [req[r] EXCEPT !.pc = "save"]
    BY <1>1 DEF Request, Stages
  <1>4. Becomes(r, after)
    BY <1>3 DEF DeleteOld
  <1>5. HandlerOK(after)'
    <2>1. /\ req[r].token \in Tokens /\ redis \in [Tokens -> TokenStates]
          /\ redis[req[r].token] # "unused"
          /\ req[r].user = issued[req[r].token].user
          /\ req[r].code = "none"
      BY <1>1 DEF HandlerOK, Request, IInv, TypeOK
    <2>2. /\ issued[req[r].token].user \in accounts
          /\ accounts' = accounts /\ issued' = issued
      BY <2>1 DEF IInv, StoresOK, DeleteOld
    <2>3. redis'[req[r].token] = "gone"
      BY <1>2, <2>1
    <2>4. /\ after.pc = "save" /\ after.code = "none"
          /\ after.token = req[r].token /\ after.user = req[r].user
      BY <1>3, <1>1, <2>1 DEF Request
    <2> QED
      BY <2>1, <2>2, <2>3, <2>4 DEF HandlerOK, Over
  <1> QED
    BY <1>1, <1>2, <1>3, <1>4, <1>5, DeletionStep DEF DeleteOld

LEMMA RevokeStep ==
  ASSUME IInv, NEW r \in Requests, Revoke(r)
  PROVE  IInv' /\ StoresGrow
  <1>1. req[r] \in Request /\ HandlerOK(req[r]) /\ req[r].pc = "revoke"
    BY DEF IInv, TypeOK, Revoke
  <1>2. redis' = [redis EXCEPT ![req[r].token] = "gone"]
    BY DEF Revoke
  <1>3. PICK after \in Request : after = [req[r] EXCEPT !.pc = "reply", !.code = "signed_out"]
    BY <1>1 DEF Request, Stages, Codes
  <1>4. Becomes(r, after)
    BY <1>3 DEF Revoke, Reply
  <1>5. HandlerOK(after)'
    <2>1. req[r].token \in Tokens /\ redis \in [Tokens -> TokenStates]
      BY <1>1 DEF HandlerOK, Request, IInv, TypeOK
    <2>2. redis'[req[r].token] = "gone"
      BY <1>2, <2>1
    <2>3. /\ after.pc = "reply" /\ after.code = "signed_out"
          /\ after.token = req[r].token
      BY <1>3, <1>1 DEF Request
    <2> QED
      BY <2>1, <2>2, <2>3 DEF HandlerOK, Over
  <1> QED
    BY <1>1, <1>2, <1>3, <1>4, <1>5, DeletionStep DEF Revoke

\* The user and the predecessor of the session a handler is about to save.
LEMMA AboutToSave ==
  ASSUME IInv, NEW r \in Requests, req[r].pc = "save"
  PROVE  /\ req[r] \in Request /\ HandlerOK(req[r])
         /\ req[r].user \in accounts
         /\ req[r].token # Nil => /\ redis[req[r].token] = "gone"
                                 /\ req[r].user = issued[req[r].token].user
  BY DEF IInv, TypeOK, HandlerOK

\* A new session is saved under a fresh token, whatever is answered.
LEMMA SavedStep ==
  ASSUME IInv, NEW r \in Requests, req[r].pc = "save",
         NEW t \in Tokens, Fresh(t), Saved(r, t),
         UNCHANGED accounts, UnchangedBrowser,
         NEW after \in Request, Becomes(r, after), after.pc = "reply",
         after.token = req[r].token, after.user = req[r].user,
         \/ after.code = "failed"
         \/ after.code = "ok" /\ after.new = t
  PROVE  IInv' /\ StoresGrow
  <1>1. /\ req[r] \in Request
        /\ req[r].user \in accounts
        /\ req[r].token # Nil => /\ redis[req[r].token] = "gone"
                                /\ req[r].user = issued[req[r].token].user
    BY AboutToSave
  <1>2. /\ redis \in [Tokens -> TokenStates] /\ issued \in [Tokens -> Session]
        /\ accounts \subseteq Users
        /\ req[r].token \in Tokens \cup {Nil}
    BY <1>1 DEF IInv, TypeOK, Request
  <1>3. /\ redis[t] = "unused"
        /\ redis' = [redis EXCEPT ![t] = "live"]
        /\ issued' = [issued EXCEPT ![t] = [user |-> req[r].user, from |-> req[r].token]]
    BY DEF Fresh, Saved, NewSession
  <1>4. StoresGrow
    BY <1>2, <1>3 DEF StoresGrow, Over
  <1>5. HandlerOK(after)'
    <2>1. redis'[t] = "live" /\ issued'[t].user = req[r].user
      BY <1>2, <1>3
    <2>2. req[r].token # Nil => redis'[req[r].token] # "unused"
      BY <1>1, <1>2, <1>3
    <2>3. t # Nil
      OBVIOUS
    <2> QED
      BY <2>1, <2>2, <2>3 DEF HandlerOK, Over
  <1>6. /\ req' \in [Requests -> Request]
        /\ (\A q \in Requests : HandlerOK(req[q]))'
    BY <1>4, <1>5, OneHandlerMoves
  <1>7. TypeOK'
    <2>1. redis' \in [Tokens -> TokenStates]
      BY <1>2, <1>3 DEF TokenStates
    <2>2. issued' \in [Tokens -> Session]
      BY <1>1, <1>2, <1>3 DEF Session
    <2> QED
      BY <1>6, <2>1, <2>2 DEF IInv, TypeOK, UnchangedBrowser
  <1>8. StoresOK'
    <2>1. ASSUME NEW s \in Tokens PROVE redis'[s] = "unused" => issued'[s] = NoSession
      BY <1>2, <1>3 DEF IInv, StoresOK
    <2>2. ASSUME NEW s \in Tokens PROVE redis'[s] # "unused" => issued'[s].user \in accounts'
      BY <1>1, <1>2, <1>3 DEF IInv, StoresOK
    <2>3. ASSUME NEW s \in Tokens, issued'[s].from # Nil
          PROVE  /\ redis'[issued'[s].from] = "gone"
                 /\ issued'[s].user = issued'[issued'[s].from].user
      <3>1. CASE s = t
        BY <1>1, <1>2, <1>3, <2>3, <3>1
      <3>2. CASE s # t
        <4>1. /\ issued'[s] = issued[s] /\ issued[s].from \in Tokens
              /\ redis[issued[s].from] = "gone"
              /\ issued[s].user = issued[issued[s].from].user
          BY <1>2, <1>3, <2>3, <3>2 DEF IInv, StoresOK, Session
        <4> QED
          BY <1>2, <1>3, <4>1
      <3> QED
        BY <3>1, <3>2
    <2> QED
      BY <2>1, <2>2, <2>3 DEF StoresOK
  <1>9. BrowserOK'
    BY <1>4, BrowserLasts DEF IInv, UnchangedBrowser
  <1> QED
    BY <1>4, <1>6, <1>7, <1>8, <1>9 DEF IInv

LEMMA SaveStep ==
  ASSUME IInv, NEW r \in Requests, NEW t \in Tokens, Save(r, t)
  PROVE  IInv' /\ StoresGrow
  <1>1. req[r] \in Request /\ req[r].pc = "save"
    BY DEF IInv, TypeOK, Save
  <1>2. PICK after \in Request :
            after = [req[r] EXCEPT !.new = t, !.pc = "reply", !.code = "ok"]
    BY <1>1 DEF Request, Stages, Codes
  <1>3. /\ after.pc = "reply" /\ after.code = "ok" /\ after.new = t
        /\ after.token = req[r].token /\ after.user = req[r].user
    BY <1>1, <1>2 DEF Request
  <1>4. Becomes(r, after)
    BY <1>2 DEF Save, Reply
  <1> QED
    BY <1>1, <1>3, <1>4, SavedStep DEF Save

LEMMA FailStep ==
  ASSUME IInv, NEW r \in Requests, Fail(r)
  PROVE  IInv' /\ StoresGrow
  <1> DEFINE failed == [req[r] EXCEPT !.pc = "reply", !.code = "failed"]
  <1>1. CASE \E kind \in {"login", "signup"} : FailEarly(r, kind)
    <2>1. PICK kind \in {"login", "signup"} : FailEarly(r, kind)
      BY <1>1
    <2>2. PICK state : state = [Idle EXCEPT !.kind = kind, !.pc = "reply", !.code = "failed"]
      OBVIOUS
    <2>3. state \in Request /\ HandlerOK(state)
      BY <2>2 DEF Idle, Request, Stages, Kinds, Codes, HandlerOK
    <2>4. Becomes(r, state)
      BY <2>1, <2>2 DEF FailEarly, Reply
    <2> QED
      BY <2>1, <2>3, <2>4, QuietStep DEF FailEarly
  <1>2. ASSUME req[r].pc \in {"load", "drop", "delete", "revoke", "save"}, Becomes(r, failed)
        PROVE  \E after \in Request :
                  /\ Becomes(r, after)
                  /\ after.pc = "reply" /\ after.code = "failed"
                  /\ after.token = req[r].token /\ after.user = req[r].user
    <2>1. req[r] \in Request
      BY DEF IInv, TypeOK
    <2>2. failed \in Request
      BY <2>1 DEF Request, Stages, Codes
    <2>3. /\ failed.pc = "reply" /\ failed.code = "failed"
          /\ failed.token = req[r].token /\ failed.user = req[r].user
      BY <2>1 DEF Request
    <2> HIDE DEF failed
    <2> QED
      BY <1>2, <2>2, <2>3
  <1>3. req[r] \in Request /\ HandlerOK(req[r])
    BY DEF IInv, TypeOK
  <1>4. CASE FailLoad(r)
    <2>1. req[r].pc = "load" /\ Becomes(r, failed)
      BY <1>4 DEF FailLoad, Reply
    <2>2. PICK after \in Request :
                  /\ Becomes(r, after)
                  /\ after.pc = "reply" /\ after.code = "failed"
                  /\ after.token = req[r].token /\ after.user = req[r].user
      BY <1>2, <2>1
    <2>3. HandlerOK(after)
      BY <1>3, <2>1, <2>2 DEF HandlerOK
    <2> QED
      BY <1>4, <2>2, <2>3, QuietStep DEF FailLoad
  <1>5. CASE FailDelete(r)
    <2>1. req[r].pc \in {"delete", "revoke"} /\ Becomes(r, failed)
      BY <1>5 DEF FailDelete, Reply
    <2>2. PICK after \in Request :
                  /\ Becomes(r, after)
                  /\ after.pc = "reply" /\ after.code = "failed"
                  /\ after.token = req[r].token /\ after.user = req[r].user
      BY <1>2, <2>1
    <2>3. PICK left \in {"gone", redis[req[r].token]} :
              redis' = [redis EXCEPT ![req[r].token] = left]
      BY <1>5 DEF FailDelete
    <2>4. HandlerOK(after)'
      <3>1. /\ req[r].token \in Tokens /\ redis \in [Tokens -> TokenStates]
            /\ redis[req[r].token] # "unused"
        BY <1>3, <2>1 DEF HandlerOK, Request, IInv, TypeOK
      <3>2. redis'[req[r].token] # "unused"
        BY <2>3, <3>1
      <3> QED
        BY <2>2, <3>2 DEF HandlerOK
    <2> QED
      BY <1>5, <2>1, <2>2, <2>3, <2>4, DeletionStep DEF FailDelete
  <1>6. CASE FailSave(r)
    <2>1. req[r].pc = "save" /\ Becomes(r, failed)
      BY <1>6 DEF FailSave, Reply
    <2>2. PICK after \in Request :
                  /\ Becomes(r, after)
                  /\ after.pc = "reply" /\ after.code = "failed"
                  /\ after.token = req[r].token /\ after.user = req[r].user
      BY <1>2, <2>1
    <2>3. CASE UNCHANGED <<redis, issued>>
      <3>1. HandlerOK(after)
        BY <1>3, <2>1, <2>2 DEF HandlerOK
      <3>2. UnchangedStores /\ UnchangedBrowser
        BY <1>6, <2>3 DEF FailSave, UnchangedStores
      <3> QED
        BY <2>2, <3>1, <3>2, QuietStep
    <2>4. CASE \E t \in Tokens : Fresh(t) /\ Saved(r, t)
      BY <1>6, <2>1, <2>2, <2>4, SavedStep DEF FailSave
    <2> QED
      BY <1>6, <2>3, <2>4 DEF FailSave
  <1> QED
    BY <1>1, <1>4, <1>5, <1>6 DEF Fail

\* The handler of r is over and its request forgotten.
LEMMA HandlerForgotten ==
  ASSUME IInv, NEW r \in Requests, Becomes(r, Idle), UnchangedStores
  PROVE  /\ StoresGrow
         /\ req' \in [Requests -> Request]
         /\ (\A q \in Requests : HandlerOK(req[q]))'
  <1>1. StoresGrow
    BY NothingIsGrowth
  <1>2. PICK idle \in Request : idle = Idle /\ HandlerOK(idle)
    BY IdleIsFine
  <1>3. HandlerOK(idle)'
    BY <1>1, <1>2, KnowledgeLasts DEF IInv
  <1> QED
    BY <1>1, <1>2, <1>3, OneHandlerMoves

LEMMA LoseStep ==
  ASSUME IInv, NEW r \in Requests, Lose(r)
  PROVE  IInv' /\ StoresGrow
  BY IdleIsFine, QuietStep DEF Lose

LEMMA DeliverStep ==
  ASSUME IInv, NEW r \in Requests, Deliver(r)
  PROVE  IInv' /\ StoresGrow
  <1> DEFINE q == req[r]
  <1>1. q \in Request /\ HandlerOK(q)
    BY DEF IInv, TypeOK
  <1>2. /\ StoresGrow
        /\ req' \in [Requests -> Request]
        /\ (\A s \in Requests : HandlerOK(req[s]))'
    BY HandlerForgotten DEF Deliver
  <1>3. redis' = redis /\ issued' = issued /\ accounts' = accounts
    BY DEF Deliver, UnchangedStores
  <1>4. jar' \in Jar /\ (jar'.refresh # Nil => redis[jar'.refresh] # "unused")
        /\ (jar'.access # Nil => /\ jar'.refresh # Nil
                                /\ jar'.access = issued[jar'.refresh].user)
    <2>1. CASE q.code = "ok" /\ jar' = [access |-> q.user, refresh |-> q.new]
      BY <1>1, <2>1 DEF HandlerOK, Request, Jar
    <2>2. CASE jar' = NoCookies
      BY <2>2 DEF NoCookies, Jar
    <2>3. CASE jar' = jar
      BY <2>3 DEF IInv, TypeOK, BrowserOK
    <2> QED
      BY <2>1, <2>2, <2>3 DEF Deliver, SetAuthCookies
  <1>5. loggedOut' \subseteq Tokens /\ \A t \in loggedOut' : redis[t] = "gone"
    <2>1. CASE q.code = "signed_out" /\ loggedOut' = loggedOut \cup ({q.token} \ {Nil})
      BY <1>1, <2>1 DEF HandlerOK, Request, IInv, TypeOK, BrowserOK
    <2>2. CASE loggedOut' = loggedOut
      BY <2>2 DEF IInv, TypeOK, BrowserOK
    <2> QED
      BY <2>1, <2>2 DEF Deliver
  <1>7. TypeOK'
    BY <1>2, <1>3, <1>4, <1>5 DEF IInv, TypeOK
  <1>8. StoresOK' /\ BrowserOK'
    BY <1>3, <1>4, <1>5 DEF IInv, StoresOK, BrowserOK
  <1> QED
    BY <1>2, <1>7, <1>8 DEF IInv

\* What the clock does to the browser.
LEMMA CookiesLapse ==
  ASSUME IInv, AccessLapses \/ RefreshCookieLapses
  PROVE  IInv' /\ StoresGrow
  <1>1. redis' = redis /\ issued' = issued /\ accounts' = accounts
        /\ req' = req /\ loggedOut' = loggedOut
    BY DEF AccessLapses, RefreshCookieLapses, UnchangedStores
  <1>2. StoresGrow
    BY <1>1 DEF StoresGrow, Over
  <1>3. jar' \in Jar /\ jar'.access = Nil /\ jar'.refresh \in {jar.refresh, Nil}
    <2>1. jar \in Jar
      BY DEF IInv, TypeOK
    <2> QED
      BY <2>1 DEF AccessLapses, RefreshCookieLapses, NoCookies, Jar
  <1>5. TypeOK'
    BY <1>1, <1>3 DEF IInv, TypeOK
  <1>6. StoresOK' /\ BrowserOK'
    BY <1>1, <1>3 DEF IInv, StoresOK, BrowserOK
  <1>7. (\A q \in Requests : HandlerOK(req[q]))'
    BY <1>1 DEF IInv, HandlerOK, Over
  <1> QED
    BY <1>2, <1>5, <1>6, <1>7 DEF IInv

\* What the clock does to a session.
LEMMA SessionLapsesStep ==
  ASSUME IInv, NEW t \in Tokens, SessionLapses(t)
  PROVE  IInv' /\ StoresGrow
  <1>1. PICK next \in {"overdue", "gone"} :
            /\ redis' = [redis EXCEPT ![t] = next]
            /\ redis[t] = "overdue" => next = "gone"
            /\ redis[t] \in {"live", "overdue"}
    BY DEF SessionLapses, IInv, TypeOK
  <1>2. /\ redis \in [Tokens -> TokenStates]
        /\ accounts' = accounts /\ issued' = issued /\ req' = req
        /\ jar' = jar /\ loggedOut' = loggedOut
    BY DEF IInv, TypeOK, SessionLapses, UnchangedBrowser
  <1>3. StoresGrow
    BY <1>1, <1>2 DEF StoresGrow, Over
  <1>4. redis' \in [Tokens -> TokenStates]
    BY <1>1, <1>2 DEF TokenStates
  <1>5. TypeOK'
    BY <1>2, <1>4 DEF IInv, TypeOK
  <1>6. StoresOK'
    BY <1>1, <1>2 DEF IInv, TypeOK, StoresOK, Session
  <1>7. BrowserOK'
    BY <1>2, <1>3, BrowserLasts DEF IInv
  <1>8. (\A q \in Requests : HandlerOK(req[q]))'
    <2>1. ASSUME NEW q \in Requests PROVE HandlerOK(req[q])'
      <3>1. PICK held \in Request : held = req[q] /\ HandlerOK(held)
        BY DEF IInv, TypeOK
      <3>2. HandlerOK(held)'
        BY <1>3, <3>1, KnowledgeLasts DEF IInv
      <3> QED
        BY <1>2, <3>1, <3>2 DEF HandlerOK, Over
    <2> QED
      BY <2>1
  <1> QED
    BY <1>3, <1>5, <1>6, <1>7, <1>8 DEF IInv

LEMMA NextIInv == IInv /\ Next => IInv' /\ StoresGrow
  <1> SUFFICES ASSUME IInv, Next PROVE IInv' /\ StoresGrow
    OBVIOUS
  <1>1. ASSUME NEW r \in Requests, Send(r) PROVE IInv' /\ StoresGrow
    BY <1>1, SendLoginStep, SendSignupStep, SendRefreshStep, SendLogoutStep DEF Send
  <1>2. ASSUME NEW r \in Requests, Serve(r) PROVE IInv' /\ StoresGrow
    BY <1>2, LoadStep, DropOverdueStep, DeleteOldStep, RevokeStep, SaveStep DEF Serve
  <1> QED
    BY <1>1, <1>2, FailStep, DeliverStep, LoseStep, SessionLapsesStep, CookiesLapse
    DEF Next

LEMMA StutterIInv == IInv /\ UNCHANGED vars => IInv'
  BY DEF IInv, vars, TypeOK, StoresOK, BrowserOK, HandlerOK, Over

-----------------------------------------------------------------------------
(* The theorems.                                                           *)

\* The invariant holds in every state, whoever overlaps with whom.
THEOREM Invariance == Spec => []IInv
  <1>1. IInv /\ [Next]_vars => IInv'
    BY NextIInv, StutterIInv
  <1> QED
    BY InitIInv, <1>1, PTL DEF Spec

\* Stores, cookies and handlers keep their types for any number of requests,
\* users and sessions.
THEOREM TypeCorrect == Spec => []TypeOK
  <1>1. IInv => TypeOK
    BY DEF IInv
  <1> QED
    BY Invariance, <1>1, PTL

\* A session that was rotated, and one whose logout was acknowledged, can never
\* be used again: of two overlapping refreshes neither leaves the old token.
THEOREM SpentTokensDie == Spec => []SpentTokensAreDead
  <1>1. IInv => SpentTokensAreDead
    BY DEF IInv, StoresOK, BrowserOK, SpentTokensAreDead
  <1> QED
    BY Invariance, <1>1, PTL

\* No rotation, overlap or late answer gives a browser another user's session
\* or a pair of cookies of two users.
THEOREM IdentityKept == Spec => []IdentityIsKept
  <1>1. IInv => IdentityIsKept
    BY DEF IInv, StoresOK, BrowserOK, IdentityIsKept
  <1> QED
    BY Invariance, <1>1, PTL

\* The answer SESSION_EXPIRED is true from its being written to its delivery.
THEOREM ExpiredAnswersTrue == Spec => []ExpiredAnswersAreTrue
  <1>1. IInv => ExpiredAnswersAreTrue
    BY DEF IInv, HandlerOK, Over, ExpiredAnswersAreTrue
  <1> QED
    BY Invariance, <1>1, PTL

-----------------------------------------------------------------------------
(* Refreshes that do not overlap at the server, whatever else does.        *)

\* The session that such a handler holds has no successor yet.
Unrotated ==
    \A r \in Requests : Rotating(req[r])
        => \A t \in Tokens : issued[t].from # req[r].token

\* Only a refresh loads a session and saves its successor.
RefreshOnly(q) == q.pc = "load" \/ Rotating(q) => q.kind = "refresh"

RotationInv ==
    /\ \A r \in Requests : RefreshOnly(req[r])
    /\ Unrotated
    /\ OneRotationPerToken

\* Nothing but the request of r changes.
Moves(r) == \A q \in Requests : q # r => req'[q] = req[q]

LEMMA Moved ==
  ASSUME IInv, NEW r \in Requests, NEW state, Becomes(r, state)
  PROVE  req'[r] = state /\ Moves(r)
  BY DEF IInv, TypeOK, Becomes, Moves

LEMMA Replied ==
  ASSUME IInv, NEW r \in Requests, NEW state \in Request, NEW code, Reply(r, state, code)
  PROVE  req'[r].pc = "reply" /\ Moves(r)
  BY DEF IInv, TypeOK, Reply, Becomes, Moves, Request

\* A step that saves no session, and starts a rotation only from a session that
\* is not gone: a session that is not gone has no successor.
LEMMA NothingSaved ==
  ASSUME IInv, RotationInv, UNCHANGED issued, NEW r \in Requests, Moves(r),
         RefreshOnly(req'[r]),
         Rotating(req'[r])
            => \/ Rotating(req[r]) /\ req'[r].token = req[r].token
               \/ redis[req'[r].token] # "gone"
  PROVE  RotationInv'
  BY DEF IInv, StoresOK, RotationInv, Unrotated, OneRotationPerToken, Rotating,
         RefreshOnly, Moves

\* A handler that is done neither rotates nor loads.
LEMMA HandlerDone ==
  ASSUME IInv, RotationInv, UNCHANGED issued, NEW r \in Requests, Moves(r),
         req'[r].pc \in {"reply", "idle", "drop", "revoke"}
  PROVE  RotationInv'
  <1>1. ~Rotating(req'[r]) /\ RefreshOnly(req'[r])
    BY DEF Rotating, RefreshOnly
  <1> QED
    BY <1>1, NothingSaved

\* A session is saved, and no other refresh is there to save another.
LEMMA LoneSave ==
  ASSUME OneRefreshAtATime, IInv, RotationInv, NEW r \in Requests, req[r].pc = "save",
         NEW t \in Tokens, Fresh(t), Saved(r, t),
         req'[r].pc = "reply", Moves(r)
  PROVE  RotationInv'
  <1>1. /\ issued \in [Tokens -> Session] /\ issued[t] = NoSession
        /\ issued' = [issued EXCEPT ![t] = [user |-> req[r].user, from |-> req[r].token]]
    BY DEF IInv, TypeOK, StoresOK, Fresh, Saved, NewSession
  <1>2. (\A q \in Requests : RefreshOnly(req[q]))'
    BY DEF RotationInv, RefreshOnly, Rotating, Moves
  <1>3. ASSUME NEW q \in Requests, Rotating(req'[q]), NEW s \in Tokens
        PROVE  issued'[s].from # req'[q].token
    <2>1. q # r /\ req'[q] = req[q] /\ Rotating(req[q]) /\ req[q].kind = "refresh"
      BY <1>3 DEF Rotating, Moves, RotationInv, RefreshOnly
    <2>2. req[r].token # req[q].token
      <3>1. CASE req[r].token = Nil
        BY <2>1, <3>1 DEF Rotating
      <3>2. CASE req[r].token # Nil
        BY <2>1, <3>2 DEF Rotating, RotationInv, RefreshOnly, OneRefreshAtATime
      <3> QED
        BY <3>1, <3>2
    <2> QED
      BY <1>1, <2>1, <2>2 DEF RotationInv, Unrotated
  <1>4. OneRotationPerToken'
    <2> SUFFICES ASSUME NEW a \in Tokens, NEW b \in Tokens, issued'[a].from # Nil,
                        issued'[a].from = issued'[b].from
                 PROVE  a = b
      BY DEF OneRotationPerToken
    <2>1. issued'[t].from = req[r].token
      BY <1>1
    <2>2. \A s \in Tokens : s # t => issued'[s] = issued[s]
      BY <1>1
    <2>3. req[r].token # Nil => \A s \in Tokens : issued[s].from # req[r].token
      BY DEF RotationInv, Unrotated, Rotating
    <2> QED
      BY <2>1, <2>2, <2>3 DEF RotationInv, OneRotationPerToken
  <1> QED
    BY <1>2, <1>3, <1>4 DEF RotationInv, Unrotated

LEMMA RotationSend ==
  ASSUME IInv, RotationInv, NEW r \in Requests, Send(r)
  PROVE  RotationInv'
  <1>0. req \in [Requests -> Request]
    BY DEF IInv, TypeOK
  <1>1. ASSUME NEW u \in Users, SendLogin(r, u) \/ SendSignup(r, u) PROVE RotationInv'
    <2>1. Moves(r) /\ req'[r].token = Nil /\ req'[r].pc # "load" /\ UNCHANGED issued
      BY <1>0, <1>1, ZenonT(60) DEF SendLogin, SendSignup, Reply, Becomes, Moves, Idle, UnchangedStores
    <2> QED
      BY <2>1, NothingSaved DEF Rotating, RefreshOnly
  <1>2. ASSUME SendRefresh(r) PROVE RotationInv'
    <2>1. /\ Moves(r) /\ UNCHANGED issued
          /\ req'[r].pc \in {"reply", "load"} /\ req'[r].kind = "refresh"
      <3>1. UNCHANGED issued
        BY <1>2 DEF SendRefresh, UnchangedStores
      <3>2. CASE \E code \in {"AUTH_REQUIRED", "rejected"} :
                    Reply(r, [Idle EXCEPT !.kind = "refresh", !.token = jar.refresh], code)
        BY <1>0, <3>1, <3>2 DEF Reply, Becomes, Moves, Idle
      <3>3. CASE Becomes(r, [[Idle EXCEPT !.kind = "refresh", !.token = jar.refresh]
                                EXCEPT !.pc = "load"])
        BY <1>0, <3>1, <3>3 DEF Becomes, Moves, Idle
      <3> QED
        BY <1>2, <3>2, <3>3 DEF SendRefresh
    <2> QED
      BY <2>1, NothingSaved DEF Rotating, RefreshOnly
  <1>3. ASSUME SendLogout(r) PROVE RotationInv'
    <2>1. /\ Moves(r) /\ UNCHANGED issued
          /\ req'[r].pc \in {"reply", "revoke"}
      BY <1>0, <1>3, ZenonT(60) DEF SendLogout, Reply, Becomes, Moves, Idle, UnchangedStores
    <2> QED
      BY <2>1, HandlerDone
  <1> QED
    BY <1>1, <1>2, <1>3 DEF Send

LEMMA RotationServe ==
  ASSUME OneRefreshAtATime, IInv, RotationInv, NEW r \in Requests, Serve(r)
  PROVE  RotationInv'
  <1>1. /\ req \in [Requests -> Request]
        /\ req[r] \in Request /\ HandlerOK(req[r]) /\ RefreshOnly(req[r])
    BY DEF IInv, TypeOK, RotationInv
  <1>2. ASSUME Load(r) PROVE RotationInv'
    <2>1. UNCHANGED issued /\ req[r].kind = "refresh"
      BY <1>1, <1>2 DEF Load, UnchangedStores, RefreshOnly
    <2>2. CASE Reply(r, req[r], "SESSION_EXPIRED")
      BY <1>1, <2>1, <2>2, Replied, HandlerDone
    <2>3. CASE Becomes(r, [req[r] EXCEPT !.pc = "drop"])
      <3>1. Moves(r) /\ req'[r].pc = "drop"
        BY <1>1, <2>3, Moved DEF Request
      <3> QED
        BY <2>1, <3>1, HandlerDone
    <2>4. CASE /\ redis[req[r].token] # "gone"
               /\ Becomes(r, [req[r] EXCEPT !.pc = "delete",
                                           !.user = issued[req[r].token].user])
      <3>1. /\ Moves(r) /\ req'[r].pc = "delete" /\ req'[r].token = req[r].token
            /\ req'[r].kind = "refresh"
        BY <1>1, <2>1, <2>4 DEF Becomes, Moves, Request
      <3> QED
        BY <2>1, <2>4, <3>1, NothingSaved DEF Rotating, RefreshOnly
    <2> QED
      BY <1>2, <2>2, <2>3, <2>4 DEF Load
  <1>3. ASSUME DropOverdue(r) \/ Revoke(r) PROVE RotationInv'
    BY <1>1, <1>3, Replied, HandlerDone DEF DropOverdue, Revoke
  <1>4. ASSUME DeleteOld(r) PROVE RotationInv'
    <2>1. /\ Moves(r) /\ UNCHANGED issued
          /\ req[r].pc = "delete" /\ req'[r].pc = "save"
          /\ req'[r].token = req[r].token /\ req'[r].kind = req[r].kind
      BY <1>1, <1>4, Moved DEF DeleteOld, Request
    <2> QED
      BY <1>1, <2>1, NothingSaved DEF Rotating, RefreshOnly
  <1>5. ASSUME NEW t \in Tokens, Save(r, t) PROVE RotationInv'
    <2>1. [req[r] EXCEPT !.new = t] \in Request
      BY <1>1 DEF Request
    <2>2. req'[r].pc = "reply" /\ Moves(r)
      BY <1>5, <2>1, Replied DEF Save
    <2> QED
      BY <1>5, <2>2, LoneSave DEF Save
  <1> QED
    BY <1>2, <1>3, <1>4, <1>5 DEF Serve

LEMMA RotationFail ==
  ASSUME OneRefreshAtATime, IInv, RotationInv, NEW r \in Requests, Fail(r)
  PROVE  RotationInv'
  <1>1. req'[r].pc = "reply" /\ Moves(r)
    <2>1. CASE \E kind \in {"login", "signup"} : FailEarly(r, kind)
      <3>1. \A kind \in {"login", "signup"} : [Idle EXCEPT !.kind = kind] \in Request
        BY DEF Idle, Request, Stages, Kinds, Codes
      <3> QED
        BY <2>1, <3>1, Replied DEF FailEarly
    <2>2. req[r] \in Request
      BY DEF IInv, TypeOK
    <2> QED
      BY <2>1, <2>2, Replied DEF Fail, FailLoad, FailDelete, FailSave
  <1>2. CASE UNCHANGED issued
    BY <1>1, <1>2, HandlerDone
  <1>3. CASE req[r].pc = "save" /\ \E t \in Tokens : Fresh(t) /\ Saved(r, t)
    BY <1>1, <1>3, LoneSave
  <1> QED
    BY <1>2, <1>3 DEF Fail, FailEarly, FailLoad, FailDelete, FailSave, UnchangedStores

LEMMA RotationNext ==
  OneRefreshAtATime /\ IInv /\ RotationInv /\ [Next]_vars => RotationInv'
  <1> SUFFICES ASSUME OneRefreshAtATime, IInv, RotationInv, [Next]_vars
               PROVE  RotationInv'
    OBVIOUS
  <1>1. ASSUME NEW r \in Requests, Deliver(r) \/ Lose(r) PROVE RotationInv'
    <2>1. req'[r].pc = "idle" /\ Moves(r) /\ UNCHANGED issued
      BY <1>1, Moved DEF Deliver, Lose, Idle, UnchangedStores
    <2> QED
      BY <2>1, HandlerDone
  <1>2. ASSUME UNCHANGED <<req, issued>> PROVE RotationInv'
    BY <1>2 DEF RotationInv, Unrotated, OneRotationPerToken, Rotating, RefreshOnly
  <1>3. ASSUME \/ \E t \in Tokens : SessionLapses(t)
               \/ AccessLapses \/ RefreshCookieLapses
               \/ UNCHANGED vars
        PROVE  UNCHANGED <<req, issued>>
    BY <1>3 DEF SessionLapses, AccessLapses, RefreshCookieLapses, UnchangedStores, vars
  <1> QED
    BY <1>1, <1>2, <1>3, RotationSend, RotationServe, RotationFail DEF Next

LEMMA RotationInit == Init => RotationInv
  BY DEF Init, RotationInv, RefreshOnly, Unrotated, OneRotationPerToken, Rotating,
         Idle, NoSession

\* As long as refreshes do not overlap at the server, a refresh token is rotated
\* at most once, even if sign-ins and logouts overlap them, stores fail, commands
\* reported as failed were executed, and answers are lost and the browser tries
\* again.  It is what the server needs from its client: see AuthPageProofs.
THEOREM OneRefreshRotatesOnce ==
  Spec /\ []OneRefreshAtATime => []OneRotationPerToken
  <1>1. Init => RotationInv
    BY RotationInit
  <1>2. OneRefreshAtATime /\ IInv /\ RotationInv /\ [Next]_vars => RotationInv'
    BY RotationNext
  <1>3. RotationInv => OneRotationPerToken
    BY DEF RotationInv
  <1> QED
    BY Invariance, <1>1, <1>2, <1>3, PTL DEF Spec

-----------------------------------------------------------------------------
(* The service keeps a SessionLedger.                                      *)

\* A session that was not rotated.
Newest(t) == \A next \in Tokens : issued[next].from # t

\* Every session belongs to one sign-in and to its user, and a sign-in of which no
\* session was rotated twice has one that was not rotated: it is the only one that
\* can be usable.
DescentInv ==
    /\ signIn \in [Tokens -> Tokens \cup {Nil}]
    /\ \A t \in Tokens : signIn[t] = Nil <=> redis[t] = "unused"
    /\ \A t \in Tokens : signIn[t] # Nil
          => /\ signIn[signIn[t]] = signIn[t]
             /\ issued[signIn[t]].user = issued[t].user
    /\ \A t \in Tokens : issued[t].from # Nil => signIn[issued[t].from] = signIn[t]
    /\ \A s, t \in Tokens :
          signIn[s] # Nil /\ signIn[s] = signIn[t] /\ Newest(s) /\ Newest(t)
             => s = t \/ RotatedTwice(signIn[s])

\* A step of a handler that saves a session under token t.
Saves(r, t) == req[r].pc = "save" /\ Fresh(t) /\ Saved(r, t)

\* What the sessions in use say does not change with time.
LEMMA NothingIssued ==
  ASSUME IInv, IInv', StoresGrow, Descend, DescentInv,
         \A t \in Tokens : redis[t] = "unused" => redis'[t] = "unused"
  PROVE  UNCHANGED <<issued, signIn>>
  <1>1. \A t \in Tokens : signIn'[t] = signIn[t]
    BY DEF Descend
  <1>2. \A t \in Tokens : issued'[t] = issued[t]
    BY DEF IInv, StoresOK, StoresGrow
  <1>3. /\ signIn \in [Tokens -> Tokens \cup {Nil}]
        /\ issued \in [Tokens -> Session] /\ issued' \in [Tokens -> Session]
    BY DEF IInv, TypeOK, DescentInv
  <1>4. signIn' = [t \in Tokens |-> signIn'[t]]
    BY DEF Descend
  <1> QED
    BY <1>1, <1>2, <1>3, <1>4

\* Sessions come into use only by being saved.
LEMMA OnlySavesIssue ==
  ASSUME IInv, Next, NEW t \in Tokens, redis[t] = "unused", redis'[t] # "unused"
  PROVE  \E r \in Requests : Saves(r, t)
  <1>1. redis \in [Tokens -> TokenStates]
    BY DEF IInv, TypeOK
  <1>2. ASSUME UnchangedStores PROVE FALSE
    BY <1>2 DEF UnchangedStores
  <1>3. ASSUME NEW r \in Requests, Send(r) \/ Deliver(r) \/ Lose(r) PROVE FALSE
    BY <1>3, <1>2 DEF Send, SendLogin, SendSignup, SendRefresh, SendLogout, Deliver,
                      Lose, UnchangedStores
  <1>4. ASSUME NEW r \in Requests, NEW u \in Tokens, Saves(r, u) PROVE u = t
    BY <1>1, <1>4 DEF Saves, Saved
  <1>5. ASSUME NEW r \in Requests, req[r].pc \in {"drop", "delete", "revoke"},
               NEW left \in {"gone", redis[req[r].token]},
               redis' = [redis EXCEPT ![req[r].token] = left]
        PROVE  FALSE
    BY <1>1, <1>5 DEF IInv, HandlerOK
  <1>6. ASSUME NEW r \in Requests, Serve(r) PROVE Saves(r, t)
    BY <1>1, <1>2, <1>4, <1>5, <1>6
    DEF Serve, Load, DropOverdue, DeleteOld, Revoke, Save, Saves
  <1>7. ASSUME NEW r \in Requests, Fail(r) PROVE Saves(r, t)
    <2>1. CASE \/ \E kind \in {"login", "signup"} : FailEarly(r, kind)
               \/ FailLoad(r)
      BY <1>2, <2>1 DEF FailEarly, FailLoad
    <2>2. CASE FailDelete(r)
      BY <1>5, <2>2 DEF FailDelete
    <2>3. CASE FailSave(r)
      BY <1>4, <2>3 DEF FailSave, Saves
    <2> QED
      BY <1>7, <2>1, <2>2, <2>3 DEF Fail
  <1>8. ASSUME \/ \E u \in Tokens : SessionLapses(u)
               \/ AccessLapses \/ RefreshCookieLapses
        PROVE  FALSE
    BY <1>1, <1>2, <1>8 DEF SessionLapses, AccessLapses, RefreshCookieLapses
  <1> QED
    BY <1>3, <1>6, <1>7, <1>8 DEF Next

\* What a saved session adds to the stores and to the history.
LEMMA SavedDescends ==
  ASSUME IInv, DescentInv, Descend, NEW r \in Requests, NEW t \in Tokens, Saves(r, t)
  PROVE  /\ redis[t] = "unused" /\ issued[t] = NoSession /\ signIn[t] = Nil
         /\ redis' = [redis EXCEPT ![t] = "live"]
         /\ issued' = [issued EXCEPT ![t] = [user |-> req[r].user, from |-> req[r].token]]
         /\ req[r].token # Nil
              => /\ req[r].token \in Tokens /\ redis[req[r].token] = "gone"
                 /\ req[r].user = issued[req[r].token].user
         /\ signIn' = [signIn EXCEPT ![t] = IF req[r].token = Nil THEN t
                                            ELSE signIn[req[r].token]]
  <1>1. /\ redis[t] = "unused" /\ issued[t] = NoSession /\ signIn[t] = Nil
        /\ redis' = [redis EXCEPT ![t] = "live"]
        /\ issued' = [issued EXCEPT ![t] = [user |-> req[r].user, from |-> req[r].token]]
    BY DEF Saves, Fresh, Saved, NewSession, IInv, StoresOK, DescentInv
  <1>2. /\ redis \in [Tokens -> TokenStates] /\ issued \in [Tokens -> Session]
        /\ signIn \in [Tokens -> Tokens \cup {Nil}]
        /\ req[r].token \in Tokens \cup {Nil}
    BY DEF IInv, TypeOK, DescentInv, Request
  <1>3. req[r].token # Nil
          => /\ req[r].token \in Tokens /\ redis[req[r].token] = "gone"
             /\ req[r].user = issued[req[r].token].user
    BY <1>2, AboutToSave DEF Saves
  <1>4. issued'[t].from = req[r].token
    BY <1>1, <1>2
  <1>5. \A u \in Tokens : u # t => redis[u] # "unused" \/ redis'[u] = "unused"
    BY <1>1, <1>2
  <1>6. redis'[t] = "live"
    BY <1>1, <1>2
  <1>7. /\ signIn'[t] = IF req[r].token = Nil THEN t ELSE signIn[req[r].token]
        /\ \A u \in Tokens : u # t => signIn'[u] = signIn[u]
        /\ signIn' = [u \in Tokens |-> signIn'[u]]
    BY <1>1, <1>4, <1>5, <1>6 DEF Descend
  <1> QED
    BY <1>1, <1>2, <1>3, <1>7

LEMMA DescentSaved ==
  ASSUME IInv, DescentInv, Descend,
         NEW r \in Requests, NEW t \in Tokens, Saves(r, t)
  PROVE  DescentInv'
  <1> DEFINE p == req[r].token
             root == IF p = Nil THEN t ELSE signIn[p]
  <1>1. /\ redis[t] = "unused" /\ issued[t] = NoSession /\ signIn[t] = Nil
        /\ redis' = [redis EXCEPT ![t] = "live"]
        /\ issued' = [issued EXCEPT ![t] = [user |-> req[r].user, from |-> p]]
        /\ p # Nil => /\ p \in Tokens /\ redis[p] = "gone"
                      /\ req[r].user = issued[p].user
        /\ signIn' = [signIn EXCEPT ![t] = root]
    BY SavedDescends
  <1>2. /\ redis \in [Tokens -> TokenStates] /\ issued \in [Tokens -> Session]
        /\ signIn \in [Tokens -> Tokens \cup {Nil}]
        /\ p \in Tokens \cup {Nil}
    BY DEF IInv, TypeOK, DescentInv, Request
  <1>3. p # Nil => /\ signIn[p] \in Tokens /\ signIn[p] # t /\ p # t
                   /\ signIn[signIn[p]] = signIn[p]
                   /\ issued[signIn[p]].user = req[r].user
    BY <1>1, <1>2 DEF DescentInv
  <1>4. /\ redis'[t] = "live" /\ signIn'[t] = root
        /\ issued'[t] = [user |-> req[r].user, from |-> p]
        /\ \A u \in Tokens : u # t => /\ redis'[u] = redis[u]
                                      /\ issued'[u] = issued[u]
                                      /\ signIn'[u] = signIn[u]
    BY <1>1, <1>2
  <1>5. signIn' \in [Tokens -> Tokens \cup {Nil}]
    BY <1>1, <1>2, <1>3
  <1>6. \A u \in Tokens : signIn'[u] = Nil <=> redis'[u] = "unused"
    BY <1>3, <1>4 DEF DescentInv
  <1>7. ASSUME NEW u \in Tokens, signIn'[u] # Nil
        PROVE  /\ signIn'[signIn'[u]] = signIn'[u]
               /\ issued'[signIn'[u]].user = issued'[u].user
    <2>1. CASE u = t
      BY <1>2, <1>3, <1>4, <2>1
    <2>2. CASE u # t
      <3>1. /\ signIn'[u] = signIn[u] /\ signIn[u] \in Tokens /\ issued'[u] = issued[u]
            /\ signIn[signIn[u]] = signIn[u]
            /\ issued[signIn[u]].user = issued[u].user
        BY <1>2, <1>4, <1>7, <2>2 DEF DescentInv
      <3>2. signIn[u] # t
        BY <1>1, <3>1
      <3> QED
        BY <1>4, <3>1, <3>2
    <2> QED
      BY <2>1, <2>2
  <1>8. ASSUME NEW a \in Tokens, NEW b \in Tokens, signIn'[a] # Nil,
               signIn'[a] = signIn'[b], Newest(a)', Newest(b)'
        PROVE  a = b \/ RotatedTwice(signIn[a])'
    <2>1. \E next \in Tokens : issued'[next].from = p
      BY <1>4
    <2>2. ASSUME NEW u \in Tokens, u # t, Newest(u)' PROVE Newest(u)
      <3>1. \A next \in Tokens : next # t => issued[next].from # u
        BY <1>4, <2>2 DEF Newest
      <3>2. issued[t].from # u
        BY <1>1 DEF NoSession
      <3> QED
        BY <3>1, <3>2 DEF Newest
    <2>3. ASSUME NEW x \in Tokens, RotatedTwice(x) PROVE RotatedTwice(x)'
      <3>1. PICK c, d \in Tokens : /\ c # d /\ signIn[c] = x
                                   /\ issued[c].from # Nil /\ issued[c].from = issued[d].from
        BY <2>3 DEF RotatedTwice
      <3>2. c # t /\ d # t
        BY <1>1, <3>1 DEF NoSession
      <3> QED
        BY <1>4, <3>1, <3>2 DEF RotatedTwice
    <2> PICK top \in Tokens : top = root
      BY <1>3
    <2>4. ASSUME NEW u \in Tokens, u # t, Newest(u)', signIn'[u] = top
          PROVE  RotatedTwice(top)'
      <3>1. Newest(u) /\ signIn[u] = top
        BY <1>4, <2>2, <2>4
      <3>2. CASE p = Nil
        BY <1>1, <3>1, <3>2 DEF DescentInv
      <3>3. CASE p # Nil /\ Newest(p)
        <4>1. u = p \/ RotatedTwice(top)
          BY <1>1, <1>3, <3>1, <3>3 DEF DescentInv
        <4>2. u # p
          BY <2>1, <2>4 DEF Newest
        <4> QED
          BY <1>3, <2>3, <3>3, <4>1, <4>2
      <3>4. CASE p # Nil /\ ~Newest(p)
        <4>1. PICK x \in Tokens : issued[x].from = p
          BY <3>4 DEF Newest
        <4>2. x # t /\ signIn[x] = top
          BY <1>1, <3>4, <4>1 DEF NoSession, DescentInv
        <4> QED
          BY <1>4, <3>4, <4>1, <4>2 DEF RotatedTwice
      <3> QED
        BY <3>2, <3>3, <3>4
    <2>5. CASE a = t \/ b = t
      <3>1. signIn'[a] = top
        BY <1>4, <1>8, <2>5
      <3>2. a = b \/ RotatedTwice(top)'
        BY <1>4, <1>8, <2>4, <2>5, <3>1
      <3> QED
        BY <3>1, <3>2 DEF RotatedTwice
    <2>6. CASE a # t /\ b # t
      <3>1. /\ signIn[a] \in Tokens /\ signIn'[a] = signIn[a]
            /\ a = b \/ RotatedTwice(signIn[a])
        BY <1>2, <1>4, <1>8, <2>2, <2>6 DEF DescentInv
      <3>2. a = b \/ RotatedTwice(signIn[a])'
        <4>1. PICK x \in Tokens : x = signIn[a]
          BY <3>1
        <4>2. a = b \/ RotatedTwice(x)'
          BY <2>3, <3>1, <4>1
        <4> QED
          BY <3>1, <4>1, <4>2 DEF RotatedTwice
      <3> QED
        BY <3>2
    <2> QED
      BY <2>5, <2>6
  <1>9. ASSUME NEW u \in Tokens, issued'[u].from # Nil
        PROVE  signIn'[issued'[u].from] = signIn'[u]
    <2>1. CASE u = t
      <3>1. issued'[u].from = p /\ p # Nil /\ p \in Tokens /\ p # t
        BY <1>2, <1>3, <1>4, <1>9, <2>1
      <3> QED
        BY <1>4, <2>1, <3>1
    <2>2. CASE u # t
      <3>1. /\ issued'[u] = issued[u] /\ signIn'[u] = signIn[u]
            /\ redis[issued[u].from] = "gone" /\ issued[u].from \in Tokens
            /\ signIn[issued[u].from] = signIn[u]
        BY <1>2, <1>4, <1>9, <2>2 DEF IInv, StoresOK, DescentInv, Session
      <3>2. issued[u].from # t
        BY <1>1, <3>1
      <3> QED
        BY <1>4, <3>1, <3>2
    <2> QED
      BY <2>1, <2>2
  <1> QED
    BY <1>5, <1>6, <1>7, <1>8, <1>9 DEF DescentInv

LEMMA DescentNext ==
  ASSUME IInv, IInv', StoresGrow, DescentInv, Next, Descend
  PROVE  DescentInv'
  <1>1. CASE \A t \in Tokens : redis[t] = "unused" => redis'[t] = "unused"
    <2>1. UNCHANGED <<issued, signIn>>
      BY <1>1, NothingIssued
    <2>2. \A t \in Tokens : redis'[t] = "unused" <=> redis[t] = "unused"
      BY <1>1 DEF StoresGrow
    <2> QED
      BY <2>1, <2>2 DEF DescentInv, Newest, RotatedTwice
  <1>2. CASE \E t \in Tokens : redis[t] = "unused" /\ redis'[t] # "unused"
    BY <1>2, OnlySavesIssue, DescentSaved
  <1> QED
    BY <1>1, <1>2

-----------------------------------------------------------------------------
(* What a logout ends.                                                     *)

\* The logout of t has succeeded, whether or not the browser knows.
Revoked(t) ==
    \/ t \in loggedOut
    \/ \E r \in Requests : req[r].code = "signed_out" /\ req[r].token = t

\* A logout that did not come too late stays the end of its session: none
\* descends from it, and no refresh holds it.
LogoutInv == \A t \in Tokens : Revoked(t) => t \in overtaken \/ ~Outrun(t)

\* What a step of one handler has to do with refreshes and logouts.
HandlerMoves(r) ==
    /\ Moves(r)
    /\ UNCHANGED issued \/ \E t \in Tokens : Saves(r, t)
    /\ Rotating(req'[r]) => /\ req'[r].token = req[r].token
                            /\ Rotating(req[r]) \/ redis[req[r].token] # "gone"
    /\ req'[r].code = "signed_out" /\ req'[r].token # Nil
          => req[r].pc = "revoke" /\ req'[r].token = req[r].token
    /\ \A t \in loggedOut' :
          t \in loggedOut \/ (req[r].code = "signed_out" /\ req[r].token = t)

LEMMA AnsweringMoves ==
  ASSUME IInv, NEW r \in Requests, NEW code \in Codes \ {"signed_out"},
         Reply(r, req[r], code), UNCHANGED loggedOut,
         UNCHANGED issued \/ \E t \in Tokens : Saves(r, t)
  PROVE  HandlerMoves(r)
  <1>1. req \in [Requests -> Request] /\ req[r] \in Request
    BY DEF IInv, TypeOK
  <1>2. Moves(r) /\ req'[r].pc = "reply" /\ req'[r].code = code
    BY <1>1 DEF Reply, Becomes, Moves, Request
  <1> QED
    BY <1>2 DEF HandlerMoves, Rotating

LEMMA SendMoves ==
  ASSUME IInv, NEW r \in Requests, Send(r)
  PROVE  HandlerMoves(r)
  <1> USE DEF Becomes, Reply, Idle, UnchangedStores, UnchangedBrowser, Moves
  <1>1. req \in [Requests -> Request]
    BY DEF IInv, TypeOK
  <1>2. ASSUME NEW u \in Users, SendLogin(r, u) \/ SendSignup(r, u)
        PROVE  HandlerMoves(r)
    <2>1. /\ Moves(r) /\ req'[r].token = Nil /\ UNCHANGED <<issued, loggedOut>>
      BY <1>1, <1>2, ZenonT(60) DEF SendLogin, SendSignup
    <2> QED
      BY <2>1 DEF HandlerMoves, Rotating
  <1>3. ASSUME SendRefresh(r) PROVE HandlerMoves(r)
    <2>1. /\ Moves(r) /\ UNCHANGED <<issued, loggedOut>>
          /\ req'[r].pc \in {"reply", "load"} /\ req'[r].code # "signed_out"
      BY <1>1, <1>3, ZenonT(60) DEF SendRefresh
    <2> QED
      BY <2>1 DEF HandlerMoves, Rotating
  <1>4. ASSUME SendLogout(r) PROVE HandlerMoves(r)
    <2>1. /\ Moves(r) /\ UNCHANGED <<issued, loggedOut>>
          /\ req'[r].pc \in {"reply", "revoke"}
          /\ req'[r].code = "signed_out" => req'[r].token = Nil
      BY <1>1, <1>4, ZenonT(60) DEF SendLogout
    <2> QED
      BY <2>1 DEF HandlerMoves, Rotating
  <1> QED
    BY <1>2, <1>3, <1>4 DEF Send

LEMMA ServeMoves ==
  ASSUME IInv, NEW r \in Requests, Serve(r)
  PROVE  HandlerMoves(r)
  <1>1. /\ req \in [Requests -> Request] /\ req[r] \in Request /\ HandlerOK(req[r])
    BY DEF IInv, TypeOK
  <1> USE DEF UnchangedStores, UnchangedBrowser
  <1>2. ASSUME Load(r) PROVE HandlerMoves(r)
    <2>1. UNCHANGED <<issued, loggedOut>> /\ req[r].code = "none"
      BY <1>1, <1>2 DEF Load, HandlerOK
    <2>2. CASE Reply(r, req[r], "SESSION_EXPIRED")
      BY <2>1, <2>2, AnsweringMoves DEF Codes
    <2>3. CASE Becomes(r, [req[r] EXCEPT !.pc = "drop"])
      <3>1. Moves(r) /\ req'[r].pc = "drop" /\ req'[r].code = "none"
        BY <1>1, <2>1, <2>3 DEF Becomes, Moves, Request
      <3> QED
        BY <2>1, <3>1 DEF HandlerMoves, Rotating
    <2>4. CASE /\ redis[req[r].token] # "gone"
               /\ Becomes(r, [req[r] EXCEPT !.pc = "delete",
                                           !.user = issued[req[r].token].user])
      <3>1. Moves(r) /\ req'[r].token = req[r].token /\ req'[r].code = "none"
        BY <1>1, <2>1, <2>4 DEF Becomes, Moves, Request
      <3> QED
        BY <2>1, <2>4, <3>1 DEF HandlerMoves
    <2> QED
      BY <1>2, <2>2, <2>3, <2>4 DEF Load
  <1>3. ASSUME DropOverdue(r) PROVE HandlerMoves(r)
    BY <1>3, AnsweringMoves DEF DropOverdue, Codes
  <1>4. ASSUME DeleteOld(r) PROVE HandlerMoves(r)
    <2>1. /\ Moves(r) /\ UNCHANGED <<issued, loggedOut>>
          /\ req[r].pc = "delete" /\ req'[r].token = req[r].token /\ req'[r].code = "none"
      BY <1>1, <1>4 DEF DeleteOld, Becomes, Moves, Request, HandlerOK
    <2> QED
      BY <2>1 DEF HandlerMoves, Rotating
  <1>5. ASSUME Revoke(r) PROVE HandlerMoves(r)
    <2>1. /\ Moves(r) /\ UNCHANGED <<issued, loggedOut>>
          /\ req[r].pc = "revoke" /\ req'[r].pc = "reply" /\ req'[r].token = req[r].token
      BY <1>1, <1>5 DEF Revoke, Reply, Becomes, Moves, Request
    <2> QED
      BY <2>1 DEF HandlerMoves, Rotating
  <1>6. ASSUME NEW t \in Tokens, Save(r, t) PROVE HandlerMoves(r)
    <2>1. /\ Moves(r) /\ UNCHANGED loggedOut /\ Saves(r, t)
          /\ req'[r].pc = "reply" /\ req'[r].code = "ok"
      BY <1>1, <1>6 DEF Save, Saves, Reply, Becomes, Moves, Request
    <2> QED
      BY <2>1 DEF HandlerMoves, Rotating
  <1> QED
    BY <1>2, <1>3, <1>4, <1>5, <1>6 DEF Serve

LEMMA FailMoves ==
  ASSUME IInv, NEW r \in Requests, Fail(r)
  PROVE  HandlerMoves(r)
  <1> USE DEF UnchangedStores, UnchangedBrowser
  <1>1. req \in [Requests -> Request]
    BY DEF IInv, TypeOK
  <1>2. ASSUME NEW kind \in {"login", "signup"}, FailEarly(r, kind)
        PROVE  HandlerMoves(r)
    <2>1. /\ Moves(r) /\ UNCHANGED <<issued, loggedOut>> /\ req'[r].token = Nil
      BY <1>1, <1>2 DEF FailEarly, Reply, Becomes, Moves, Idle
    <2> QED
      BY <2>1 DEF HandlerMoves, Rotating
  <1>3. ASSUME FailLoad(r) \/ FailDelete(r) PROVE HandlerMoves(r)
    BY <1>3, AnsweringMoves DEF FailLoad, FailDelete, Codes
  <1>4. ASSUME FailSave(r) PROVE HandlerMoves(r)
    BY <1>4, AnsweringMoves DEF FailSave, Saves, Codes
  <1> QED
    BY <1>2, <1>3, <1>4 DEF Fail

LEMMA EndMoves ==
  ASSUME IInv, NEW r \in Requests, Deliver(r) \/ Lose(r)
  PROVE  HandlerMoves(r)
  <1>1. Moves(r) /\ req'[r] = Idle /\ UNCHANGED issued
    BY Moved DEF Deliver, Lose, UnchangedStores
  <1>2. \A t \in loggedOut' :
            t \in loggedOut \/ (req[r].code = "signed_out" /\ req[r].token = t)
    BY DEF Deliver, Lose, UnchangedBrowser
  <1> QED
    BY <1>1, <1>2 DEF HandlerMoves, Idle, Rotating

LEMMA NextMoves ==
  ASSUME IInv, Next
  PROVE  UNCHANGED <<req, issued, loggedOut>> \/ \E r \in Requests : HandlerMoves(r)
  <1>1. ASSUME (\E t \in Tokens : SessionLapses(t)) \/ AccessLapses \/ RefreshCookieLapses
        PROVE  UNCHANGED <<req, issued, loggedOut>>
    BY <1>1 DEF SessionLapses, AccessLapses, RefreshCookieLapses, UnchangedStores,
                UnchangedBrowser
  <1> QED
    BY <1>1, SendMoves, ServeMoves, FailMoves, EndMoves DEF Next

\* A session that is gone gets no successor but from a handler that holds it.
LEMMA GoneIsNotOutrun ==
  ASSUME IInv, NEW r \in Requests, HandlerMoves(r), NEW t \in Tokens, Outrun(t)',
         redis[t] = "gone" \/ ~Rotating(req'[r])
  PROVE  Outrun(t)
  <1>1. t # Nil
    BY NilAssumption
  <1>2. ASSUME NEW next \in Tokens, issued'[next].from = t PROVE Outrun(t)
    <2>1. CASE UNCHANGED issued
      BY <1>2, <2>1 DEF Outrun
    <2>2. ASSUME NEW u \in Tokens, Saves(r, u) PROVE Outrun(t)
      <3>1. /\ req[r].pc = "save"
            /\ issued' = [issued EXCEPT ![u] = [user |-> req[r].user, from |-> req[r].token]]
            /\ issued \in [Tokens -> Session]
        BY <2>2 DEF Saves, Saved, NewSession, IInv, TypeOK
      <3>2. CASE next = u
        BY <1>1, <1>2, <3>1, <3>2 DEF Outrun, Rotating
      <3>3. CASE next # u
        BY <1>2, <3>1, <3>3 DEF Outrun
      <3> QED
        BY <3>2, <3>3
    <2> QED
      BY <2>1, <2>2 DEF HandlerMoves
  <1>3. ASSUME NEW q \in Requests, Rotating(req'[q]), req'[q].token = t PROVE Outrun(t)
    BY <1>3 DEF HandlerMoves, Moves, Outrun
  <1> QED
    BY <1>2, <1>3 DEF Outrun

LEMMA LogoutNext ==
  ASSUME IInv, IInv', LogoutInv, Next, Overtake
  PROVE  LogoutInv'
  <1> SUFFICES ASSUME NEW t \in Tokens, Revoked(t)', t \notin overtaken'
               PROVE  ~Outrun(t)'
    BY DEF LogoutInv
  <1>1. t \notin overtaken /\ ~(Outrun(t) /\ \E r \in Requests : Revoking(r, t))
    BY DEF Overtake
  <1>2. CASE UNCHANGED <<req, issued, loggedOut>>
    <2>1. Revoked(t) /\ (Outrun(t)' => Outrun(t))
      BY <1>2 DEF Revoked, Outrun
    <2> QED
      BY <1>1, <2>1 DEF LogoutInv
  <1>3. ASSUME NEW r \in Requests, HandlerMoves(r) PROVE ~Outrun(t)'
    <2>1. CASE Revoked(t)
      <3>1. redis[t] = "gone"
        BY <2>1 DEF Revoked, IInv, BrowserOK, HandlerOK
      <3>2. ~Outrun(t)
        BY <1>1, <2>1 DEF LogoutInv
      <3> QED
        BY <1>3, <3>1, <3>2, GoneIsNotOutrun
    <2>2. CASE ~Revoked(t)
      <3>1. t \notin loggedOut'
        BY <1>3, <2>2 DEF HandlerMoves, Revoked
      <3>2. PICK q \in Requests : req'[q].code = "signed_out" /\ req'[q].token = t
        BY <3>1 DEF Revoked
      <3>3. q = r
        BY <1>3, <2>2, <3>2 DEF HandlerMoves, Moves, Revoked
      <3>4. Revoking(r, t)
        BY <1>3, <3>2, <3>3 DEF HandlerMoves, Revoking
      <3>5. ~Rotating(req'[r])
        <4>1. HandlerOK(req[r])'
          BY DEF IInv
        <4>2. req'[r].pc = "reply"
          BY <3>2, <3>3, <4>1 DEF HandlerOK
        <4> QED
          BY <4>2 DEF Rotating
      <3> QED
        BY <1>1, <1>3, <3>4, <3>5, GoneIsNotOutrun
    <2> QED
      BY <2>1, <2>2
  <1> QED
    BY <1>2, <1>3, NextMoves

LEMMA LogoutInits == LogoutInit => DescentInv /\ LogoutInv
  <1> SUFFICES ASSUME LogoutInit PROVE DescentInv /\ LogoutInv
    OBVIOUS
  <1>1. \A t \in Tokens : redis[t] = "unused" /\ signIn[t] = Nil
    BY DEF LogoutInit, Init, NobodySignedIn
  <1>2. DescentInv
    BY <1>1 DEF DescentInv, NobodySignedIn, LogoutInit, Init, NoSession
  <1>3. LogoutInv
    BY DEF LogoutInit, Init, LogoutInv, Revoked, Idle
  <1> QED
    BY <1>2, <1>3

\* What is left usable of a sign-in that was logged out has a cause.
LEMMA RevokedIsEnded == IInv /\ DescentInv /\ LogoutInv => LogoutEndsSignIn
  <1> SUFFICES ASSUME IInv, DescentInv, LogoutInv, NEW t \in loggedOut,
                      NEW u \in UsableOf(signIn[t]), t \notin overtaken
               PROVE  RotatedTwice(signIn[t])
    BY DEF LogoutEndsSignIn
  <1>1. t \in Tokens /\ redis[t] = "gone"
    BY DEF IInv, TypeOK, BrowserOK
  <1>2. u \in Tokens /\ redis[u] = "live" /\ signIn[u] = signIn[t] /\ u # t
    BY <1>1 DEF UsableOf
  <1>3. Newest(u)
    BY <1>2 DEF IInv, StoresOK, Newest
  <1>4. Newest(t)
    BY <1>1 DEF LogoutInv, Revoked, Outrun, Newest
  <1> QED
    BY <1>1, <1>2, <1>3, <1>4 DEF DescentInv

\* A logout that the browser saw succeed leaves no usable session of its sign-in,
\* however many sessions refreshes have made of it, and whatever overlaps, fails
\* or is lost: unless a refresh had got hold of the session first, or one session
\* of the sign-in was rotated twice.
THEOREM LogoutsEnd == LogoutSpec => []LogoutEndsSignIn
  <1>1. LogoutSpec => Spec
    <2>1. [Next /\ Descend /\ Overtake]_<<vars, signIn, overtaken>> => [Next]_vars
      BY DEF vars
    <2>2. LogoutInit => Init
      BY DEF LogoutInit
    <2> QED
      BY <2>1, <2>2, PTL DEF LogoutSpec, Spec
  <1>2. IInv /\ IInv' /\ DescentInv /\ LogoutInv
          /\ [Next /\ Descend /\ Overtake]_<<vars, signIn, overtaken>>
             => DescentInv' /\ LogoutInv'
    <2>1. IInv /\ IInv' /\ DescentInv /\ LogoutInv /\ Next /\ Descend /\ Overtake
            => DescentInv' /\ LogoutInv'
      BY NextIInv, DescentNext, LogoutNext
    <2>2. DescentInv /\ LogoutInv /\ UNCHANGED <<vars, signIn, overtaken>>
            => DescentInv' /\ LogoutInv'
      BY DEF vars, DescentInv, Newest, RotatedTwice, LogoutInv, Revoked, Outrun, Rotating
    <2> QED
      BY <2>1, <2>2
  <1> QED
    BY <1>1, <1>2, LogoutInits, RevokedIsEnded, Invariance, PTL DEF LogoutSpec

-----------------------------------------------------------------------------
(* What the stores do, in terms of the ledger.                             *)

\* A live session is the only usable one of its sign-in.
LEMMA LiveIsAlone ==
  ASSUME IInv, OneRotationPerToken, DescentInv, NEW t \in Tokens, redis[t] = "live"
  PROVE  signIn[t] \in Tokens /\ UsableOf(signIn[t]) = {t}
  <1>1. \A u \in Tokens : redis[u] = "live" => Newest(u) /\ signIn[u] # Nil
    BY DEF IInv, StoresOK, DescentInv, Newest
  <1>2. \A s : ~RotatedTwice(s)
    BY DEF OneRotationPerToken, RotatedTwice
  <1> QED
    BY <1>1, <1>2 DEF DescentInv, UsableOf

\* Nothing in the books changes when the stores and the history do not.
LEMMA BooksKept ==
  ASSUME UNCHANGED <<redis, issued, signIn>>
  PROVE  UNCHANGED <<Given, Owner, Usable>>
  BY DEF Given, Owner, Usable, UsableOf

\* A session that expires, is deleted or evicted ends what its sign-in can use,
\* or was not usable before.
LEMMA SessionFades ==
  ASSUME IInv, OneRotationPerToken, DescentInv, NEW t \in Tokens, redis[t] # "unused",
         NEW left \in {"overdue", "gone", redis[t]},
         redis' = [redis EXCEPT ![t] = left], UNCHANGED <<issued, signIn>>
  PROVE  /\ signIn[t] \in Tokens
         /\ UNCHANGED <<Given, Owner>>
         /\ \/ UNCHANGED Usable
            \/ Usable' = [Usable EXCEPT ![signIn[t]] = {}]
  <1>1. redis \in [Tokens -> TokenStates] /\ signIn[t] \in Tokens
    BY DEF IInv, TypeOK, DescentInv
  <1>2. redis'[t] = left /\ \A u \in Tokens : u # t => redis'[u] = redis[u]
    BY <1>1
  <1>3. UNCHANGED <<Given, Owner>>
    BY <1>2 DEF Given, Owner
  <1>4. CASE redis[t] # "live" \/ left = "live"
    <2>1. \A u \in Tokens : redis'[u] = "live" <=> redis[u] = "live"
      BY <1>2, <1>4
    <2>2. \A s \in Tokens : UsableOf(s)' = UsableOf(s)
      BY <2>1 DEF UsableOf
    <2> QED
      BY <1>1, <1>3, <2>2 DEF Usable
  <1>5. CASE redis[t] = "live" /\ left # "live"
    <2>1. UsableOf(signIn[t]) = {t}
      BY <1>5, LiveIsAlone
    <2>2. ASSUME NEW s \in Tokens
          PROVE  UsableOf(s)' = IF s = signIn[t] THEN {} ELSE UsableOf(s)
      BY <1>2, <1>5, <2>1 DEF UsableOf
    <2>3. ASSUME NEW s \in Tokens
          PROVE  Usable'[s] = IF s = signIn[t] THEN {} ELSE Usable[s]
      BY <2>2 DEF Usable
    <2>4. Usable' = [Usable EXCEPT ![signIn[t]] = {}]
      BY <2>3 DEF Usable
    <2> QED
      BY <1>1, <1>3, <2>4
  <1> QED
    BY <1>4, <1>5

\* A saved session opens a sign-in, or is what a renewed one can use from now on.
LEMMA SessionSaved ==
  ASSUME IInv, RotationInv, DescentInv, Descend,
         NEW r \in Requests, NEW t \in Tokens, Saves(r, t)
  PROVE  /\ t \notin Given /\ Given' = Given \cup {t}
         /\ req[r].token = Nil
              => /\ Owner' = [Owner EXCEPT ![t] = req[r].user]
                 /\ Usable' = [Usable EXCEPT ![t] = {[token |-> t, user |-> req[r].user]}]
         /\ req[r].token # Nil
              => LET s == signIn[req[r].token] IN
                 /\ s \in Tokens /\ Usable[s] = {}
                 /\ UNCHANGED Owner
                 /\ Usable' = [Usable EXCEPT ![s] = {[token |-> t, user |-> Owner[s]]}]
  <1> DEFINE p == req[r].token
             root == IF p = Nil THEN t ELSE signIn[p]
  <1>1. /\ redis[t] = "unused" /\ issued[t] = NoSession /\ signIn[t] = Nil
        /\ redis' = [redis EXCEPT ![t] = "live"]
        /\ issued' = [issued EXCEPT ![t] = [user |-> req[r].user, from |-> p]]
        /\ p # Nil => /\ p \in Tokens /\ redis[p] = "gone"
                      /\ req[r].user = issued[p].user
        /\ signIn' = [signIn EXCEPT ![t] = root]
    BY SavedDescends
  <1>2. /\ redis \in [Tokens -> TokenStates] /\ issued \in [Tokens -> Session]
        /\ signIn \in [Tokens -> Tokens \cup {Nil}]
        /\ p \in Tokens \cup {Nil}
    BY DEF IInv, TypeOK, DescentInv, Request
  <1>3. p # Nil => /\ signIn[p] \in Tokens /\ signIn[p] # t
                   /\ signIn[signIn[p]] = signIn[p]
                   /\ issued[signIn[p]].user = req[r].user
    BY <1>1, <1>2 DEF DescentInv
  <1>4. /\ redis'[t] = "live" /\ signIn'[t] = root
        /\ issued'[t] = [user |-> req[r].user, from |-> p]
        /\ \A u \in Tokens : u # t => /\ redis'[u] = redis[u]
                                      /\ issued'[u] = issued[u]
                                      /\ signIn'[u] = signIn[u]
    BY <1>1, <1>2
  <1>5. t \notin Given /\ Given' = Given \cup {t}
    BY <1>1, <1>4 DEF Given
  <1>6. root \in Tokens
    BY <1>3
  <1>7. UsableOf(root) = {}
    <2>1. CASE p = Nil
      BY <1>1, <2>1 DEF UsableOf, DescentInv
    <2>2. CASE p # Nil
      <3>1. ASSUME NEW u \in Tokens, redis[u] = "live", signIn[u] = root PROVE FALSE
        <4>1. Newest(u)
          BY <3>1 DEF IInv, StoresOK, Newest
        <4>2. Newest(p)
          BY <2>2 DEF RotationInv, Unrotated, Rotating, Saves, Newest
        <4>3. ~RotatedTwice(root)
          BY DEF RotationInv, OneRotationPerToken, RotatedTwice
        <4>4. u = p
          BY <1>1, <1>3, <2>2, <3>1, <4>1, <4>2, <4>3 DEF DescentInv
        <4> QED
          BY <1>1, <2>2, <3>1, <4>4
      <3> QED
        BY <3>1 DEF UsableOf
    <2> QED
      BY <2>1, <2>2
  <1>8. ASSUME NEW s \in Tokens
        PROVE  UsableOf(s)' = IF s = root THEN {t} ELSE UsableOf(s)
    BY <1>1, <1>4, <1>7 DEF UsableOf
  <1>9. ASSUME NEW s \in Tokens, s # root PROVE Usable'[s] = Usable[s]
    <2>1. UsableOf(s)' = UsableOf(s)
      BY <1>8, <1>9
    <2>2. \A u \in UsableOf(s) : issued'[u] = issued[u]
      BY <1>1, <1>4 DEF UsableOf
    <2> QED
      BY <2>1, <2>2 DEF Usable
  <1>10. Usable'[root] = {[token |-> t, user |-> req[r].user]}
    <2>1. PICK s \in Tokens : s = root
      BY <1>6
    <2>2. UsableOf(s)' = {t} /\ issued'[t].user = req[r].user
      BY <1>4, <1>8, <2>1
    <2>3. {[token |-> u, user |-> issued'[u].user] : u \in UsableOf(s)'}
            = {[token |-> t, user |-> req[r].user]}
      BY <2>2
    <2>4. Usable'[s] = {[token |-> t, user |-> req[r].user]}
      BY <2>3 DEF Usable
    <2> QED
      BY <2>1, <2>4
  <1>11. Usable' = [Usable EXCEPT ![root] = {[token |-> t, user |-> req[r].user]}]
    BY <1>6, <1>9, <1>10 DEF Usable
  <1>12. CASE p = Nil
    <2>1. ASSUME NEW s \in Tokens
          PROVE  Owner'[s] = IF s = t THEN req[r].user ELSE Owner[s]
      BY <1>4, <1>12 DEF Owner
    <2>2. Owner' = [Owner EXCEPT ![t] = req[r].user]
      BY <2>1 DEF Owner
    <2> QED
      BY <1>5, <1>11, <1>12, <2>2
  <1>13. CASE p # Nil
    <2>1. Owner[root] = req[r].user
      BY <1>3, <1>13 DEF Owner
    <2>2. ASSUME NEW s \in Tokens PROVE Owner'[s] = Owner[s]
      BY <1>1, <1>3, <1>4, <1>13 DEF Owner
    <2>3. UNCHANGED Owner
      BY <2>2 DEF Owner
    <2>4. Usable[root] = {}
      BY <1>6, <1>7 DEF Usable
    <2> QED
      BY <1>3, <1>5, <1>11, <1>13, <2>1, <2>3, <2>4
  <1> QED
    BY <1>12, <1>13

-----------------------------------------------------------------------------
(* What the handlers do, in terms of the ledger.                           *)

\* The renewals under way, when one handler moves and refreshes do not overlap.
LEMMA RenewalEnds ==
  ASSUME OneRefreshAtATime, IInv, RotationInv, NEW r \in Requests, Moves(r),
         ~Rotating(req'[r]),
         \A t \in Tokens : redis[t] # "unused" => signIn'[t] = signIn[t]
  PROVE  /\ ~Rotating(req[r]) => Renewing' = Renewing
         /\ Rotating(req[r]) => /\ signIn[req[r].token] \in Renewing
                                /\ Renewing' = Renewing \ {signIn[req[r].token]}
  <1>1. \A q \in Requests : Rotating(req[q]) =>
            /\ req[q].token \in Tokens /\ redis[req[q].token] # "unused"
            /\ q # r => Rotating(req[r]) = FALSE
    BY DEF IInv, TypeOK, HandlerOK, Request, Rotating, RotationInv, RefreshOnly,
           OneRefreshAtATime
  <1>2. \A q \in Requests : q # r => req'[q] = req[q]
    BY DEF Moves
  <1>3. CASE ~Rotating(req[r])
    <2>1. \A q \in Requests : Rotating(req'[q]) <=> Rotating(req[q])
      BY <1>2, <1>3
    <2>2. \A q \in Requests : Rotating(req[q]) => signIn'[req'[q].token] = signIn[req[q].token]
      BY <1>1, <1>2, <1>3
    <2> QED
      BY <1>3, <2>1, <2>2 DEF Renewing
  <1>4. CASE Rotating(req[r])
    <2>1. \A q \in Requests : ~Rotating(req'[q])
      BY <1>1, <1>2, <1>4
    <2>2. Renewing' = {}
      BY <2>1 DEF Renewing
    <2>3. Renewing = {signIn[req[r].token]}
      BY <1>1, <1>4 DEF Renewing
    <2> QED
      BY <1>4, <2>2, <2>3
  <1> QED
    BY <1>3, <1>4

\* A handler that does not rotate, or does so no longer, may have deleted the
\* token it carried; nothing else has changed.
LEMMA HandlerStops ==
  ASSUME OneRefreshAtATime, IInv, RotationInv, DescentInv,
         NEW r \in Requests, Moves(r), ~Rotating(req'[r]),
         UNCHANGED <<accounts, issued, signIn>>,
         \/ UNCHANGED redis
         \/ /\ req[r].token # Nil
            /\ \E left \in {"gone", redis[req[r].token]} :
                   redis' = [redis EXCEPT ![req[r].token] = left]
  PROVE  [Ledger!Next]_(Ledger!ledger)
  <1>1. /\ ~Rotating(req[r]) => Renewing' = Renewing
        /\ Rotating(req[r]) => /\ signIn[req[r].token] \in Renewing
                               /\ Renewing' = Renewing \ {signIn[req[r].token]}
    BY RenewalEnds
  <1>2. req[r].token # Nil => req[r].token \in Tokens /\ redis[req[r].token] # "unused"
    BY DEF IInv, TypeOK, HandlerOK, Request
  <1>3. req[r].token # Nil => signIn[req[r].token] \in Tokens
    BY <1>2 DEF DescentInv
  <1>4. /\ UNCHANGED <<Given, Owner>>
        /\ \/ UNCHANGED Usable
           \/ /\ req[r].token # Nil
              /\ Usable' = [Usable EXCEPT ![signIn[req[r].token]] = {}]
    <2>1. CASE UNCHANGED redis
      BY <2>1, BooksKept
    <2>2. CASE /\ req[r].token # Nil
               /\ \E left \in {"gone", redis[req[r].token]} :
                      redis' = [redis EXCEPT ![req[r].token] = left]
      BY <1>2, <2>2, SessionFades DEF RotationInv
    <2> QED
      BY <2>1, <2>2
  <1>5. CASE ~Rotating(req[r]) /\ UNCHANGED Usable
    BY <1>1, <1>4, <1>5 DEF Ledger!ledger
  <1>6. CASE /\ ~Rotating(req[r])
             /\ req[r].token # Nil
             /\ Usable' = [Usable EXCEPT ![signIn[req[r].token]] = {}]
    <2>1. Ledger!Retire(signIn[req[r].token])
      BY <1>1, <1>4, <1>6 DEF Ledger!Retire
    <2> QED
      BY <1>3, <1>6, <2>1 DEF Ledger!Next
  <1>7. CASE Rotating(req[r])
    <2> DEFINE s == signIn[req[r].token]
    <2>1. s \in Tokens
      BY <1>3, <1>7 DEF Rotating
    <2>2. \E left \in {{}, Usable[s]} : Usable' = [Usable EXCEPT ![s] = left]
      BY <1>4, <2>1 DEF Usable
    <2>3. Ledger!GiveUp(s)
      BY <1>1, <1>4, <1>7, <2>2 DEF Ledger!GiveUp
    <2> QED
      BY <2>1, <2>3 DEF Ledger!Next
  <1> QED
    BY <1>4, <1>5, <1>6, <1>7

\* The handler saves a session: a sign-in opens or is renewed.
LEMMA HandlerSaves ==
  ASSUME OneRefreshAtATime, IInv, RotationInv, DescentInv, Descend,
         NEW r \in Requests, NEW t \in Tokens, Saves(r, t), Moves(r),
         ~Rotating(req'[r]), UNCHANGED accounts
  PROVE  Ledger!Next
  <1>1. \A u \in Tokens : redis[u] # "unused" => signIn'[u] = signIn[u]
    BY DEF Descend
  <1>2. /\ ~Rotating(req[r]) => Renewing' = Renewing
        /\ Rotating(req[r]) => /\ signIn[req[r].token] \in Renewing
                               /\ Renewing' = Renewing \ {signIn[req[r].token]}
    BY <1>1, RenewalEnds
  <1>3. req[r].user \in accounts /\ req[r].user \in Users
    BY AboutToSave DEF Saves, IInv, TypeOK
  <1>4. t \notin Given /\ Given' = Given \cup {t}
    BY SessionSaved
  <1>5. CASE req[r].token = Nil
    <2>1. Renewing' = Renewing
      BY <1>2, <1>5 DEF Rotating
    <2>2. /\ Owner' = [Owner EXCEPT ![t] = req[r].user]
          /\ Usable' = [Usable EXCEPT ![t] = {[token |-> t, user |-> req[r].user]}]
      BY <1>5, SessionSaved
    <2>3. Ledger!Open(t, req[r].user)
      BY <1>3, <1>4, <2>1, <2>2 DEF Ledger!Open, Ledger!Key
    <2> QED
      BY <1>3, <2>3 DEF Ledger!Next
  <1>6. CASE req[r].token # Nil
    <2> DEFINE s == signIn[req[r].token]
    <2>1. Rotating(req[r])
      BY <1>6 DEF Saves, Rotating
    <2>2. /\ s \in Tokens /\ Usable[s] = {} /\ UNCHANGED Owner
          /\ Usable' = [Usable EXCEPT ![s] = {[token |-> t, user |-> Owner[s]]}]
      BY <1>6, SessionSaved
    <2>3. Ledger!Renew(s, t)
      BY <1>2, <1>4, <2>1, <2>2 DEF Ledger!Renew, Ledger!Key
    <2> QED
      BY <2>2, <2>3 DEF Ledger!Next
  <1> QED
    BY <1>5, <1>6

LEMMA LedgerSend ==
  ASSUME OneRefreshAtATime, IInv, IInv', StoresGrow, RotationInv, DescentInv, Descend,
         NEW r \in Requests, Send(r)
  PROVE  [Ledger!Next]_(Ledger!ledger)
  <1>1. req \in [Requests -> Request] /\ req[r].pc = "idle" /\ UNCHANGED <<redis, issued>>
    BY DEF IInv, TypeOK, Send, SendLogin, SendSignup, SendRefresh, SendLogout,
           UnchangedStores
  <1>2. UNCHANGED signIn /\ ~Rotating(req[r])
    BY <1>1, NothingIssued DEF Rotating
  <1>3. ASSUME NEW u \in Users, SendSignup(r, u), accounts' = accounts \cup {u}
        PROVE  Ledger!Next
    <2>1. Moves(r) /\ ~Rotating(req'[r])
      BY <1>1, <1>3 DEF SendSignup, Reply, Becomes, Moves, Idle, Rotating
    <2>2. UNCHANGED <<Given, Owner, Usable, Renewing>>
      BY <1>1, <1>2, <2>1, BooksKept, RenewalEnds
    <2>3. Ledger!SignUp(u)
      BY <1>3, <2>2 DEF Ledger!SignUp
    <2> QED
      BY <2>3 DEF Ledger!Next
  <1>4. ASSUME NEW u \in Users, SendLogin(r, u) \/ SendSignup(r, u), UNCHANGED accounts
        PROVE  [Ledger!Next]_(Ledger!ledger)
    <2>1. Moves(r) /\ ~Rotating(req'[r])
      BY <1>1, <1>4 DEF SendLogin, SendSignup, Reply, Becomes, Moves, Idle, Rotating
    <2> QED
      BY <1>1, <1>2, <1>4, <2>1, HandlerStops
  <1>5. ASSUME SendRefresh(r) \/ SendLogout(r) PROVE [Ledger!Next]_(Ledger!ledger)
    <2>1. UNCHANGED accounts
      BY <1>5 DEF SendRefresh, SendLogout, UnchangedStores
    <2>2. Moves(r) /\ req'[r].pc \in {"reply", "load", "revoke"}
      BY <1>1, <1>5, ZenonT(60) DEF SendRefresh, SendLogout, Reply, Becomes, Moves, Idle
    <2>3. Moves(r) /\ ~Rotating(req'[r])
      BY <2>2 DEF Rotating
    <2> QED
      BY <1>1, <1>2, <2>1, <2>3, HandlerStops
  <1> QED
    BY <1>3, <1>4, <1>5, ZenonT(60) DEF Send, SendLogin, SendSignup, UnchangedStores

LEMMA LedgerLoad ==
  ASSUME OneRefreshAtATime, IInv, IInv', StoresGrow, RotationInv, DescentInv, Descend,
         NEW r \in Requests, Load(r)
  PROVE  [Ledger!Next]_(Ledger!ledger)
  <1> DEFINE t == req[r].token
  <1>1. /\ req \in [Requests -> Request] /\ req[r] \in Request /\ HandlerOK(req[r])
        /\ req[r].pc = "load" /\ UNCHANGED <<accounts, redis, issued>>
    BY DEF IInv, TypeOK, Load, UnchangedStores
  <1>2. UNCHANGED signIn /\ ~Rotating(req[r])
    BY <1>1, NothingIssued DEF Rotating
  <1>3. CASE Reply(r, req[r], "SESSION_EXPIRED")
    <2>1. Moves(r) /\ ~Rotating(req'[r])
      BY <1>1, <1>3, Replied DEF Rotating
    <2> QED
      BY <1>1, <1>2, <2>1, HandlerStops
  <1>4. CASE Becomes(r, [req[r] EXCEPT !.pc = "drop"])
    <2>1. Moves(r) /\ ~Rotating(req'[r])
      BY <1>1, <1>4, Moved DEF Rotating, Request
    <2> QED
      BY <1>1, <1>2, <2>1, HandlerStops
  <1>5. CASE /\ redis[t] # "gone" /\ ~Expired(t)
             /\ Becomes(r, [req[r] EXCEPT !.pc = "delete", !.user = issued[t].user])
    <2>1. t \in Tokens /\ redis[t] = "live"
      BY <1>1, <1>5 DEF HandlerOK, Request, Expired, IInv, TypeOK, TokenStates
    <2>2. Moves(r) /\ req'[r].pc = "delete" /\ req'[r].token = t
      BY <1>1, <1>5 DEF Becomes, Moves, Request
    <2>3. Renewing' = Renewing \cup {signIn[t]}
      <3>1. \A q \in Requests : Rotating(req'[q]) <=> q = r \/ Rotating(req[q])
        BY <2>1, <2>2 DEF Moves, Rotating
      <3>2. \A q \in Requests : Rotating(req[q]) => req'[q] = req[q]
        BY <1>2, <2>2 DEF Moves
      <3> QED
        BY <1>2, <2>2, <3>1, <3>2 DEF Renewing
    <2>4. UNCHANGED <<Given, Owner, Usable>>
      BY <1>1, <1>2, BooksKept
    <2>5. signIn[t] \in Tokens /\ Usable[signIn[t]] # {}
      <3>1. signIn[t] \in Tokens /\ t \in UsableOf(signIn[t])
        BY <2>1, LiveIsAlone DEF RotationInv
      <3>2. [token |-> t, user |-> issued[t].user] \in Usable[signIn[t]]
        BY <3>1 DEF Usable
      <3> QED
        BY <3>1, <3>2
    <2>6. Ledger!BeginRenewal(signIn[t])
      BY <1>1, <2>3, <2>4, <2>5 DEF Ledger!BeginRenewal
    <2> QED
      BY <2>5, <2>6 DEF Ledger!Next
  <1> QED
    BY <1>3, <1>4, <1>5 DEF Load

LEMMA LedgerDeleteOld ==
  ASSUME OneRefreshAtATime, IInv, IInv', StoresGrow, RotationInv, DescentInv, Descend,
         NEW r \in Requests, DeleteOld(r)
  PROVE  [Ledger!Next]_(Ledger!ledger)
  <1> DEFINE t == req[r].token
  <1>1. /\ req[r] \in Request /\ req[r].pc = "delete" /\ UNCHANGED <<accounts, issued>>
        /\ t \in Tokens /\ redis[t] # "unused"
        /\ redis' = [redis EXCEPT ![t] = "gone"]
    BY DEF IInv, TypeOK, DeleteOld, HandlerOK, Request
  <1>2. UNCHANGED signIn
    <2>1. \A u \in Tokens : redis[u] = "unused" => redis'[u] = "unused"
      BY <1>1
    <2> QED
      BY <2>1, NothingIssued
  <1>3. Moves(r) /\ req'[r].pc = "save" /\ req'[r].token = t
    BY <1>1, Moved DEF DeleteOld, Request
  <1>4. Renewing' = Renewing
    <2>1. \A q \in Requests : /\ Rotating(req'[q]) <=> Rotating(req[q])
                              /\ req'[q].token = req[q].token
      BY <1>1, <1>3 DEF Moves, Rotating
    <2> QED
      BY <1>2, <2>1 DEF Renewing
  <1>5. /\ signIn[t] \in Tokens
        /\ UNCHANGED <<Given, Owner>>
        /\ \/ UNCHANGED Usable
           \/ Usable' = [Usable EXCEPT ![signIn[t]] = {}]
    BY <1>1, <1>2, SessionFades DEF RotationInv
  <1>6. CASE UNCHANGED Usable
    BY <1>1, <1>4, <1>5, <1>6 DEF Ledger!ledger
  <1>7. CASE Usable' = [Usable EXCEPT ![signIn[t]] = {}]
    <2>1. Ledger!Retire(signIn[t])
      BY <1>1, <1>4, <1>5, <1>7 DEF Ledger!Retire
    <2> QED
      BY <1>5, <2>1 DEF Ledger!Next
  <1> QED
    BY <1>5, <1>6, <1>7

\* The handlers that answer: after a deletion, a save, a failure, or at the end.
LEMMA LedgerAnswer ==
  ASSUME OneRefreshAtATime, IInv, IInv', StoresGrow, RotationInv, DescentInv, Descend,
         NEW r \in Requests,
         \/ DropOverdue(r) \/ Revoke(r) \/ Fail(r) \/ Deliver(r) \/ Lose(r)
         \/ \E t \in Tokens : Save(r, t)
  PROVE  [Ledger!Next]_(Ledger!ledger)
  <1>1. req[r] \in Request /\ HandlerOK(req[r]) /\ redis \in [Tokens -> TokenStates]
    BY DEF IInv, TypeOK
  <1>2. Moves(r) /\ req'[r].pc \in {"reply", "idle"} /\ UNCHANGED accounts
    <2>1. \A t \in Tokens : [req[r] EXCEPT !.new = t] \in Request
      BY <1>1 DEF Request
    <2>2. \A kind \in {"login", "signup"} : [Idle EXCEPT !.kind = kind] \in Request
      BY DEF Idle, Request, Stages, Kinds, Codes
    <2>3. DropOverdue(r) \/ Revoke(r) => Moves(r) /\ req'[r].pc = "reply" /\ UNCHANGED accounts
      BY <1>1, Replied DEF DropOverdue, Revoke
    <2>4. Fail(r) => Moves(r) /\ req'[r].pc = "reply" /\ UNCHANGED accounts
      BY <1>1, <2>2, Replied DEF Fail, FailEarly, FailLoad, FailDelete, FailSave,
                                 UnchangedStores
    <2>5. Deliver(r) \/ Lose(r) => Moves(r) /\ req'[r].pc = "idle" /\ UNCHANGED accounts
      BY Moved DEF Deliver, Lose, Idle, UnchangedStores
    <2>6. \A t \in Tokens : Save(r, t)
            => Moves(r) /\ req'[r].pc = "reply" /\ UNCHANGED accounts
      BY <2>1, Replied DEF Save
    <2> QED
      BY <2>3, <2>4, <2>5, <2>6
  <1>3. ~Rotating(req'[r])
    BY <1>2 DEF Rotating
  <1>4. \/ \E t \in Tokens : Saves(r, t)
        \/ UNCHANGED redis
        \/ /\ req[r].token \in Tokens /\ redis[req[r].token] # "unused"
           /\ \E left \in {"gone", redis[req[r].token]} :
                  redis' = [redis EXCEPT ![req[r].token] = left]
    BY <1>1 DEF Saves, Save, DropOverdue, Revoke, Fail, FailEarly, FailLoad, FailDelete,
                FailSave, Deliver, Lose, UnchangedStores, HandlerOK, Request
  <1>5. CASE \E t \in Tokens : Saves(r, t)
    BY <1>2, <1>3, <1>5, HandlerSaves
  <1>6. CASE \/ UNCHANGED redis
             \/ /\ req[r].token \in Tokens /\ redis[req[r].token] # "unused"
                /\ \E left \in {"gone", redis[req[r].token]} :
                       redis' = [redis EXCEPT ![req[r].token] = left]
    <2>1. \A t \in Tokens : redis[t] = "unused" => redis'[t] = "unused"
      BY <1>1, <1>6
    <2>2. UNCHANGED <<issued, signIn>>
      BY <2>1, NothingIssued
    <2> QED
      BY <1>2, <1>3, <1>6, <2>2, HandlerStops
  <1> QED
    BY <1>4, <1>5, <1>6

LEMMA LedgerClock ==
  ASSUME IInv, IInv', StoresGrow, RotationInv, DescentInv, Descend,
         \/ \E t \in Tokens : SessionLapses(t)
         \/ AccessLapses \/ RefreshCookieLapses
  PROVE  [Ledger!Next]_(Ledger!ledger)
  <1>1. redis \in [Tokens -> TokenStates] /\ UNCHANGED <<accounts, req>>
    BY DEF IInv, TypeOK, SessionLapses, AccessLapses, RefreshCookieLapses, UnchangedStores
  <1>2. UNCHANGED signIn => UNCHANGED Renewing
    BY <1>1 DEF Renewing
  <1>3. CASE AccessLapses \/ RefreshCookieLapses
    <2>1. UNCHANGED <<redis, issued>>
      BY <1>3 DEF AccessLapses, RefreshCookieLapses, UnchangedStores
    <2>2. UNCHANGED signIn
      BY <2>1, NothingIssued
    <2>3. UNCHANGED <<Given, Owner, Usable, Renewing>>
      BY <1>2, <2>1, <2>2, BooksKept
    <2> QED
      BY <1>1, <2>3 DEF Ledger!ledger
  <1>4. ASSUME NEW t \in Tokens, SessionLapses(t) PROVE [Ledger!Next]_(Ledger!ledger)
    <2>1. PICK left \in {"overdue", "gone"} : redis' = [redis EXCEPT ![t] = left]
      BY <1>1, <1>4 DEF SessionLapses
    <2>2. redis[t] # "unused" /\ UNCHANGED issued
      BY <1>4 DEF SessionLapses
    <2>3. \A u \in Tokens : redis[u] = "unused" => redis'[u] = "unused"
      BY <1>1, <2>1, <2>2
    <2>4. UNCHANGED signIn
      BY <2>3, NothingIssued
    <2>5. /\ signIn[t] \in Tokens
          /\ UNCHANGED <<Given, Owner, Renewing>>
          /\ \/ UNCHANGED Usable
             \/ Usable' = [Usable EXCEPT ![signIn[t]] = {}]
      BY <1>2, <2>1, <2>2, <2>4, SessionFades DEF RotationInv
    <2>6. CASE UNCHANGED Usable
      BY <1>1, <2>5, <2>6 DEF Ledger!ledger
    <2>7. CASE Usable' = [Usable EXCEPT ![signIn[t]] = {}]
      <3>1. Ledger!Retire(signIn[t])
        BY <1>1, <2>5, <2>7 DEF Ledger!Retire
      <3> QED
        BY <2>5, <3>1 DEF Ledger!Next
    <2> QED
      BY <2>5, <2>6, <2>7
  <1> QED
    BY <1>3, <1>4

LEMMA LedgerNext ==
  OneRefreshAtATime /\ IInv /\ IInv' /\ RotationInv /\ DescentInv
    /\ [Next /\ Descend]_<<vars, signIn>>
       => DescentInv' /\ [Ledger!Next]_(Ledger!ledger)
  <1> SUFFICES ASSUME OneRefreshAtATime, IInv, IInv', RotationInv, DescentInv,
                      [Next /\ Descend]_<<vars, signIn>>
               PROVE  DescentInv' /\ [Ledger!Next]_(Ledger!ledger)
    OBVIOUS
  <1>1. CASE Next /\ Descend
    <2>1. StoresGrow
      BY <1>1, NextIInv
    <2>2. DescentInv'
      BY <1>1, <2>1, DescentNext
    <2>3. ASSUME NEW r \in Requests, Serve(r) PROVE [Ledger!Next]_(Ledger!ledger)
      BY <1>1, <2>1, <2>3, LedgerLoad, LedgerDeleteOld, LedgerAnswer DEF Serve
    <2>4. [Ledger!Next]_(Ledger!ledger)
      BY <1>1, <2>1, <2>3, LedgerSend, LedgerAnswer, LedgerClock DEF Next
    <2> QED
      BY <2>2, <2>4
  <1>2. CASE UNCHANGED <<vars, signIn>>
    <2>1. DescentInv'
      BY <1>2 DEF vars, DescentInv, Newest, RotatedTwice
    <2>2. UNCHANGED <<Given, Owner, Usable>>
      BY <1>2, BooksKept DEF vars
    <2>3. UNCHANGED <<accounts, Renewing>>
      BY <1>2 DEF vars, Renewing
    <2> QED
      BY <2>1, <2>2, <2>3 DEF Ledger!ledger
  <1> QED
    BY <1>1, <1>2

LEMMA LedgerInit == Init /\ NobodySignedIn => DescentInv /\ Ledger!Init
  <1> SUFFICES ASSUME Init, NobodySignedIn PROVE DescentInv /\ Ledger!Init
    OBVIOUS
  <1>1. \A t \in Tokens : redis[t] = "unused" /\ signIn[t] = Nil
    BY DEF Init, NobodySignedIn
  <1>2. DescentInv
    BY <1>1 DEF DescentInv, NobodySignedIn, Init, NoSession
  <1>3. Given = {} /\ Owner = [s \in Tokens |-> Nil]
    BY <1>1 DEF Given, Owner
  <1>4. Usable = [s \in Tokens |-> {}]
    BY <1>1 DEF Usable, UsableOf
  <1>5. Renewing = {}
    BY DEF Renewing, Init, Idle, Rotating
  <1> QED
    BY <1>2, <1>3, <1>4, <1>5 DEF Ledger!Init, Init

\* As long as refreshes do not overlap at the server, the session service keeps
\* the ledger: at most one usable session of each sign-in, a new one only in
\* place of one that a refresh found usable, and always for the user who signed
\* in.  No other overlap, failure or loss breaks it.
THEOREM ServiceKeepsLedger ==
  SignInSpec /\ []OneRefreshAtATime => ImplementsLedger
  <1>1. SignInSpec => Spec
    <2>1. [Next /\ Descend]_<<vars, signIn>> => [Next]_vars
      BY DEF vars
    <2> QED
      BY <2>1, PTL DEF SignInSpec, Spec
  <1>2. Init => RotationInv
    BY RotationInit
  <1>3. OneRefreshAtATime /\ IInv /\ RotationInv /\ [Next /\ Descend]_<<vars, signIn>>
          => RotationInv'
    BY RotationNext DEF vars
  <1> QED
    BY <1>1, <1>2, <1>3, Invariance, LedgerInit, LedgerNext, PTL
    DEF SignInSpec, ImplementsLedger, Ledger!Spec

-----------------------------------------------------------------------------
(* What whoever signs in may rely on.                                      *)

LEMMA LedgerPromises ==
  Ledger!Spec => []Ledger!OneTokenAtATime /\ Ledger!EndedForGood
  <1> DEFINE Inv == /\ Ledger!OneTokenAtATime
                    /\ \A s \in Tokens : Owner[s] # Nil => s \in Given
  <1> USE DEF Ledger!OneTokenAtATime
  <1>1. Ledger!Init => Inv
    BY DEF Ledger!Init
  <1>2. DOMAIN Owner = Tokens /\ DOMAIN Usable = Tokens
    BY DEF Owner, Usable
  <1>3. Owner = [s \in Tokens |-> Owner[s]] /\ Usable = [s \in Tokens |-> Usable[s]]
    BY DEF Owner, Usable
  <1>4. ASSUME Inv, Ledger!Next
        PROVE  /\ Inv'
               /\ \A s \in Tokens : Owner[s] # Nil /\ Usable[s] = {} /\ s \notin Renewing
                                      => Usable'[s] = {}
    <2>1. ASSUME NEW u \in Users, Ledger!SignUp(u)
          PROVE  UNCHANGED <<Given, Owner, Usable>>
      BY <2>1 DEF Ledger!SignUp
    <2>2. ASSUME NEW s \in Tokens, NEW u \in Users, Ledger!Open(s, u)
          PROVE  /\ s \notin Given /\ Given' = Given \cup {s}
                 /\ Owner'[s] = u /\ Usable'[s] = {[token |-> s, user |-> u]}
                 /\ \A q \in Tokens : q # s => Owner'[q] = Owner[q] /\ Usable'[q] = Usable[q]
      BY <1>3, <2>2 DEF Ledger!Open, Ledger!Key
    <2>3. ASSUME NEW s \in Tokens, Ledger!Retire(s) \/ Ledger!BeginRenewal(s) \/ Ledger!GiveUp(s)
          PROVE  /\ UNCHANGED <<Given, Owner>>
                 /\ \A q \in Tokens : Usable'[q] \in {{}, Usable[q]}
      BY <1>3, <2>3 DEF Ledger!Retire, Ledger!BeginRenewal, Ledger!GiveUp
    <2>4. ASSUME NEW s \in Tokens, NEW t \in Tokens, Ledger!Renew(s, t)
          PROVE  /\ s \in Renewing
                 /\ Given' = Given \cup {t} /\ UNCHANGED Owner
                 /\ Usable'[s] = {[token |-> t, user |-> Owner[s]]}
                 /\ \A q \in Tokens : q # s => Usable'[q] = Usable[q]
      BY <1>3, <2>4 DEF Ledger!Renew, Ledger!Key
    <2>5. CASE \E u \in Users : Ledger!SignUp(u)
      BY <1>4, <2>1, <2>5
    <2>6. CASE \E s \in Tokens, u \in Users : Ledger!Open(s, u)
      BY <1>4, <2>2, <2>6
    <2>7. CASE \E s \in Tokens : Ledger!Retire(s) \/ Ledger!BeginRenewal(s) \/ Ledger!GiveUp(s)
      BY <1>4, <2>3, <2>7
    <2>8. CASE \E s \in Tokens, t \in Tokens : Ledger!Renew(s, t)
      BY <1>4, <2>4, <2>8
    <2> QED
      BY <1>4, <2>5, <2>6, <2>7, <2>8 DEF Ledger!Next
  <1>5. Inv /\ UNCHANGED Ledger!ledger => Inv'
    BY DEF Ledger!ledger
  <1>6. Inv /\ [Ledger!Next]_(Ledger!ledger) => Inv'
    BY <1>4, <1>5
  <1>7. Inv /\ [Ledger!Next]_(Ledger!ledger)
          => [\A s \in Tokens : Owner[s] # Nil /\ Usable[s] = {} /\ s \notin Renewing
                                  => Usable'[s] = {}]_(Ledger!ledger)
    BY <1>4
  <1>8. Inv => Ledger!OneTokenAtATime
    OBVIOUS
  <1> HIDE DEF Inv
  <1> QED
    BY <1>1, <1>6, <1>7, <1>8, PTL DEF Ledger!Spec, Ledger!EndedForGood

\* A sign-in has one usable session at a time, of the user who signed in.
THEOREM OneSessionPerSignIn ==
  SignInSpec /\ []OneRefreshAtATime => []Ledger!OneTokenAtATime
  BY ServiceKeepsLedger, LedgerPromises, PTL DEF ImplementsLedger

\* A sign-in whose session has expired, was revoked, or was lost in a refresh that
\* failed does not come back, unless a refresh that found it usable is still
\* under way: whoever it belongs to signs in again.
THEOREM SignInsEnd ==
  SignInSpec /\ []OneRefreshAtATime => Ledger!EndedForGood
  BY ServiceKeepsLedger, LedgerPromises, PTL DEF ImplementsLedger

=============================================================================
