------------------------------ MODULE Logouts ------------------------------
(***************************************************************************)
(* What a logout ends.  POST /auth/logout deletes the session of the token *)
(* it carries and no other; a refresh of that token that is under way, or  *)
(* is done, saves its successor all the same.  A history variable, which   *)
(* no handler reads, notes the logouts that came too late.                 *)
(***************************************************************************)
EXTENDS SignIns

VARIABLE
    overtaken   \* tokens that a refresh had got hold of when a logout revoked them

\* A refresh has saved the successor of t, or has loaded t and is about to.
Outrun(t) ==
    \/ \E next \in Tokens : issued[next].from = t
    \/ \E r \in Requests : Rotating(req[r]) /\ req[r].token = t

Revoking(r, t) ==
    req[r].pc = "revoke" /\ req[r].token = t /\ req'[r].code = "signed_out"

Overtake ==
    overtaken' = overtaken \cup {t \in Tokens : Outrun(t) /\ \E r \in Requests : Revoking(r, t)}

LogoutInit == Init /\ NobodySignedIn /\ overtaken = {}

LogoutSpec ==
    LogoutInit /\ [][Next /\ Descend /\ Overtake]_<<vars, signIn, overtaken>>

\* Two sessions of the sign-in s have the same predecessor.
RotatedTwice(s) ==
    \E t, u \in Tokens : /\ t # u /\ signIn[t] = s
                         /\ issued[t].from # Nil /\ issued[t].from = issued[u].from

-----------------------------------------------------------------------------
(* Property.                                                               *)

\* A logout that the browser saw succeed ends the sign-in, the sessions that
\* refreshes had made of it before included, but for two cases: a refresh had
\* loaded the very token before the logout revoked it, or two overlapping refreshes
\* have made two sessions of one, and the line of the other one goes on.
LogoutEndsSignIn ==
    \A t \in loggedOut :
        UsableOf(signIn[t]) # {} => t \in overtaken \/ RotatedTwice(signIn[t])
=============================================================================
