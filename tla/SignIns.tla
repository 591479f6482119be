------------------------------ MODULE SignIns ------------------------------
(***************************************************************************)
(* AuthSessions watched by one history variable, which no handler reads:   *)
(* the sign-in that each refresh token descends from.  In these terms the  *)
(* session service keeps a SessionLedger.                                  *)
(***************************************************************************)
EXTENDS AuthSessions

VARIABLE
    signIn   \* signIn[t]: the first token of the sign-in of t; Nil if t is unused

\* A token saved by a sign-in is the first one; one saved by a refresh belongs to
\* the sign-in of the token it was rotated from.
Descend ==
    signIn' = [t \in Tokens |->
                  IF redis[t] # "unused" \/ redis'[t] = "unused" THEN signIn[t]
                  ELSE IF issued'[t].from = Nil THEN t
                  ELSE signIn[issued'[t].from]]

NobodySignedIn == signIn = [t \in Tokens |-> Nil]

SignInSpec == Init /\ NobodySignedIn /\ [][Next /\ Descend]_<<vars, signIn>>

\* A handler that is going to save the successor of a session.
Rotating(q) == q.pc \in {"delete", "save"} /\ q.token # Nil

Given == {t \in Tokens : redis[t] # "unused"}

\* A sign-in has the name of its first token.
Owner == [s \in Tokens |-> IF signIn[s] = s THEN issued[s].user ELSE Nil]

UsableOf(s) == {t \in Tokens : redis[t] = "live" /\ signIn[t] = s}

Usable ==
    [s \in Tokens |-> {[token |-> t, user |-> issued[t].user] : t \in UsableOf(s)}]

Renewing == {signIn[req[r].token] : r \in {q \in Requests : Rotating(req[q])}}

Ledger == INSTANCE SessionLedger WITH
    given <- Given, owner <- Owner, usable <- Usable, renewing <- Renewing

\* The service keeps the ledger: however refreshes, sign-ins, logouts, failures
\* and lost answers follow each other, a sign-in never has two usable sessions,
\* never gets one back without a refresh that found it usable, and never
\* changes hands.  It takes a client whose refreshes do not overlap.
ImplementsLedger == Ledger!Spec
=============================================================================
