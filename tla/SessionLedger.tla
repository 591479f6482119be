--------------------------- MODULE SessionLedger ---------------------------
(***************************************************************************)
(* What the session service promises whoever signs in, without requests,   *)
(* store commands, cookies or a clock.  A sign-in is named after the first *)
(* token it was given.  Of all the tokens it is given in its life it can   *)
(* use one at a time; it gets another only through a renewal that was      *)
(* begun while it could use one; and they all stand for the user who       *)
(* signed in.                                                              *)
(***************************************************************************)
CONSTANTS Users, Tokens, Nil

VARIABLES
    accounts,   \* users who have signed up
    given,      \* tokens that were given out
    owner,      \* owner[s]: the user who signed in, Nil if s is no sign-in
    usable,     \* usable[s]: the tokens of s that are accepted, with their user
    renewing    \* sign-ins of which a renewal is under way

ledger == <<accounts, given, owner, usable, renewing>>

Key(t, u) == [token |-> t, user |-> u]

Init ==
    /\ accounts = {}
    /\ given = {}
    /\ owner = [s \in Tokens |-> Nil]
    /\ usable = [s \in Tokens |-> {}]
    /\ renewing = {}

SignUp(u) ==
    /\ accounts' = accounts \cup {u}
    /\ UNCHANGED <<given, owner, usable, renewing>>

\* A sign-in begins.
Open(s, u) ==
    /\ u \in accounts
    /\ s \notin given
    /\ given' = given \cup {s}
    /\ owner' = [owner EXCEPT ![s] = u]
    /\ usable' = [usable EXCEPT ![s] = {Key(s, u)}]
    /\ UNCHANGED <<accounts, renewing>>

\* A token ends: it expires, is revoked, or a renewal is about to replace it.
Retire(s) ==
    /\ usable' = [usable EXCEPT ![s] = {}]
    /\ UNCHANGED <<accounts, given, owner, renewing>>

\* Somebody presents the token that the sign-in can use.
BeginRenewal(s) ==
    /\ usable[s] # {}
    /\ renewing' = renewing \cup {s}
    /\ UNCHANGED <<accounts, given, owner, usable>>

\* The sign-in gets another token in place of one that has ended.
Renew(s, t) ==
    /\ s \in renewing
    /\ usable[s] = {}
    /\ t \notin given
    /\ given' = given \cup {t}
    /\ usable' = [usable EXCEPT ![s] = {Key(t, owner[s])}]
    /\ renewing' = renewing \ {s}
    /\ UNCHANGED <<accounts, owner>>

\* A renewal fails, perhaps after it has ended the token.
GiveUp(s) ==
    /\ s \in renewing
    /\ renewing' = renewing \ {s}
    /\ \E left \in {{}, usable[s]} : usable' = [usable EXCEPT ![s] = left]
    /\ UNCHANGED <<accounts, given, owner>>

Next ==
    \/ \E u \in Users : SignUp(u)
    \/ \E s \in Tokens : \/ \E u \in Users : Open(s, u)
                         \/ Retire(s)
                         \/ BeginRenewal(s)
                         \/ \E t \in Tokens : Renew(s, t)
                         \/ GiveUp(s)

Spec == Init /\ [][Next]_ledger

\* A sign-in can use one token at a time, and it stands for its user.
OneTokenAtATime ==
    \A s \in Tokens : \A k, l \in usable[s] : k = l /\ k.user = owner[s]

\* A sign-in that has nothing it can use, and no renewal under way, is over: it
\* has to be begun anew.
EndedForGood ==
    [][\A s \in Tokens : owner[s] # Nil /\ usable[s] = {} /\ s \notin renewing
                             => usable'[s] = {}]_ledger
=============================================================================
