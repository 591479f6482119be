--------------------------- MODULE MCAuthSessions ---------------------------
(* Instances of AuthSessions, watched by Logouts, for TLC. *)
EXTENDS Logouts, TLC

CONSTANTS u1, u2, t1, t2, t3, r1, r2

TwoUsers == {u1, u2}
OneUser == {u1}
ThreeTokens == {t1, t2, t3}
TwoRequests == {r1, r2}
OneRequest == {r1}

\* Users, tokens and requests are interchangeable: a fresh token is any unused
\* one, and no action or property orders them.
Symmetry == Permutations(Users) \cup Permutations(Tokens) \cup Permutations(Requests)
=============================================================================
