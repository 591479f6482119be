----------------------------- MODULE MCAuthPage -----------------------------
(* Instances of AuthPage for TLC. *)
EXTENDS AuthPage, TLC

CONSTANTS u1, t1, t2, r1, r2, c1, c2

OneUser == {u1}
TwoTokens == {t1, t2}
OneRequest == {r1}
TwoRequests == {r1, r2}
TwoCalls == {c1, c2}

\* Tokens, requests and calls are interchangeable: nothing orders them.
Symmetry == Permutations(Tokens) \cup Permutations(Requests) \cup Permutations(Calls)
=============================================================================
