-------------------------- MODULE MCReferenceStore --------------------------
(* Instances of ReferenceStore for TLC. *)
EXTENDS ReferenceStore, TLC

CONSTANTS u1, u2, id1, id2, k1, r1, r2, r3

TwoUsers == {u1, u2}
OneUser == {u1}
TwoIds == {id1, id2}
OneId == {id1}
OneKey == {k1}
ThreeRequests == {r1, r2, r3}
TwoRequests == {r1, r2}
OneRequest == {r1}

\* Users, ids and requests are interchangeable: no action or property orders them.
Symmetry == Permutations(Users) \cup Permutations(RefIds) \cup Permutations(Requests)
=============================================================================
