----------------------- MODULE MCReferenceDuplicates -----------------------
(* An instance of ReferenceDuplicates for TLC. *)
EXTENDS ReferenceDuplicates

CONSTANTS u1, id1, id2, k1, r1, r2

OneUser == {u1}
TwoIds == {id1, id2}
OneKey == {k1}
TwoRequests == {r1, r2}
=============================================================================
