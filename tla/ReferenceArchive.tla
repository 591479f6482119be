-------------------------- MODULE ReferenceArchive --------------------------
(***************************************************************************)
(* What the archive of references promises, without requests, statements,  *)
(* locks or a clock: the state diagram of a reference.  A reference is     *)
(* saved once, keeps its owner and its content for ever, is hidden and     *)
(* brought back any number of times, and is never destroyed; a deletion    *)
(* whose restore window has passed is final.                               *)
(***************************************************************************)
CONSTANTS Users, RefIds, Keys, Nil

VARIABLES
    phase,   \* phase[id]: absent, active, trashed (restorable) or expired
    entry    \* entry[id]: the owner and the content saved under id

Phases == {"absent", "active", "trashed", "expired"}

Entry == [owner : Users, key : Keys]

NoEntry == [owner |-> Nil, key |-> Nil]

Init ==
    /\ phase = [id \in RefIds |-> "absent"]
    /\ entry = [id \in RefIds |-> NoEntry]

Save(id, u, k) ==
    /\ phase[id] = "absent"
    /\ phase' = [phase EXCEPT ![id] = "active"]
    /\ entry' = [entry EXCEPT ![id] = [owner |-> u, key |-> k]]

\* A deletion is normally restorable; one that is committed after its own
\* window, or without one, is final at once.
Trash(id) ==
    /\ phase[id] = "active"
    /\ \E p \in {"trashed", "expired"} : phase' = [phase EXCEPT ![id] = p]
    /\ UNCHANGED entry

Recover(id) ==
    /\ phase[id] = "trashed"
    /\ phase' = [phase EXCEPT ![id] = "active"]
    /\ UNCHANGED entry

\* The windows of all the references in gone pass at the same time.
Expire(gone) ==
    /\ gone # {}
    /\ \A id \in gone : phase[id] = "trashed"
    /\ phase' = [id \in RefIds |-> IF id \in gone THEN "expired" ELSE phase[id]]
    /\ UNCHANGED entry

Next ==
    \/ \E id \in RefIds : \/ \E u \in Users, k \in Keys : Save(id, u, k)
                          \/ Trash(id)
                          \/ Recover(id)
    \/ \E gone \in SUBSET RefIds : Expire(gone)

Spec == Init /\ [][Next]_<<phase, entry>>
=============================================================================
