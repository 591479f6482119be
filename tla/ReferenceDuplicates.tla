------------------------ MODULE ReferenceDuplicates ------------------------
(***************************************************************************)
(* How two active references of one user come to share a key, although     *)
(* POST /references looks for duplicates (handlers/references.go,          *)
(* FindDuplicateReference): ReferenceStore watched by two history          *)
(* variables, which no handler reads.                                      *)
(***************************************************************************)
EXTENDS ReferenceStore

VARIABLES
    since,      \* since[r]: what became active since r looked for a duplicate
    coincided   \* pairs of active rows of which the first became active although
                \* the second was, or was about to be

watch == <<since, coincided>>

BecomesActive(id) == rows[id].state # "active" /\ rows'[id].state = "active"

\* The first of the pair is restored beside the second, or saved by a request
\* that has looked for a duplicate before the second was active.
Coincide(id, other) ==
    /\ BecomesActive(id)
    /\ \/ rows[id].state = "deleted"
       \/ \E r \in Requests : req[r].pc = "insert" /\ req'[r] # req[r] /\ other \in since[r]

Watch ==
    /\ since' = [r \in Requests |->
                    IF req[r].pc = "insert"
                    THEN since[r] \cup {id \in RefIds : BecomesActive(id)} ELSE {}]
    /\ coincided' = {p \in RefIds \X RefIds :
                        /\ \A id \in {p[1], p[2]} : rows'[id].state = "active"
                        /\ p \in coincided \/ Coincide(p[1], p[2])}

WatchedInit == Init /\ since = [r \in Requests |-> {}] /\ coincided = {}

WatchedSpec == WatchedInit /\ [][Next /\ Watch]_<<vars, watch>>

FairWatchedSpec == WatchedSpec /\ Fairness

Duplicates(i, j) ==
    /\ i # j
    /\ rows[i].state = "active" /\ rows[j].state = "active"
    /\ rows[i].owner = rows[j].owner /\ rows[i].key = rows[j].key

\* The lookup of POST /references is worth what it can be worth without a lock
\* or a unique index: two active rows of a user share a key only if one was
\* restored beside the other, or saved by a request during which the other
\* became active.  Deletes, failures and other users' requests cause none.
DuplicatesHaveACause ==
    \A i, j \in RefIds : Duplicates(i, j) => <<i, j>> \in coincided \/ <<j, i>> \in coincided
=============================================================================
