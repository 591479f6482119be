------------------------ MODULE MCReferenceListing ------------------------
(* An instance of ReferenceListing for TLC. *)
EXTENDS ListReads, TLC

CONSTANTS any, word, tag, other

FourRows == 1 .. 4
TwoTags == {tag, other}

HitsOf == [s \in {any, word} |-> IF s = word THEN {1, 2, 4} ELSE FourRows]
TagsOfRows == (1 :> {tag}) @@ (2 :> {tag, other}) @@ (3 :> {}) @@ (4 :> {tag})

\* Rows created one after the other, and two of them at the same moment.
OwnMomentsAndOneShared == {<<2, 1, 3, 4>>, <<1, 2, 2, 3>>}

Sent(page, limit, search, tags) ==
    [page |-> page, limit |-> limit, search |-> search, tags |-> tags]

\* 0 is no positive integer, 7 * 2 overflows an int of four bits, and a limit
\* of 7 is capped.
AllParams ==
    {Sent(p, l, any, {}) : p \in {Absent, 0, 2, 7}, l \in {Absent, 0, 1, 7}}
        \cup {Sent(p, 1, s, t) : p \in {Absent, 3}, s \in {any, word},
                                 t \in {{{Blank}}, {{tag, Blank}}, {{tag, other}}, {{tag}, {other}}}}
=============================================================================
