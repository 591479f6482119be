---------------------------- MODULE MCDashboard ----------------------------
(* Instances of Dashboard for TLC. *)
EXTENDS Dashboard, TLC

CONSTANTS any, word, tag, t1, t2

TwoTasks == {t1, t2}

\* Three saved references on two pages of two, and one that may be saved; one
\* of the demo layer and one that may be saved there.
FourAndTwo == {1, 2, 3, 4, 11, 12}
ThreeAndOne == {1, 2, 3, 11}
Demo == {11, 12}

OneWord == {any, word}
OneTag == {tag}

HitsOf == [s \in Searches |-> IF s = word THEN {1, 4, 11} ELSE Refs]
TagsOfRefs == [r \in Refs |-> IF r \in {2, 11} THEN Tags ELSE {}]

Landing(page, mode) == [search |-> any, tags |-> {}, page |-> page, mode |-> mode]

\* No page and no known mode, a page that is no number, and one beyond the end.
AllLandings == {Landing(Absent, "other"), Landing(0, "product"), Landing(5, "portfolio")}
=============================================================================
