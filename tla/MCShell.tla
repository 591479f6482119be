------------------------------ MODULE MCShell ------------------------------
(* An instance of Shell for TLC: a dashboard query besides the demo's. *)
EXTENDS Shell, TLC

CONSTANTS plain, demo, d1

ThreeDashboards == {plain, demo, d1}

\* An empty volume and one of an earlier version.
EmptyAndOld == {[users |-> "none", references |-> "none", legacy |-> "none"],
                [users |-> "old", references |-> "old", legacy |-> "constraint"]}

OnlyWellFormed == {TRUE}
=============================================================================
