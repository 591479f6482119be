----------------------------- MODULE MCStartup -----------------------------
(* An instance of Startup for TLC. *)
EXTENDS Startup, TLC

\* An empty volume, those that docker/postgres/init/01-init.sql has filled, up to
\* the users or to the end, in this and in earlier versions, and a migrated one.
AllVolumes ==
    {[users |-> "none", references |-> "none", legacy |-> "none"],
     [users |-> "current", references |-> "current", legacy |-> "none"]}
      \cup [users : {"old"}, references : {"none", "old"},
           legacy : {"none", "constraint", "index"}]
=============================================================================
