--------------------------- MODULE StartupProofs ---------------------------
(***************************************************************************)
(* Theorems of Startup: a server that answers "ready" can sign users in.   *)
(***************************************************************************)
EXTENDS Startup, TLAPS

\* What main knows of the tables and of its own pointers at each statement.
UsersFirst ==
    /\ schema.users = "none" => schema.references = "none"
    /\ pc = "migrateReferences" => schema.users # "none"

ServiceFollows == pc = "serving" => authService = (redisClient /\ db # "nil")

IInv == ServerTypeOK /\ UsersFirst /\ ServiceFollows

LEMMA Initially == ASSUME ServerInit PROVE IInv
  <1>1. schema \in Schemas /\ (schema.users = "none" => schema.references = "none")
    BY StartupAssumption DEF ServerInit
  <1>2. pc = "down" /\ db = "nil" /\ redisClient = FALSE /\ authService = FALSE /\ missed = FALSE
    BY DEF ServerInit, Stopped
  <1>3. dsn \in BOOLEAN /\ postgres \in BOOLEAN /\ redis \in BOOLEAN
    BY StartupAssumption DEF ServerInit
  <1>4. changes \in 0 .. MaxChanges
    BY StartupAssumption DEF ServerInit
  <1>5. ServerTypeOK
    BY <1>1, <1>2, <1>3, <1>4 DEF ServerTypeOK
  <1>6. UsersFirst /\ ServiceFollows
    BY <1>1, <1>2 DEF UsersFirst, ServiceFollows
  <1> QED
    BY <1>5, <1>6 DEF IInv

\* A statement that leaves the users' table where it was, or makes it current.
LEMMA StatementKeeps ==
  ASSUME IInv, NEW step \in Steps, NEW next \in Steps, NEW succeeds \in BOOLEAN,
         NEW after \in Schemas,
         Statement(step, next, succeeds, after),
         after.users = "none" => after.references = "none",
         next = "migrateReferences" => after.users # "none"
  PROVE  IInv'
  <1>1. pc' \in {"redis", next} /\ pc' # "serving"
    BY DEF Statement, Go, Steps
  <1>2. db' \in {db, "nil"} /\ schema' \in {schema, after}
    BY DEF Statement
  <1>3. ServerTypeOK'
    BY <1>1, <1>2 DEF Statement, Go, environment, IInv, ServerTypeOK, Steps
  <1>4. UsersFirst'
    BY DEF Statement, Go, IInv, UsersFirst
  <1> QED
    BY <1>1, <1>3, <1>4 DEF IInv, ServiceFollows

LEMMA SchemaUpdates ==
  ASSUME IInv, NEW form \in {"constraint", "index"}
  PROVE  /\ Without(form) \in Schemas
         /\ Without(form).users = "none" => Without(form).references = "none"
         /\ [schema EXCEPT !.users = "current"] \in Schemas
         /\ [schema EXCEPT !.users = "current"].users = "current"
         /\ [schema EXCEPT !.references = "current"] \in Schemas
         /\ [schema EXCEPT !.references = "current"].users = schema.users
  BY DEF IInv, ServerTypeOK, UsersFirst, Without, Schemas, Tables

LEMMA MainKeeps == ASSUME IInv, Main PROVE IInv'
  <1> USE DEF Steps
  <1>1. postgres \in BOOLEAN /\ schema \in Schemas
    BY DEF IInv, ServerTypeOK
  <1>2. ASSUME Ping PROVE IInv'
    BY <1>1, <1>2, StatementKeeps DEF Ping, IInv, UsersFirst
  <1>3. ASSUME DropConstraint PROVE IInv'
    BY <1>1, <1>3, StatementKeeps, SchemaUpdates DEF DropConstraint
  <1>4. ASSUME DropIndex PROVE IInv'
    BY <1>1, <1>4, StatementKeeps, SchemaUpdates DEF DropIndex
  <1>5. ASSUME MigrateUsers PROVE IInv'
    <2>1. (postgres /\ schema.legacy # "constraint") \in BOOLEAN
      BY <1>1
    <2> QED
      BY <1>5, <2>1, StatementKeeps, SchemaUpdates DEF MigrateUsers
  <1>6. ASSUME MigrateReferences PROVE IInv'
    <2>1. schema.users # "none"
      BY <1>6 DEF MigrateReferences, Statement, Go, IInv, UsersFirst
    <2> QED
      BY <1>1, <1>6, <2>1, StatementKeeps, SchemaUpdates DEF MigrateReferences
  <1>7. ASSUME Start \/ OpenDatabase \/ HasTable \/ PingRedis \/ Serve PROVE IInv'
    <2>1. schema' = schema /\ pc' # "migrateReferences"
      BY <1>7 DEF Start, OpenDatabase, HasTable, PingRedis, Serve, Go
    <2>2. ServiceFollows'
      BY <1>7 DEF Start, OpenDatabase, HasTable, PingRedis, Serve, Go, ServiceFollows
    <2>3. ServerTypeOK'
      BY <1>7, <2>1 DEF Start, OpenDatabase, HasTable, PingRedis, Serve, Go, environment,
                        IInv, ServerTypeOK
    <2> QED
      BY <2>1, <2>2, <2>3 DEF IInv, UsersFirst
  <1> QED
    BY <1>2, <1>3, <1>4, <1>5, <1>6, <1>7 DEF Main

LEMMA EnvironmentKeeps ==
  ASSUME IInv, Postgres \/ Redis \/ Crash \/ UNCHANGED serverVars PROVE IInv'
  <1>1. schema' = schema
    BY DEF Postgres, Redis, Crash, serverVars
  <1>2. ServerTypeOK'
    <2>1. changes' \in 0 .. MaxChanges
      <3>1. changes \in 0 .. MaxChanges /\ MaxChanges \in Nat
        BY StartupAssumption DEF IInv, ServerTypeOK
      <3>2. changes' = changes \/ (changes < MaxChanges /\ changes' = changes + 1)
        BY DEF Postgres, Redis, Crash, Change, serverVars, environment
      <3> QED
        BY <3>1, <3>2
    <2>2. dsn' \in BOOLEAN /\ postgres' \in BOOLEAN /\ redis' \in BOOLEAN
      BY DEF Postgres, Redis, Crash, serverVars, environment, IInv, ServerTypeOK
    <2>3. /\ pc' \in Steps \cup {"down", "serving"} /\ db' \in {"nil", "handle", "broken"}
          /\ redisClient' \in BOOLEAN /\ authService' \in BOOLEAN /\ missed' \in BOOLEAN
      BY DEF Postgres, Redis, Crash, serverVars, process, IInv, ServerTypeOK
    <2> QED
      BY <1>1, <2>1, <2>2, <2>3 DEF IInv, ServerTypeOK
  <1>3. UsersFirst' /\ ServiceFollows'
    BY <1>1 DEF Postgres, Redis, Crash, serverVars, process, IInv, UsersFirst,
                ServiceFollows
  <1> QED
    BY <1>2, <1>3 DEF IInv

LEMMA ServerKeeps == IInv /\ [ServerNext]_serverVars => IInv'
  BY MainKeeps, EnvironmentKeeps DEF ServerNext

LEMMA ReadyIsUsable == IInv => ReadyMeansUsable
  BY DEF IInv, UsersFirst, ServiceFollows, ReadyMeansUsable, Ready

-----------------------------------------------------------------------------
(* What a start that could look at the tables knows of them at each statement. *)

NameIsOfUsers == schema.users = "none" => schema.legacy = "none"

TablesKnown ==
    /\ NameIsOfUsers
    /\ ~missed =>
        /\ pc = "dropIndex" => schema.legacy # "constraint"
        /\ pc = "migrateUsers" => schema.legacy = "none"
        /\ pc = "migrateReferences" => schema.legacy = "none" /\ schema.users = "current"
        /\ pc \in {"redis", "server", "serving"} /\ db # "nil" => Migrated

LEMMA TablesInitially == ASSUME ServerInit PROVE TablesKnown
  BY StartupAssumption DEF ServerInit, Stopped, TablesKnown, NameIsOfUsers

\* What the statements that succeed leave behind.
LEMMA Dropped ==
  ASSUME schema \in Schemas, NEW form \in {"constraint", "index"}
  PROVE  /\ Without(form).users = schema.users /\ Without(form).references = schema.references
         /\ Without(form).legacy = IF schema.legacy = form THEN "none" ELSE schema.legacy
  BY DEF Without, Schemas

LEMMA Updated ==
  ASSUME schema \in Schemas
  PROVE  /\ [schema EXCEPT !.users = "current"].users = "current"
         /\ [schema EXCEPT !.users = "current"].legacy = schema.legacy
         /\ [schema EXCEPT !.references = "current"].users = schema.users
         /\ [schema EXCEPT !.references = "current"].legacy = schema.legacy
         /\ schema.users = "current" /\ schema.legacy = "none" =>
              [schema EXCEPT !.references = "current"]
                = [users |-> "current", references |-> "current", legacy |-> "none"]
  BY DEF Schemas

\* A statement that fails sets the handle to nil; one that succeeds establishes
\* what the next one relies on.
LEMMA StatementKnows ==
  ASSUME TablesKnown, NEW step, NEW next, NEW succeeds \in BOOLEAN, NEW after,
         Statement(step, next, succeeds, after),
         succeeds /\ after.users = "none" => after.legacy = "none",
         succeeds /\ ~missed =>
           /\ next = "dropIndex" => after.legacy # "constraint"
           /\ next = "migrateUsers" => after.legacy = "none"
           /\ next = "migrateReferences" => after.legacy = "none" /\ after.users = "current"
           /\ next \in {"redis", "server", "serving"} =>
                after = [users |-> "current", references |-> "current", legacy |-> "none"]
  PROVE  TablesKnown'
  <1>1. CASE succeeds
    <2>1. pc' = next /\ schema' = after /\ missed' = missed
      BY <1>1 DEF Statement, Go
    <2> QED
      BY <1>1, <2>1 DEF TablesKnown, NameIsOfUsers, Migrated
  <1>2. CASE ~succeeds
    <2>1. pc' = "redis" /\ db' = "nil" /\ schema' = schema
      BY <1>2 DEF Statement, Go
    <2> QED
      BY <2>1 DEF TablesKnown, NameIsOfUsers
  <1> QED
    BY <1>1, <1>2

LEMMA MainKnows == ASSUME ServerTypeOK, TablesKnown, Main PROVE TablesKnown'
  <1>1. postgres \in BOOLEAN /\ schema \in Schemas /\ missed \in BOOLEAN
    BY DEF ServerTypeOK
  <1>2. schema.legacy \in {"none", "constraint", "index"}
    BY <1>1 DEF Schemas
  <1>3. ASSUME Ping PROVE TablesKnown'
    BY <1>1, <1>3, StatementKnows DEF Ping, TablesKnown, NameIsOfUsers
  <1>4. ASSUME DropConstraint PROVE TablesKnown'
    <2>1. /\ Without("constraint").users = "none" => Without("constraint").legacy = "none"
          /\ Without("constraint").legacy # "constraint"
      BY <1>1, Dropped DEF TablesKnown, NameIsOfUsers
    <2> QED
      BY <1>1, <1>4, <2>1, StatementKnows DEF DropConstraint
  <1>5. ASSUME DropIndex PROVE TablesKnown'
    <2>1. ~missed => schema.legacy # "constraint"
      BY <1>5 DEF DropIndex, Statement, Go, TablesKnown
    <2>2. /\ Without("index").users = "none" => Without("index").legacy = "none"
          /\ ~missed => Without("index").legacy = "none"
      BY <1>1, <1>2, <2>1, Dropped DEF TablesKnown, NameIsOfUsers
    <2> QED
      BY <1>1, <1>5, <2>2, StatementKnows DEF DropIndex
  <1>6. ASSUME MigrateUsers PROVE TablesKnown'
    <2>1. ~missed => schema.legacy = "none"
      BY <1>6 DEF MigrateUsers, Statement, Go, TablesKnown
    <2>2. (postgres /\ schema.legacy # "constraint") \in BOOLEAN
      BY <1>1
    <2> QED
      BY <1>1, <1>6, <2>1, <2>2, Updated, StatementKnows DEF MigrateUsers
  <1>7. ASSUME MigrateReferences PROVE TablesKnown'
    <2>1. ~missed => schema.legacy = "none" /\ schema.users = "current"
      BY <1>7 DEF MigrateReferences, Statement, Go, TablesKnown
    <2> QED
      BY <1>1, <1>7, <2>1, Updated, StatementKnows DEF MigrateReferences, TablesKnown, NameIsOfUsers
  <1>8. ASSUME HasTable PROVE TablesKnown'
    BY <1>1, <1>8 DEF HasTable, Go, TablesKnown, NameIsOfUsers
  <1>9. ASSUME OpenDatabase PROVE TablesKnown'
    BY <1>9 DEF OpenDatabase, Go, TablesKnown, NameIsOfUsers
  <1>10. ASSUME Start \/ PingRedis \/ Serve PROVE TablesKnown'
    BY <1>10 DEF Start, PingRedis, Serve, Go, TablesKnown, NameIsOfUsers, Migrated
  <1> QED
    BY <1>3, <1>4, <1>5, <1>6, <1>7, <1>8, <1>9, <1>10 DEF Main

LEMMA TablesUnseen == ASSUME TablesKnown, UNCHANGED <<schema, process>> PROVE TablesKnown'
  BY DEF process, TablesKnown, NameIsOfUsers, Migrated

LEMMA ServerKnows == ASSUME ServerTypeOK, TablesKnown, [ServerNext]_serverVars PROVE TablesKnown'
  <1>1. ASSUME Crash PROVE TablesKnown'
    BY <1>1 DEF Crash, TablesKnown, NameIsOfUsers
  <1>2. ASSUME Postgres \/ Redis \/ UNCHANGED serverVars PROVE TablesKnown'
    BY <1>2, TablesUnseen DEF Postgres, Redis, serverVars
  <1> QED
    BY <1>1, <1>2, MainKnows DEF ServerNext

LEMMA StaleHasACause == TablesKnown => StaleSchemaHasACause
  BY DEF TablesKnown, StaleSchemaHasACause, Ready
-----------------------------------------------------------------------------
(* The theorems. *)

\* A server answers "ready" on migrated tables unless this start went on without
\* having been able to look at them: for any volume that one of the versions may
\* have left, and however often starts are cut short in the middle of a migration.
THEOREM StartsMigrate == ServerSpec => []StaleSchemaHasACause
  <1>1. IInv => ServerTypeOK
    BY DEF IInv
  <1>2. IInv /\ TablesKnown /\ [ServerNext]_serverVars => TablesKnown'
    BY <1>1, ServerKnows
  <1> QED
    BY Initially, ServerKeeps, TablesInitially, <1>2, StaleHasACause, PTL DEF ServerSpec

\* The variables of the server keep their types, whichever statements fail.
THEOREM ServerTypeCorrect == ServerSpec => []ServerTypeOK
  <1>1. IInv => ServerTypeOK
    BY DEF IInv
  <1> QED
    BY Initially, ServerKeeps, <1>1, PTL DEF ServerSpec
=============================================================================
