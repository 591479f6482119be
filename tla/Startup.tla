------------------------------- MODULE Startup -------------------------------
(***************************************************************************)
(* The start of the server (main.go) against a database and a Redis that   *)
(* come and go, on a volume that an earlier version or docker/postgres/    *)
(* init/01-init.sql may have filled, and the health check (handlers/       *)
(* health.go) that decides whether the application is shown at all.        *)
(*                                                                         *)
(* Statements succeed exactly while the database is up.  The settings read *)
(* from the environment are left out, but for a DSN that may be malformed. *)
(***************************************************************************)
EXTENDS Naturals

CONSTANTS
    Volumes,    \* what the volume of the database may hold at first
    Dsns,       \* whether the DSN may be malformed
    MaxChanges  \* bound on what dependencies and the operator do

Tables == {"none", "old", "current"}

\* "old" tables lack what was added since; legacy is users_email_key, the unique
\* name of earlier versions, as a constraint or as an index of its own.
Schemas == [users : Tables, references : Tables, legacy : {"none", "constraint", "index"}]

\* Whoever made the tables, there are users if there are references or a name
\* of earlier versions, which belongs to the table of users.
ASSUME StartupAssumption ==
    /\ Volumes \subseteq {v \in Schemas : v.users = "none" =>
                                        v.references = "none" /\ v.legacy = "none"}
    /\ Dsns \subseteq BOOLEAN /\ MaxChanges \in Nat

VARIABLES
    dsn,          \* whether the DSN can be parsed
    postgres,     \* whether the database answers
    redis,
    schema,       \* users, references: "none", "old" or "current"; legacy: see Schemas
    pc,           \* the statement of main that comes next
    db,           \* "nil", "handle", or "broken": a gorm.DB without a connection pool
    redisClient,  \* whether it is set
    authService,
    missed,       \* a history variable: this start went on though it could not look
                  \* at the tables
    changes

process == <<pc, db, redisClient, authService, missed>>
environment == <<dsn, postgres, redis, changes>>
serverVars == <<environment, schema, process>>

Steps == {"open", "ping", "hasTable", "dropConstraint", "dropIndex",
          "migrateUsers", "migrateReferences", "redis", "server"}

Stopped == /\ pc = "down" /\ db = "nil" /\ redisClient = FALSE /\ authService = FALSE
           /\ missed = FALSE

ServerInit ==
    /\ dsn \in Dsns /\ postgres \in BOOLEAN /\ redis \in BOOLEAN
    /\ schema \in Volumes /\ Stopped /\ changes = 0
-----------------------------------------------------------------------------
(* main. *)

Go(step, next) ==
    /\ pc = step /\ pc' = next
    /\ UNCHANGED environment

Start == Go("down", "open") /\ UNCHANGED <<schema, db, redisClient, authService, missed>>

\* gorm.Open returns its DB also when it fails: with the pool it could not ping,
\* or without one if the DSN is malformed.  main goes on with what it returned.
OpenDatabase ==
    /\ Go("open", IF dsn /\ postgres THEN "ping" ELSE "redis")
    /\ db' = (IF dsn THEN "handle" ELSE "broken")
    /\ missed' = ~(dsn /\ postgres)
    /\ UNCHANGED <<schema, redisClient, authService>>

\* Faulty variant: as after a failed gorm.Open, the handle stays.
KeepHandle(step, next, succeeds, after) ==
    /\ Go(step, IF succeeds THEN next ELSE "redis")
    /\ schema' = (IF succeeds THEN after ELSE schema)
    /\ UNCHANGED <<db, redisClient, authService, missed>>

\* A statement of the start of the database: "next" if it succeeds, with the
\* tables as it leaves them; otherwise the server does without the database.
Statement(step, next, succeeds, after) ==
    /\ Go(step, IF succeeds THEN next ELSE "redis")
    /\ db' = (IF succeeds THEN db ELSE "nil")
    /\ schema' = (IF succeeds THEN after ELSE schema)
    /\ UNCHANGED <<redisClient, authService, missed>>

Ping == Statement("ping", "hasTable", postgres, schema)

\* normalizeLegacyUserEmailConstraint.  HasTable answers false on an error.
HasTable ==
    /\ Go("hasTable", IF postgres /\ schema.users # "none" THEN "dropConstraint"
                                                          ELSE "migrateUsers")
    /\ missed' = (missed \/ ~postgres)
    /\ UNCHANGED <<schema, db, redisClient, authService>>

Without(form) == IF schema.legacy = form THEN [schema EXCEPT !.legacy = "none"] ELSE schema

\* Faulty variant: the index is all that is dropped.
LeaveConstraint == Statement("dropConstraint", "dropIndex", postgres, schema)

DropConstraint == Statement("dropConstraint", "dropIndex", postgres, Without("constraint"))

DropIndex == Statement("dropIndex", "migrateUsers", postgres, Without("index"))

\* AutoMigrate fails on a unique constraint with a name it does not expect.
MigrateUsers ==
    Statement("migrateUsers", "migrateReferences", postgres /\ schema.legacy # "constraint",
              [schema EXCEPT !.users = "current"])

MigrateReferences ==
    Statement("migrateReferences", "redis", postgres, [schema EXCEPT !.references = "current"])

PingRedis == /\ Go("redis", "server") /\ redisClient' = redis
             /\ UNCHANGED <<schema, db, authService, missed>>

\* The service of the sessions needs both; the server starts in any case.
Serve == /\ Go("server", "serving") /\ authService' = (redisClient /\ db # "nil")
         /\ UNCHANGED <<schema, db, redisClient, missed>>

Main ==
    \/ Start \/ OpenDatabase \/ Ping \/ HasTable \/ DropConstraint \/ DropIndex
    \/ MigrateUsers \/ MigrateReferences \/ PingRedis \/ Serve
-----------------------------------------------------------------------------
(* The environment. *)

Change == changes < MaxChanges /\ changes' = changes + 1

Postgres == Change /\ postgres' = ~postgres /\ UNCHANGED <<dsn, redis, schema, process>>

Redis == Change /\ redis' = ~redis /\ UNCHANGED <<dsn, postgres, schema, process>>

\* The process dies or is stopped; what the database committed stays.
Crash ==
    /\ Change /\ pc # "down" /\ pc' = "down"
    /\ db' = "nil" /\ redisClient' = FALSE /\ authService' = FALSE /\ missed' = FALSE
    /\ UNCHANGED <<dsn, postgres, redis, schema>>

ServerNext == Main \/ Postgres \/ Redis \/ Crash

ServerSpec == ServerInit /\ [][ServerNext]_serverVars
-----------------------------------------------------------------------------
(* The health check. *)

\* Faulty variant: it does not look at the client of Redis.
ReadyWithoutRedis == pc = "serving" /\ db = "handle" /\ postgres /\ schema.references # "none"

Ready == /\ pc = "serving"
         /\ db = "handle" /\ postgres
         /\ redisClient /\ redis
         /\ schema.references # "none"
-----------------------------------------------------------------------------
(* Properties. *)

ServerTypeOK ==
    /\ dsn \in BOOLEAN /\ postgres \in BOOLEAN /\ redis \in BOOLEAN
    /\ schema \in Schemas /\ pc \in Steps \cup {"down", "serving"}
    /\ db \in {"nil", "handle", "broken"} /\ redisClient \in BOOLEAN /\ authService \in BOOLEAN
    /\ missed \in BOOLEAN /\ changes \in 0 .. MaxChanges

\* Whenever the health check answers that all is ready, users can sign in: the
\* service exists and so does the table of users, whatever was down at the start, came
\* up later or was interrupted in the middle of a migration.
ReadyMeansUsable ==
    Ready => authService /\ schema.users # "none"

Migrated == schema = [users |-> "current", references |-> "current", legacy |-> "none"]

\* A server that is ready runs on migrated tables, whatever failed at which
\* statement of this start and of earlier ones, with two exceptions: gorm.Open
\* could not reach the database and main kept its handle (main.go:87), or
\* HasTable answered "no table" because it could not ask (main.go:166).
StaleSchemaHasACause == Ready /\ ~missed => Migrated

\* A server that is ready has dropped the name of the earlier versions and
\* brought both tables up to date, "fresh DB and existing volume alike".
ReadyMeansMigrated == Ready => Migrated

\* A start during which both dependencies stay up ends ready, whatever earlier
\* versions and interrupted starts have left on the volume.
GoodStartsSucceed ==
    []((/\ pc = "open" /\ dsn
        /\ [](postgres /\ redis /\ pc # "down")) => <>Ready)
=============================================================================
