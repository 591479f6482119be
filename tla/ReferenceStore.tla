--------------------------- MODULE ReferenceStore ---------------------------
(***************************************************************************)
(* The write path of internal/handlers/references.go: POST /references,    *)
(* DELETE /references/:id and POST /references/:id/restore, run by         *)
(* concurrent requests against one PostgreSQL table.                       *)
(*                                                                         *)
(* A handler is a sequence of SQL statements; each statement is one action *)
(* and other requests run in between.  The table is read at READ COMMITTED *)
(* (the driver's default), so a statement sees what is committed when it   *)
(* runs.  Only the soft delete is a transaction of two statements; it      *)
(* holds the row's lock from the first statement that matched the row      *)
(* until its commit or rollback.  Early returns that precede the first     *)
(* statement (401, 400, 503) touch nothing but the answer: Refuse.         *)
(***************************************************************************)
EXTENDS Integers

CONSTANTS
    Users,          \* values of users.id that the middleware put in the context
    RefIds,         \* values of references.id
    Keys,           \* classes of (LOWER(url), LOWER(title))
    Requests,       \* HTTP requests the server works on at the same time
    Nil,            \* SQL NULL / Go nil
    RestoreWindow,  \* referenceRestoreWindow, in ticks
    MaxTime         \* bound on the clock

ASSUME NilAssumption == Nil \notin Users \cup RefIds \cup Keys \cup Requests
ASSUME TimeAssumption == RestoreWindow \in Nat /\ MaxTime \in Nat

VARIABLES
    rows,    \* rows[id]: the committed row of table "references"
    lock,    \* lock[id]: the request whose open transaction locks the row, or Nil
    req,     \* req[r]: what the goroutine of request r holds between statements
    answer,  \* the last HTTP answer sent
    now      \* time.Now()

vars == <<rows, lock, req, answer, now>>

NoTime == -1   \* restore_until IS NULL

Absent == [state |-> "absent", owner |-> Nil, key |-> Nil,
           by |-> Nil, until |-> NoTime]

Row == [state : {"absent", "active", "deleted"}, owner : Users \cup {Nil},
        key : Keys \cup {Nil}, by : Users \cup {Nil}, until : Int]

Idle == [pc |-> "idle", user |-> Nil, id |-> Nil, key |-> Nil, until |-> NoTime]

Stages == {"idle", "insert", "stamp", "mark", "remove", "check", "unmark"}

Request == [pc : Stages, user : Users \cup {Nil}, id : RefIds \cup {Nil},
            key : Keys \cup {Nil}, until : Int]

Codes == {"none", "refused", "200", "201", "204", "404", "409", "410", "500"}

Init ==
    /\ rows = [id \in RefIds |-> Absent]
    /\ lock = [id \in RefIds |-> Nil]
    /\ req = [r \in Requests |-> Idle]
    /\ answer = [to |-> Nil, code |-> "none"]
    /\ now = 0

-----------------------------------------------------------------------------
(* Steps every handler shares.                                             *)

\* The handler goes on: it keeps `state` until its next statement.
Continue(r, state) ==
    /\ req' = [req EXCEPT ![r] = state]
    /\ UNCHANGED answer

\* The handler returns an HTTP answer and its goroutine ends.
Answer(r, code) ==
    /\ req' = [req EXCEPT ![r] = Idle]
    /\ answer' = [to |-> r, code |-> code]

\* Faulty variant: the lookup forgets the owner.
FindReferenceOfAnyone(id, u) == rows[id].state # "absent"

\* WHERE id = ? AND uploader_id = ?, deleted rows included (Unscoped).
FindReferenceForOwner(id, u) ==
    /\ rows[id].state # "absent"
    /\ rows[id].owner = u

\* The row is not locked by the open transaction of another request.
Unlocked(id, r) == lock[id] \in {Nil, r}

\* Faulty variant: the transaction's session is not released when it ends.
StillHeld(r) == lock

\* The row locks after the transaction of r has committed or rolled back.
Released(r) == [id \in RefIds |-> IF lock[id] = r THEN Nil ELSE lock[id]]

\* Faulty variant: the soft delete is run Unscoped, like the lookup before it.
InAnyScope(id) == rows[id].state # "absent"

\* The condition GORM adds to a scoped UPDATE or DELETE of a model with a
\* DeletedAt field: deleted_at IS NULL.
InSoftDeleteScope(id) == rows[id].state = "active"

-----------------------------------------------------------------------------
(* POST /references                                                        *)

\* FindDuplicateReference: an active row of this user with this key.
Duplicate(u, k) ==
    \E id \in RefIds : /\ rows[id].state = "active"
                       /\ rows[id].owner = u
                       /\ rows[id].key = k

\* Faulty variant: what the lookup found is not looked at.
CreateWithoutLookup(r, u, k) ==
    /\ req[r].pc = "idle"
    /\ Continue(r, [Idle EXCEPT !.pc = "insert", !.user = u, !.key = k])
    /\ UNCHANGED <<rows, lock, now>>

CreateCheck(r, u, k) ==
    /\ req[r].pc = "idle"
    /\ \/ /\ Duplicate(u, k)
          /\ Answer(r, "409")
       \/ /\ ~Duplicate(u, k)
          /\ Continue(r, [Idle EXCEPT !.pc = "insert", !.user = u, !.key = k])
    /\ UNCHANGED <<rows, lock, now>>

\* Faulty variant: uploader_id is taken from the body of the request.
RowOfBody(u, k) == [Absent EXCEPT !.state = "active", !.owner = k, !.key = k]

NewRow(u, k) == [Absent EXCEPT !.state = "active", !.owner = u, !.key = k]

\* The id is the one of the body, which may be taken (the primary key then
\* rejects the row), or a fresh one that BeforeCreate makes.
CreateInsert(r, id) ==
    /\ req[r].pc = "insert"
    /\ \/ /\ rows[id].state = "absent"
          /\ rows' = [rows EXCEPT ![id] = NewRow(req[r].user, req[r].key)]
          /\ Answer(r, "201")
       \/ /\ rows[id].state # "absent"
          /\ Answer(r, "500")
          /\ UNCHANGED rows
    /\ UNCHANGED <<lock, now>>

-----------------------------------------------------------------------------
(* DELETE /references/:id                                                  *)

DeleteFind(r, u, id) ==
    /\ req[r].pc = "idle"
    /\ \/ /\ ~FindReferenceForOwner(id, u)
          /\ Answer(r, "404")
       \/ /\ FindReferenceForOwner(id, u)
          /\ rows[id].state = "deleted"
          /\ Answer(r, "204")
       \/ /\ FindReferenceForOwner(id, u)
          /\ rows[id].state = "active"
          /\ Continue(r, [Idle EXCEPT !.pc = "stamp", !.user = u, !.id = id])
    /\ UNCHANGED <<rows, lock, now>>

\* time.Now().UTC().Add(referenceRestoreWindow), before the transaction opens.
DeleteStamp(r) ==
    /\ req[r].pc = "stamp"
    /\ Continue(r, [req[r] EXCEPT !.pc = "mark", !.until = now + RestoreWindow])
    /\ UNCHANGED <<rows, lock, now>>

\* First statement of the transaction: deleted_by and restore_until.  It waits
\* for the row lock; it locks the row if the row is in the soft-delete scope,
\* and matches no row, which GORM does not report, if it is not.
DeleteMark(r) ==
    LET id == req[r].id IN
    /\ req[r].pc = "mark"
    /\ Unlocked(id, r)
    /\ lock' = [lock EXCEPT ![id] = IF InSoftDeleteScope(id) THEN r ELSE Nil]
    /\ Continue(r, [req[r] EXCEPT !.pc = "remove"])
    /\ UNCHANGED <<rows, now>>

\* What the second statement, deleted_at = now() WHERE deleted_at IS NULL,
\* leaves in the row when the transaction commits: the metadata is there only
\* if the first statement matched the row, that is, if r holds its lock.
Removed(id, r) ==
    IF lock[id] = r
    THEN [rows[id] EXCEPT !.state = "deleted", !.by = req[r].user,
                          !.until = req[r].until]
    ELSE IF InSoftDeleteScope(id)
         THEN [rows[id] EXCEPT !.state = "deleted"]
         ELSE rows[id]

DeleteRemove(r) ==
    LET id == req[r].id IN
    /\ req[r].pc = "remove"
    /\ Unlocked(id, r)
    /\ rows' = [rows EXCEPT ![id] = Removed(id, r)]
    /\ lock' = Released(r)
    /\ Answer(r, "204")
    /\ UNCHANGED now

-----------------------------------------------------------------------------
(* POST /references/:id/restore                                            *)

RestoreFind(r, u, id) ==
    /\ req[r].pc = "idle"
    /\ \/ /\ ~FindReferenceForOwner(id, u)
          /\ Answer(r, "404")
       \/ /\ FindReferenceForOwner(id, u)
          /\ rows[id].state = "active"
          /\ Answer(r, "409")
       \/ /\ FindReferenceForOwner(id, u)
          /\ rows[id].state = "deleted"
          /\ Continue(r, [Idle EXCEPT !.pc = "check", !.user = u, !.id = id,
                                      !.until = rows[id].until])
    /\ UNCHANGED <<rows, lock, now>>

\* ref.RestoreUntil == nil || time.Now().UTC().After(*ref.RestoreUntil)
WindowExpired(until, t) == until = NoTime \/ t > until

\* Faulty variant: only a missing window is refused.
RestoreCheckWindowExists(r) ==
    /\ req[r].pc = "check"
    /\ \/ /\ req[r].until = NoTime
          /\ Answer(r, "410")
       \/ /\ req[r].until # NoTime
          /\ Continue(r, [req[r] EXCEPT !.pc = "unmark"])
    /\ UNCHANGED <<rows, lock, now>>

RestoreCheck(r) ==
    /\ req[r].pc = "check"
    /\ \/ /\ WindowExpired(req[r].until, now)
          /\ Answer(r, "410")
       \/ /\ ~WindowExpired(req[r].until, now)
          /\ Continue(r, [req[r] EXCEPT !.pc = "unmark"])
    /\ UNCHANGED <<rows, lock, now>>

\* Faulty variant: the update clears deleted_at alone.
Undeleted(id) == [rows[id] EXCEPT !.state = "active"]

\* The Unscoped update by primary key: it matches the row in any state.
Restored(id) == [rows[id] EXCEPT !.state = "active", !.by = Nil, !.until = NoTime]

RestoreWrite(r) ==
    LET id == req[r].id IN
    /\ req[r].pc = "unmark"
    /\ Unlocked(id, r)
    /\ rows' = [rows EXCEPT ![id] = Restored(id)]
    /\ Answer(r, "200")
    /\ UNCHANGED <<lock, now>>

-----------------------------------------------------------------------------
(* Errors, the clock, and the whole.                                       *)

\* 401 without a user, 400 for a body that does not bind or lacks url or
\* title, 503 without a database: before any statement.
Refuse(r) ==
    /\ req[r].pc = "idle"
    /\ Answer(r, "refused")
    /\ UNCHANGED <<rows, lock, now>>

\* A statement of r fails, or the process dies: an open transaction is rolled
\* back, which releases its row lock, and nothing of r is committed.
Fail(r) ==
    /\ req[r].pc # "idle"
    /\ lock' = Released(r)
    /\ Answer(r, "500")
    /\ UNCHANGED <<rows, now>>

Tick ==
    /\ now < MaxTime
    /\ now' = now + 1
    /\ UNCHANGED <<rows, lock, req, answer>>

\* The handler of r runs its next statement.
Advance(r) ==
    \/ \E id \in RefIds : CreateInsert(r, id)
    \/ DeleteStamp(r)
    \/ DeleteMark(r)
    \/ DeleteRemove(r)
    \/ RestoreCheck(r)
    \/ RestoreWrite(r)

\* A request arrives and its handler runs up to its first statement.
Arrive(r) ==
    \/ \E u \in Users, k \in Keys : CreateCheck(r, u, k)
    \/ \E u \in Users, id \in RefIds : DeleteFind(r, u, id)
    \/ \E u \in Users, id \in RefIds : RestoreFind(r, u, id)
    \/ Refuse(r)

Next ==
    \/ \E r \in Requests : Arrive(r) \/ Advance(r) \/ Fail(r)
    \/ Tick

Spec == Init /\ [][Next]_vars

\* A goroutine that can run does run.  PostgreSQL queues the waiters of a row
\* lock, so a request that waits for one gets it if the lock is released again
\* and again: strong fairness of the steps of one request.  Nobody has to send
\* requests, nothing has to fail, and the clock need not advance.
Fairness == \A r \in Requests : SF_vars(Advance(r))

-----------------------------------------------------------------------------
(* Properties.                                                             *)

TypeOK ==
    /\ rows \in [RefIds -> Row]
    /\ lock \in [RefIds -> Requests \cup {Nil}]
    /\ req \in [Requests -> Request]
    /\ answer \in [to : Requests \cup {Nil}, code : Codes]
    /\ now \in 0..MaxTime

\* The deletion metadata never leaks into a row that users see: an active row
\* has neither deleted_by nor restore_until, and a deleted row has both, with
\* its own owner as deleted_by, or none of the two.  This is what the
\* transaction of SoftDeleteReference (two statements) and the single update
\* of RestoreReference keep together, whatever runs between the statements.
MetadataCoherent ==
    \A id \in RefIds :
        LET row == rows[id] IN
        /\ row.state # "deleted" => row.by = Nil
        /\ row.by \in {Nil, row.owner}
        /\ (row.by = Nil) <=> (row.until = NoTime)

\* A row that the first statement of a soft delete has marked is active until its
\* second statement deletes it, and the lock is that of the request about to do so:
\* nobody deletes or restores a row under the lock of an open transaction.
LockedRowIsActive ==
    \A id \in RefIds :
        lock[id] # Nil => /\ rows[id].state = "active"
                          /\ req[lock[id]].pc = "remove"
                          /\ req[lock[id]].id = id

\* DELETE and restore check the owner in one statement and write by primary
\* key alone in a later one.  Whatever ran in between, the row a handler is
\* about to write exists and belongs to the user of the request.
OwnsItsRow(state) ==
    state.id # Nil => /\ rows[state.id].state # "absent"
                      /\ rows[state.id].owner = state.user
                      /\ state.user # Nil

WritersOwnTheirRow == \A r \in Requests : OwnsItsRow(req[r])

\* As long as a row stays deleted its deletion record stays what it was: a
\* second DELETE that overlaps the first, or comes later, neither extends the
\* restore window nor rewrites deleted_by.
KeepsDeletionRecords ==
    \A id \in RefIds :
        rows[id].state = "deleted" /\ rows'[id].state = "deleted"
            => rows'[id] = rows[id]

DeletionRecordIsFixed == [][KeepsDeletionRecords]_vars

\* The restore request of r can no longer bring its row back.
Hopeless(r) == req[r].pc = "check" /\ WindowExpired(req[r].until, now)

\* r is a restore of id that was admitted, or may still be.
Restoring(r, id) == /\ req[r].pc \in {"check", "unmark"}
                    /\ req[r].id = id
                    /\ ~Hopeless(r)

RestoreInFlight(id) == \E r \in Requests : Restoring(r, id)

\* The refinement mapping: a deleted row is trashed while its window is open
\* or an admitted restore is still on its way, and expired after that.
phaseOf(id) ==
    IF rows[id].state # "deleted" THEN rows[id].state
    ELSE IF WindowExpired(rows[id].until, now) /\ ~RestoreInFlight(id)
         THEN "expired"
         ELSE "trashed"

phases == [id \in RefIds |-> phaseOf(id)]

entries == [id \in RefIds |-> [owner |-> rows[id].owner, key |-> rows[id].key]]

Archive == INSTANCE ReferenceArchive WITH phase <- phases, entry <- entries

\* The interleaved handlers implement the archive: no step destroys a row,
\* rewrites its owner or content, or brings back a deletion that is final.
\* Expiry is final although the window is checked one statement before the
\* write, because a restore admitted in time is the only one that can be late.
ImplementsArchive == Archive!Spec

\* Every request is answered: no interleaving of row locks, rollbacks and
\* errors leaves a handler waiting for ever.
EveryRequestAnswered ==
    \A r \in Requests : req[r].pc # "idle" ~> req[r].pc = "idle"

-----------------------------------------------------------------------------
(* What the documents say and overlapping requests break.                  *)

\* "A user must be able to restore a deleted reference within 24 hours of the
\* deletion": a deleted row carries a restore window and its deleted_by.
DeletedRowsAreRestorable ==
    \A id \in RefIds :
        rows[id].state = "deleted" => /\ rows[id].until # NoTime
                                      /\ rows[id].by = rows[id].owner

\* "POST /references rejects a duplicate url and title of the same user": an
\* insert finds no active row of its user with its key.
CreateRejectsDuplicates ==
    [][\A id \in RefIds :
          rows[id].state = "absent" /\ rows'[id].state = "active"
            => ~Duplicate(rows'[id].owner, rows'[id].key)]_vars
=============================================================================
