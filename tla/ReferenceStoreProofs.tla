------------------------ MODULE ReferenceStoreProofs ------------------------
(***************************************************************************)
(* Proofs about ReferenceStore for every number of users, references,      *)
(* contents and overlapping requests, every restore window and clock.      *)
(*                                                                         *)
(* The three safety invariants are not inductive one by one: the metadata  *)
(* is coherent after the second statement of a soft delete because the row *)
(* is still its user's (WritersOwnTheirRow) and because the first          *)
(* statement's lock says that it is active (LockedRowIsActive), and both   *)
(* hold of a stage because of what the handler put in its record           *)
(* (StagesAreFilled).  IInv is their conjunction.                          *)
(*                                                                         *)
(* What ReferenceDuplicates watches is proved at the end: WatchInv adds    *)
(* what a request knows between its lookup and its insert.                 *)
(***************************************************************************)
EXTENDS ReferenceDuplicates, TLAPS

USE NilAssumption, TimeAssumption

\* What a handler holds at each stage.
Filled(state) ==
    /\ state.pc = "idle" => state = Idle
    /\ state.pc = "insert" => /\ state.id = Nil
                              /\ state.user \in Users
                              /\ state.key \in Keys
    /\ state.pc \notin {"idle", "insert"} => /\ state.id \in RefIds
                                             /\ state.user \in Users
    /\ state.pc \in {"mark", "remove"} => state.until >= 0

StagesAreFilled == \A r \in Requests : Filled(req[r])

IInv ==
    /\ TypeOK
    /\ StagesAreFilled
    /\ MetadataCoherent
    /\ LockedRowIsActive
    /\ WritersOwnTheirRow

Answers == [to : Requests \cup {Nil}, code : Codes]

\* The initial states satisfy the inductive invariant.
LEMMA InitIInv == Init => IInv
  BY DEF Init, IInv, TypeOK, StagesAreFilled, Filled, MetadataCoherent,
         LockedRowIsActive, WritersOwnTheirRow, OwnsItsRow, Absent, Row, Idle,
         Request, Stages, Codes, NoTime

LEMMA NoTimeIsInt == NoTime \in Int /\ ~(NoTime >= 0)
  BY DEF NoTime

LEMMA IdleIsARequest == Idle \in Request /\ Filled(Idle) /\ OwnsItsRow(Idle)
  BY DEF Idle, Request, Stages, Filled, OwnsItsRow, NoTime

\* Only a handler between the two statements of a soft delete holds a lock.
LEMMA OnlyRemoversLock ==
  ASSUME IInv, NEW r \in Requests, req[r].pc # "remove"
  PROVE  \A id \in RefIds : lock[id] # r
  BY DEF IInv, LockedRowIsActive

\* A step that touches only what the handler of r holds, and leaves there a
\* well-filled record of a row of its user, preserves the invariant.
LEMMA HandlerStep ==
  ASSUME IInv, NEW r \in Requests, NEW state \in Request,
         req[r].pc # "remove", state.pc # "remove",
         Filled(state), OwnsItsRow(state),
         req' = [req EXCEPT ![r] = state], answer' \in Answers,
         UNCHANGED <<rows, lock, now>>
  PROVE  IInv'
  <1> USE DEF IInv
  <1>1. TypeOK'
    BY DEF TypeOK, Answers
  <1>2. StagesAreFilled'
    BY DEF TypeOK, StagesAreFilled, Filled
  <1>3. MetadataCoherent'
    BY DEF MetadataCoherent
  <1>4. LockedRowIsActive'
    BY OnlyRemoversLock DEF TypeOK, LockedRowIsActive
  <1>5. WritersOwnTheirRow'
    BY DEF TypeOK, WritersOwnTheirRow, OwnsItsRow
  <1> QED
    BY <1>1, <1>2, <1>3, <1>4, <1>5

\* A handler that only answers preserves the invariant.
LEMMA AnswerStep ==
  ASSUME IInv, NEW r \in Requests, NEW code \in Codes, req[r].pc # "remove",
         Answer(r, code), UNCHANGED <<rows, lock, now>>
  PROVE  IInv'
  <1>1. answer' \in Answers /\ req' = [req EXCEPT ![r] = Idle] /\ Idle.pc # "remove"
    BY DEF Answer, Answers, Idle
  <1> QED
    BY <1>1, IdleIsARequest, HandlerStep

\* A handler that only goes on, likewise.
LEMMA ContinueStep ==
  ASSUME IInv, NEW r \in Requests, NEW state \in Request,
         req[r].pc # "remove", state.pc # "remove",
         Filled(state), OwnsItsRow(state),
         Continue(r, state), UNCHANGED <<rows, lock, now>>
  PROVE  IInv'
  <1>1. answer' \in Answers /\ req' = [req EXCEPT ![r] = state]
    BY DEF Continue, Answers, IInv, TypeOK
  <1> QED
    BY <1>1, HandlerStep

-----------------------------------------------------------------------------
(* Arrivals and the steps that write nothing.                              *)

LEMMA CreateCheckStep ==
  ASSUME IInv, NEW r \in Requests, NEW u \in Users, NEW k \in Keys,
         CreateCheck(r, u, k)
  PROVE  IInv'
  <1> DEFINE state == [Idle EXCEPT !.pc = "insert", !.user = u, !.key = k]
  <1>1. state \in Request /\ Filled(state) /\ OwnsItsRow(state)
    BY NoTimeIsInt DEF Idle, Request, Stages, Filled, OwnsItsRow
  <1>2. req[r].pc # "remove" /\ state.pc # "remove" /\ UNCHANGED <<rows, lock, now>>
    BY DEF CreateCheck, Idle
  <1>3. CASE Answer(r, "409")
    BY <1>2, <1>3, AnswerStep DEF Codes
  <1>4. CASE Continue(r, state)
    BY <1>1, <1>2, <1>4, ContinueStep
  <1> QED
    BY <1>3, <1>4 DEF CreateCheck

LEMMA DeleteFindStep ==
  ASSUME IInv, NEW r \in Requests, NEW u \in Users, NEW id \in RefIds,
         DeleteFind(r, u, id)
  PROVE  IInv'
  <1> DEFINE state == [Idle EXCEPT !.pc = "stamp", !.user = u, !.id = id]
  <1>1. req[r].pc # "remove" /\ state.pc # "remove" /\ UNCHANGED <<rows, lock, now>>
    BY DEF DeleteFind, Idle
  <1>2. CASE Answer(r, "404") \/ Answer(r, "204")
    BY <1>1, <1>2, AnswerStep DEF Codes
  <1>3. CASE FindReferenceForOwner(id, u) /\ Continue(r, state)
    <2>1. state \in Request /\ Filled(state)
      BY NoTimeIsInt DEF Idle, Request, Stages, Filled
    <2>2. OwnsItsRow(state)
      BY <1>3 DEF OwnsItsRow, Idle, FindReferenceForOwner
    <2> QED
      BY <1>1, <1>3, <2>1, <2>2, ContinueStep
  <1> QED
    BY <1>2, <1>3 DEF DeleteFind

LEMMA RestoreFindStep ==
  ASSUME IInv, NEW r \in Requests, NEW u \in Users, NEW id \in RefIds,
         RestoreFind(r, u, id)
  PROVE  IInv'
  <1> DEFINE state == [Idle EXCEPT !.pc = "check", !.user = u, !.id = id,
                                   !.until = rows[id].until]
  <1>1. req[r].pc # "remove" /\ state.pc # "remove" /\ UNCHANGED <<rows, lock, now>>
    BY DEF RestoreFind, Idle
  <1>2. CASE Answer(r, "404") \/ Answer(r, "409")
    BY <1>1, <1>2, AnswerStep DEF Codes
  <1>3. CASE FindReferenceForOwner(id, u) /\ Continue(r, state)
    <2>1. state \in Request /\ Filled(state)
      BY DEF Idle, Request, Stages, Filled, IInv, TypeOK, Row
    <2>2. OwnsItsRow(state)
      BY <1>3 DEF OwnsItsRow, Idle, FindReferenceForOwner
    <2> QED
      BY <1>1, <1>3, <2>1, <2>2, ContinueStep
  <1> QED
    BY <1>2, <1>3 DEF RestoreFind

LEMMA RefuseStep ==
  ASSUME IInv, NEW r \in Requests, Refuse(r)
  PROVE  IInv'
  BY AnswerStep DEF Refuse, Codes

LEMMA DeleteStampStep ==
  ASSUME IInv, NEW r \in Requests, DeleteStamp(r)
  PROVE  IInv'
  <1> DEFINE state == [req[r] EXCEPT !.pc = "mark", !.until = now + RestoreWindow]
  <1>1. req[r] \in Request /\ Filled(req[r]) /\ OwnsItsRow(req[r]) /\ now \in Nat
    BY DEF IInv, TypeOK, StagesAreFilled, WritersOwnTheirRow
  <1>2. req[r].pc = "stamp"
    BY DEF DeleteStamp
  <1>3. state \in Request
    <2>1. now + RestoreWindow \in Int
      BY <1>1
    <2> QED
      BY <1>1, <2>1 DEF Request, Stages
  <1>4. Filled(state)
    BY <1>1, <1>2 DEF Filled, Request
  <1>5. OwnsItsRow(state)
    BY <1>1 DEF OwnsItsRow, Request
  <1>6. state.pc # "remove"
    BY <1>1 DEF Request
  <1> QED
    BY <1>2, <1>3, <1>4, <1>5, <1>6, ContinueStep DEF DeleteStamp

LEMMA RestoreCheckStep ==
  ASSUME IInv, NEW r \in Requests, RestoreCheck(r)
  PROVE  IInv'
  <1> DEFINE state == [req[r] EXCEPT !.pc = "unmark"]
  <1>1. req[r] \in Request /\ Filled(req[r]) /\ OwnsItsRow(req[r])
    BY DEF IInv, TypeOK, StagesAreFilled, WritersOwnTheirRow
  <1>2. req[r].pc = "check" /\ UNCHANGED <<rows, lock, now>>
    BY DEF RestoreCheck
  <1>3. state \in Request /\ Filled(state) /\ OwnsItsRow(state) /\ state.pc # "remove"
    BY <1>1, <1>2 DEF Request, Stages, Filled, OwnsItsRow
  <1>4. CASE Answer(r, "410")
    BY <1>2, <1>4, AnswerStep DEF Codes
  <1>5. CASE Continue(r, state)
    BY <1>2, <1>3, <1>5, ContinueStep
  <1> QED
    BY <1>4, <1>5 DEF RestoreCheck

-----------------------------------------------------------------------------
(* The steps that write a row or a lock.                                   *)

\* The facts every writing step starts from.
LEMMA AtStage ==
  ASSUME IInv, NEW r \in Requests, req[r].pc \notin {"idle", "insert"}
  PROVE  /\ req[r] \in Request
         /\ req[r].id \in RefIds /\ req[r].user \in Users
         /\ rows[req[r].id] \in Row
         /\ rows[req[r].id].state # "absent"
         /\ rows[req[r].id].owner = req[r].user
  BY DEF IInv, TypeOK, StagesAreFilled, Filled, WritersOwnTheirRow, OwnsItsRow

\* A statement that replaces one row and ends its handler, and whose new row
\* is coherent and keeps the owner, preserves the invariant; locks of other
\* requests may stay only on rows it does not touch.
LEMMA WriteStep ==
  ASSUME IInv, NEW r \in Requests, NEW id \in RefIds, NEW row \in Row,
         NEW code \in Codes,
         rows' = [rows EXCEPT ![id] = row],
         lock' = Released(r), lock[id] \in {Nil, r},
         Answer(r, code), UNCHANGED now,
         row.state # "absent",
         rows[id].state # "absent" => row.owner = rows[id].owner,
         row.state # "deleted" => row.by = Nil,
         row.by \in {Nil, row.owner},
         (row.by = Nil) <=> (row.until = NoTime)
  PROVE  IInv'
  <1> USE DEF IInv
  <1>1. req' = [req EXCEPT ![r] = Idle] /\ answer' \in Answers
    BY DEF Answer, Answers
  <1>2. TypeOK'
    BY <1>1, IdleIsARequest DEF TypeOK, Answers, Released
  <1>3. StagesAreFilled'
    BY <1>1, IdleIsARequest DEF TypeOK, StagesAreFilled, Filled
  <1>4. MetadataCoherent'
    BY DEF TypeOK, MetadataCoherent
  <1>5. LockedRowIsActive'
    BY <1>1 DEF TypeOK, LockedRowIsActive, Released
  <1>6. WritersOwnTheirRow'
    <2> SUFFICES ASSUME NEW q \in Requests PROVE OwnsItsRow(req[q])'
      BY DEF WritersOwnTheirRow
    <2>1. CASE q = r
      BY <1>1, <2>1 DEF TypeOK, OwnsItsRow, Idle
    <2>2. CASE q # r
      <3>1. req'[q] = req[q] /\ OwnsItsRow(req[q])
        BY <1>1, <2>2 DEF TypeOK, WritersOwnTheirRow
      <3>2. req[q].id \in RefIds \cup {Nil}
        BY DEF TypeOK, Request
      <3> QED
        BY <3>1, <3>2 DEF TypeOK, OwnsItsRow
    <2> QED
      BY <2>1, <2>2
  <1> QED
    BY <1>2, <1>3, <1>4, <1>5, <1>6

LEMMA CreateInsertStep ==
  ASSUME IInv, NEW r \in Requests, NEW id \in RefIds, CreateInsert(r, id)
  PROVE  IInv'
  <1>1. req[r].pc = "insert" /\ req[r].user \in Users /\ req[r].key \in Keys
    BY DEF CreateInsert, IInv, StagesAreFilled, Filled
  <1>2. CASE rows[id].state # "absent"
    BY <1>1, <1>2, AnswerStep DEF CreateInsert, Codes
  <1>3. CASE rows[id].state = "absent"
    <2> DEFINE row == NewRow(req[r].user, req[r].key)
    <2>1. row \in Row /\ row.state = "active" /\ row.by = Nil /\ row.until = NoTime
      BY <1>1, NoTimeIsInt DEF NewRow, Absent, Row
    <2>2. lock[id] = Nil
      BY <1>3 DEF IInv, TypeOK, LockedRowIsActive
    <2>3. lock' = Released(r)
      BY <1>1, OnlyRemoversLock DEF CreateInsert, Released, IInv, TypeOK
    <2>4. rows' = [rows EXCEPT ![id] = row] /\ Answer(r, "201") /\ UNCHANGED now
      BY <1>3 DEF CreateInsert
    <2> HIDE DEF row
    <2> QED
      BY <1>3, <2>1, <2>2, <2>3, <2>4, WriteStep DEF Codes
  <1> QED
    BY <1>2, <1>3

LEMMA RestoreWriteStep ==
  ASSUME IInv, NEW r \in Requests, RestoreWrite(r)
  PROVE  IInv'
  <1> DEFINE id == req[r].id
             row == Restored(id)
  <1>1. req[r].pc = "unmark" /\ Answer(r, "200") /\ lock[id] \in {Nil, r}
        /\ rows' = [rows EXCEPT ![id] = row] /\ UNCHANGED <<lock, now>>
    BY DEF RestoreWrite, Unlocked
  <1>2. id \in RefIds /\ rows[id] \in Row
    BY <1>1, AtStage
  <1>3. row \in Row /\ row.state = "active" /\ row.by = Nil /\ row.until = NoTime
        /\ row.owner = rows[id].owner
    BY <1>2, NoTimeIsInt DEF Restored, Row
  <1>4. lock' = Released(r)
    BY <1>1, OnlyRemoversLock DEF Released, IInv, TypeOK
  <1> HIDE DEF id, row
  <1> QED
    BY <1>1, <1>2, <1>3, <1>4, WriteStep DEF Codes

LEMMA DeleteRemoveStep ==
  ASSUME IInv, NEW r \in Requests, DeleteRemove(r)
  PROVE  IInv'
  <1> DEFINE id == req[r].id
             row == Removed(id, r)
  <1>1. req[r].pc = "remove" /\ Answer(r, "204") /\ lock[id] \in {Nil, r}
        /\ rows' = [rows EXCEPT ![id] = row] /\ lock' = Released(r)
        /\ UNCHANGED now
    BY DEF DeleteRemove, Unlocked
  <1>2. /\ id \in RefIds /\ rows[id] \in Row /\ rows[id].state # "absent"
        /\ rows[id].owner = req[r].user /\ req[r].user \in Users
        /\ req[r].until \in Int
    BY <1>1, AtStage DEF Request
  <1>3. req[r].until # NoTime
    BY <1>1, <1>2, NoTimeIsInt DEF IInv, StagesAreFilled, Filled
  <1>4. /\ rows[id].state # "deleted" => rows[id].by = Nil
        /\ rows[id].by \in {Nil, rows[id].owner}
        /\ (rows[id].by = Nil) <=> (rows[id].until = NoTime)
    BY <1>2 DEF IInv, MetadataCoherent
  <1>5. row \in Row /\ row.state # "absent" /\ row.owner = rows[id].owner
    BY <1>2 DEF Removed, Row
  <1>6. /\ row.state # "deleted" => row.by = Nil
        /\ row.by \in {Nil, row.owner}
        /\ (row.by = Nil) <=> (row.until = NoTime)
    <2>1. CASE lock[id] = r
      BY <1>2, <1>3, <2>1 DEF Removed, Row
    <2>2. CASE lock[id] # r /\ InSoftDeleteScope(id)
      BY <1>2, <1>4, <2>2 DEF Removed, Row
    <2>3. CASE lock[id] # r /\ ~InSoftDeleteScope(id)
      BY <1>4, <2>3 DEF Removed
    <2> QED
      BY <2>1, <2>2, <2>3
  <1> HIDE DEF id, row
  <1> QED
    BY <1>1, <1>2, <1>5, <1>6, WriteStep DEF Codes

LEMMA DeleteMarkStep ==
  ASSUME IInv, NEW r \in Requests, DeleteMark(r)
  PROVE  IInv'
  <1> USE DEF IInv
  <1> DEFINE id == req[r].id
             state == [req[r] EXCEPT !.pc = "remove"]
  <1>1. /\ req[r].pc = "mark" /\ lock[id] \in {Nil, r}
        /\ lock' = [lock EXCEPT ![id] = IF InSoftDeleteScope(id) THEN r ELSE Nil]
        /\ req' = [req EXCEPT ![r] = state] /\ UNCHANGED <<rows, answer, now>>
    BY DEF DeleteMark, Unlocked, Continue
  <1>2. req[r] \in Request /\ id \in RefIds
    BY <1>1, AtStage
  <1>3. state \in Request /\ state.pc = "remove" /\ state.id = id
    BY <1>2 DEF Request, Stages
  <1>4. Filled(state) /\ OwnsItsRow(state)
    BY <1>1, <1>2, <1>3
       DEF StagesAreFilled, WritersOwnTheirRow, Filled, OwnsItsRow, Request
  <1> HIDE DEF state
  <1>5. TypeOK'
    BY <1>1, <1>2, <1>3 DEF TypeOK
  <1>6. StagesAreFilled'
    BY <1>1, <1>4 DEF TypeOK, StagesAreFilled, Filled
  <1>7. MetadataCoherent'
    BY <1>1 DEF MetadataCoherent
  <1>8. LockedRowIsActive'
    BY <1>1, <1>2, <1>3, OnlyRemoversLock
       DEF TypeOK, LockedRowIsActive, InSoftDeleteScope
  <1>9. WritersOwnTheirRow'
    BY <1>1, <1>4 DEF TypeOK, WritersOwnTheirRow, OwnsItsRow
  <1> QED
    BY <1>5, <1>6, <1>7, <1>8, <1>9

LEMMA FailStep ==
  ASSUME IInv, NEW r \in Requests, Fail(r)
  PROVE  IInv'
  <1> USE DEF IInv
  <1>1. /\ req' = [req EXCEPT ![r] = Idle] /\ answer' \in Answers
        /\ lock' = Released(r) /\ UNCHANGED <<rows, now>>
    BY DEF Fail, Answer, Answers, Codes
  <1>2. TypeOK'
    BY <1>1, IdleIsARequest DEF TypeOK, Answers, Released
  <1>3. StagesAreFilled'
    BY <1>1, IdleIsARequest DEF TypeOK, StagesAreFilled, Filled
  <1>4. MetadataCoherent'
    BY <1>1 DEF MetadataCoherent
  <1>5. LockedRowIsActive'
    BY <1>1 DEF TypeOK, LockedRowIsActive, Released
  <1>6. WritersOwnTheirRow'
    BY <1>1, IdleIsARequest DEF TypeOK, WritersOwnTheirRow, OwnsItsRow
  <1> QED
    BY <1>2, <1>3, <1>4, <1>5, <1>6

LEMMA ClockStep ==
  ASSUME IInv, Tick \/ UNCHANGED vars
  PROVE  IInv'
  BY DEF Tick, vars, IInv, TypeOK, StagesAreFilled, Filled, MetadataCoherent,
         LockedRowIsActive, WritersOwnTheirRow, OwnsItsRow

-----------------------------------------------------------------------------
(* The theorems.                                                           *)

\* Every step of every handler preserves the inductive invariant.
LEMMA NextIInv == IInv /\ [Next]_vars => IInv'
  <1> SUFFICES ASSUME IInv, [Next]_vars PROVE IInv'
    OBVIOUS
  <1>1. ASSUME NEW r \in Requests, Arrive(r) PROVE IInv'
    BY <1>1, CreateCheckStep, DeleteFindStep, RestoreFindStep, RefuseStep DEF Arrive
  <1>2. ASSUME NEW r \in Requests, Advance(r) PROVE IInv'
    BY <1>2, CreateInsertStep, DeleteStampStep, DeleteMarkStep, DeleteRemoveStep,
       RestoreCheckStep, RestoreWriteStep DEF Advance
  <1>3. ASSUME NEW r \in Requests, Fail(r) PROVE IInv'
    BY <1>3, FailStep
  <1>4. CASE Tick \/ UNCHANGED vars
    BY <1>4, ClockStep
  <1> QED
    BY <1>1, <1>2, <1>3, <1>4 DEF Next

\* The inductive invariant holds in every reachable state.
THEOREM Invariance == Spec => []IInv
  BY InitIInv, NextIInv, PTL DEF Spec

\* Rows, locks and handler records keep their types.
THEOREM TypeCorrect == Spec => []TypeOK
  BY Invariance, PTL DEF IInv

\* An active row never carries deletion metadata, and a deleted row carries
\* all of it or none, whatever requests overlap and whatever fails.
THEOREM MetadataIsCoherent == Spec => []MetadataCoherent
  BY Invariance, PTL DEF IInv

\* Nothing changes the row that an open soft delete has marked.
THEOREM SoftDeleteIsIsolated == Spec => []LockedRowIsActive
  BY Invariance, PTL DEF IInv

\* No handler ever writes a row of another user, although it checks the owner
\* in an earlier statement than the one that writes.
THEOREM OnlyOwnersWrite == Spec => []WritersOwnTheirRow
  BY Invariance, PTL DEF IInv

\* A second DELETE never rewrites the record of the first.
THEOREM DeletionRecordFixed == Spec => DeletionRecordIsFixed
  <1>1. IInv /\ [Next]_vars => [KeepsDeletionRecords]_vars
    <2> SUFFICES ASSUME IInv, Next, NEW id \in RefIds, rows[id].state = "deleted",
                        rows'[id].state = "deleted"
                 PROVE  rows'[id] = rows[id]
      BY DEF KeepsDeletionRecords
    <2>1. ASSUME NEW r \in Requests, DeleteRemove(r) PROVE rows'[id] = rows[id]
      <3>1. req[r].id \in RefIds /\ lock[req[r].id] \in {Nil, r}
        BY <2>1, AtStage DEF DeleteRemove, Unlocked
      <3>2. lock[id] = Nil
        BY DEF IInv, TypeOK, LockedRowIsActive
      <3>3. CASE req[r].id = id
        BY <2>1, <3>1, <3>2, <3>3
           DEF DeleteRemove, Removed, InSoftDeleteScope, IInv, TypeOK
      <3>4. CASE req[r].id # id
        BY <2>1, <3>4 DEF DeleteRemove, IInv, TypeOK
      <3> QED
        BY <3>3, <3>4
    <2>2. ASSUME NEW r \in Requests, RestoreWrite(r) PROVE rows'[id] = rows[id]
      BY <2>2, AtStage DEF RestoreWrite, Restored, IInv, TypeOK, Row
    <2>3. ASSUME NEW r \in Requests, NEW n \in RefIds, CreateInsert(r, n)
          PROVE  rows'[id] = rows[id]
      BY <2>3 DEF CreateInsert, NewRow, Absent, IInv, TypeOK
    <2> QED
      BY <2>1, <2>2, <2>3
         DEF Next, Arrive, Advance, CreateCheck, DeleteFind, RestoreFind, Refuse,
             DeleteStamp, DeleteMark, RestoreCheck, Fail, Tick
  <1> QED
    BY <1>1, Invariance, PTL DEF Spec, DeletionRecordIsFixed

-----------------------------------------------------------------------------
(* The handlers implement the archive.                                     *)

\* Only time and the loss of a late restore end a window: when no row changes
\* and phases move at most from trashed to expired, the archive expires them.
LEMMA ExpiryStep ==
  ASSUME UNCHANGED rows,
         \A id \in RefIds : \/ phaseOf(id)' = phaseOf(id)
                            \/ phaseOf(id) = "trashed" /\ phaseOf(id)' = "expired"
  PROVE  [Archive!Next]_<<phases, entries>>
  <1> DEFINE gone == {id \in RefIds : phaseOf(id)' # phaseOf(id)}
  <1>1. entries' = entries
    BY DEF entries
  <1>2. CASE gone = {}
    <2>1. phases' = phases
      BY <1>2 DEF phases
    <2> QED
      BY <1>1, <2>1
  <1>3. CASE gone # {}
    <2>1. \A id \in gone : phases[id] = "trashed"
      BY DEF phases
    <2>2. phases' = [id \in RefIds |-> IF id \in gone THEN "expired" ELSE phases[id]]
      BY DEF phases
    <2>3. Archive!Expire(gone)
      BY <1>1, <1>3, <2>1, <2>2 DEF Archive!Expire
    <2>4. gone \in SUBSET RefIds
      OBVIOUS
    <2> QED
      BY <2>3, <2>4 DEF Archive!Next
  <1> QED
    BY <1>2, <1>3

\* When no row changes and the clock stands, a phase depends on the restores
\* in flight, and on them only once the window has passed.
LEMMA SamePhases ==
  ASSUME UNCHANGED <<rows, now>>,
         \A id \in RefIds : WindowExpired(rows[id].until, now)
                              => (RestoreInFlight(id)' <=> RestoreInFlight(id))
  PROVE  [Archive!Next]_<<phases, entries>>
  <1>1. \A id \in RefIds : phaseOf(id)' = phaseOf(id)
    BY DEF phaseOf, WindowExpired
  <1> QED
    BY <1>1, ExpiryStep

\* A restore in flight is not disturbed by another request.
LEMMA OthersKeepRestoring ==
  ASSUME IInv, NEW r \in Requests, NEW state \in Request, UNCHANGED now,
         req' = [req EXCEPT ![r] = state],
         NEW q \in Requests, q # r, NEW id
  PROVE  Restoring(q, id)' <=> Restoring(q, id)
  BY DEF IInv, TypeOK, Restoring, Hopeless, WindowExpired

\* A step of r that neither starts nor ends a restore in flight stutters.
LEMMA BystanderStep ==
  ASSUME IInv, NEW r \in Requests, NEW state \in Request,
         req' = [req EXCEPT ![r] = state], UNCHANGED <<rows, now>>,
         \A id \in RefIds : WindowExpired(rows[id].until, now)
                              => (Restoring(r, id)' <=> Restoring(r, id))
  PROVE  [Archive!Next]_<<phases, entries>>
  BY SamePhases, OthersKeepRestoring DEF RestoreInFlight

\* A step of r from and to a stage that is not a restore's, in particular.
LEMMA NoRestoreStep ==
  ASSUME IInv, NEW r \in Requests, NEW state \in Request,
         req' = [req EXCEPT ![r] = state], UNCHANGED <<rows, now>>,
         req[r].pc \notin {"check", "unmark"}, state.pc \notin {"check", "unmark"}
  PROVE  [Archive!Next]_<<phases, entries>>
  <1>1. \A id \in RefIds : ~Restoring(r, id) /\ ~Restoring(r, id)'
    BY DEF Restoring, IInv, TypeOK
  <1> QED
    BY <1>1, BystanderStep

\* Arrivals, and the steps that leave the rows alone, stutter.
LEMMA ArriveRefines ==
  ASSUME IInv, NEW r \in Requests, Arrive(r)
  PROVE  [Archive!Next]_<<phases, entries>>
  <1>1. ASSUME NEW u \in Users, NEW k \in Keys, CreateCheck(r, u, k)
        PROVE  [Archive!Next]_<<phases, entries>>
    <2> DEFINE state == [Idle EXCEPT !.pc = "insert", !.user = u, !.key = k]
    <2>1. state \in Request
      BY NoTimeIsInt DEF Idle, Request, Stages
    <2>2. state.pc \notin {"check", "unmark"} /\ Idle.pc \notin {"check", "unmark"}
      BY DEF Idle
    <2>3. /\ req' = [req EXCEPT ![r] = state] \/ req' = [req EXCEPT ![r] = Idle]
          /\ req[r].pc \notin {"check", "unmark"} /\ UNCHANGED <<rows, now>>
      BY <1>1 DEF CreateCheck, Answer, Continue
    <2> HIDE DEF state
    <2> QED
      BY <2>1, <2>2, <2>3, IdleIsARequest, NoRestoreStep
  <1>2. ASSUME NEW u \in Users, NEW id \in RefIds, DeleteFind(r, u, id)
        PROVE  [Archive!Next]_<<phases, entries>>
    <2> DEFINE state == [Idle EXCEPT !.pc = "stamp", !.user = u, !.id = id]
    <2>1. state \in Request
      BY NoTimeIsInt DEF Idle, Request, Stages
    <2>2. state.pc \notin {"check", "unmark"} /\ Idle.pc \notin {"check", "unmark"}
      BY DEF Idle
    <2>3. /\ req' = [req EXCEPT ![r] = state] \/ req' = [req EXCEPT ![r] = Idle]
          /\ req[r].pc \notin {"check", "unmark"} /\ UNCHANGED <<rows, now>>
      BY <1>2 DEF DeleteFind, Answer, Continue
    <2> HIDE DEF state
    <2> QED
      BY <2>1, <2>2, <2>3, IdleIsARequest, NoRestoreStep
  <1>3. ASSUME NEW u \in Users, NEW id \in RefIds, RestoreFind(r, u, id)
        PROVE  [Archive!Next]_<<phases, entries>>
    <2> DEFINE state == [Idle EXCEPT !.pc = "check", !.user = u, !.id = id,
                                     !.until = rows[id].until]
    <2>1. req[r].pc = "idle" /\ UNCHANGED <<rows, now>>
      BY <1>3 DEF RestoreFind
    <2>2. CASE req' = [req EXCEPT ![r] = Idle]
      <3>1. Idle.pc = "idle"
        BY DEF Idle
      <3> QED
        BY <2>1, <2>2, <3>1, IdleIsARequest, NoRestoreStep
    <2>3. CASE req' = [req EXCEPT ![r] = state]
      <3>1. state \in Request
        BY DEF Idle, Request, Stages, IInv, TypeOK, Row
      <3>2. \A n \in RefIds : ~Restoring(r, n)
        BY <2>1 DEF Restoring
      <3>3. req'[r].id = id /\ req'[r].pc = "check" /\ req'[r].until = rows[id].until
        BY <2>3 DEF Idle, IInv, TypeOK
      <3>4. \A n \in RefIds : WindowExpired(rows[n].until, now) => ~Restoring(r, n)'
        BY <2>1, <3>3 DEF Restoring, Hopeless, WindowExpired
      <3> HIDE DEF state
      <3> QED
        BY <2>1, <2>3, <3>1, <3>2, <3>4, BystanderStep
    <2> QED
      BY <1>3, <2>2, <2>3 DEF RestoreFind, Answer, Continue
  <1>4. CASE Refuse(r)
    <2>1. /\ req' = [req EXCEPT ![r] = Idle] /\ UNCHANGED <<rows, now>>
          /\ req[r].pc = "idle" /\ Idle.pc = "idle"
      BY <1>4 DEF Refuse, Answer, Idle
    <2> QED
      BY <2>1, IdleIsARequest, NoRestoreStep
  <1> QED
    BY <1>1, <1>2, <1>3, <1>4 DEF Arrive

LEMMA DeleteStampRefines ==
  ASSUME IInv, NEW r \in Requests, DeleteStamp(r)
  PROVE  [Archive!Next]_<<phases, entries>>
  <1> DEFINE state == [req[r] EXCEPT !.pc = "mark", !.until = now + RestoreWindow]
  <1>1. req[r] \in Request /\ now + RestoreWindow \in Int
    BY DEF IInv, TypeOK
  <1>2. state \in Request /\ state.pc = "mark"
    BY <1>1 DEF Request, Stages
  <1>3. /\ req' = [req EXCEPT ![r] = state] /\ UNCHANGED <<rows, now>>
        /\ req[r].pc = "stamp"
    BY DEF DeleteStamp, Continue
  <1> HIDE DEF state
  <1> QED
    BY <1>2, <1>3, NoRestoreStep

LEMMA DeleteMarkRefines ==
  ASSUME IInv, NEW r \in Requests, DeleteMark(r)
  PROVE  [Archive!Next]_<<phases, entries>>
  <1> DEFINE state == [req[r] EXCEPT !.pc = "remove"]
  <1>1. state \in Request /\ state.pc = "remove"
    BY DEF IInv, TypeOK, Request, Stages
  <1>2. /\ req' = [req EXCEPT ![r] = state] /\ UNCHANGED <<rows, now>>
        /\ req[r].pc = "mark"
    BY DEF DeleteMark, Continue
  <1> HIDE DEF state
  <1> QED
    BY <1>1, <1>2, NoRestoreStep

\* An admitted restore was not hopeless; a refused one was.
LEMMA RestoreCheckRefines ==
  ASSUME IInv, NEW r \in Requests, RestoreCheck(r)
  PROVE  [Archive!Next]_<<phases, entries>>
  <1> DEFINE state == [req[r] EXCEPT !.pc = "unmark"]
  <1>1. state \in Request /\ state.pc = "unmark" /\ state.id = req[r].id
    BY DEF IInv, TypeOK, Request, Stages
  <1>2. req[r].pc = "check" /\ UNCHANGED <<rows, now>>
    BY DEF RestoreCheck
  <1> HIDE DEF state
  <1>3. CASE Answer(r, "410") /\ WindowExpired(req[r].until, now)
    <2>1. req' = [req EXCEPT ![r] = Idle] /\ Idle.pc = "idle"
      BY <1>3 DEF Answer, Idle
    <2>2. \A id \in RefIds : ~Restoring(r, id) /\ ~Restoring(r, id)'
      BY <1>2, <1>3, <2>1 DEF Restoring, Hopeless, IInv, TypeOK
    <2> QED
      BY <1>2, <2>1, <2>2, IdleIsARequest, BystanderStep
  <1>4. CASE Continue(r, state) /\ ~WindowExpired(req[r].until, now)
    <2>1. req' = [req EXCEPT ![r] = state]
      BY <1>4 DEF Continue
    <2>2. \A id \in RefIds : Restoring(r, id)' <=> Restoring(r, id)
      BY <1>1, <1>2, <1>4, <2>1 DEF Restoring, Hopeless, IInv, TypeOK
    <2> QED
      BY <1>1, <1>2, <2>1, <2>2, BystanderStep
  <1> QED
    BY <1>3, <1>4 DEF RestoreCheck, state

\* Another reference keeps its phase when r writes its own.
LEMMA OtherPhases ==
  ASSUME IInv, NEW r \in Requests, NEW id \in RefIds, NEW row,
         req' = [req EXCEPT ![r] = Idle], UNCHANGED now,
         rows' = [rows EXCEPT ![id] = row],
         NEW n \in RefIds, n # id, req[r].id \in {id, Nil}
  PROVE  phases'[n] = phases[n] /\ rows'[n] = rows[n]
  <1>1. rows'[n] = rows[n]
    BY DEF IInv, TypeOK
  <1>2. ~Restoring(r, n) /\ ~Restoring(r, n)'
    BY NilAssumption DEF Restoring, Idle, IInv, TypeOK
  <1>3. RestoreInFlight(n)' <=> RestoreInFlight(n)
    BY <1>2, IdleIsARequest, OthersKeepRestoring DEF RestoreInFlight
  <1>4. phaseOf(n)' = phaseOf(n)
    BY <1>1, <1>3 DEF phaseOf, WindowExpired
  <1> QED
    BY <1>1, <1>4 DEF phases

\* An insert saves a reference; a rejected one stutters.
LEMMA CreateInsertRefines ==
  ASSUME IInv, NEW r \in Requests, NEW id \in RefIds, CreateInsert(r, id)
  PROVE  [Archive!Next]_<<phases, entries>>
  <1>1. /\ req' = [req EXCEPT ![r] = Idle] /\ req[r].pc = "insert"
        /\ UNCHANGED now /\ Idle.pc = "idle"
    BY DEF CreateInsert, Answer, Idle
  <1>2. CASE UNCHANGED rows
    BY <1>1, <1>2, IdleIsARequest, NoRestoreStep
  <1>3. CASE rows[id].state = "absent" /\ rows' = [rows EXCEPT ![id] = NewRow(req[r].user, req[r].key)]
    <2> DEFINE u == req[r].user
               k == req[r].key
               row == NewRow(u, k)
    <2>1. u \in Users /\ k \in Keys /\ req[r].id = Nil
      BY <1>1 DEF IInv, StagesAreFilled, Filled
    <2>2. rows'[id] = row /\ row.state = "active" /\ row.owner = u /\ row.key = k
      BY <1>3 DEF NewRow, Absent, IInv, TypeOK
    <2>3. \A n \in RefIds : n # id => phases'[n] = phases[n] /\ rows'[n] = rows[n]
      BY <1>1, <1>3, <2>1, OtherPhases
    <2>4. phases[id] = "absent" /\ phases'[id] = "active"
      BY <1>3, <2>2 DEF phases, phaseOf
    <2>5. phases' = [phases EXCEPT ![id] = "active"]
      BY <2>3, <2>4 DEF phases
    <2>6. entries' = [entries EXCEPT ![id] = [owner |-> u, key |-> k]]
      BY <2>2, <2>3 DEF entries
    <2>7. Archive!Save(id, u, k)
      BY <2>4, <2>5, <2>6 DEF Archive!Save
    <2> QED
      BY <2>1, <2>7 DEF Archive!Next
  <1> QED
    BY <1>2, <1>3 DEF CreateInsert

\* A soft delete trashes the reference, or finds it trashed and stutters.
LEMMA DeleteRemoveRefines ==
  ASSUME IInv, NEW r \in Requests, DeleteRemove(r)
  PROVE  [Archive!Next]_<<phases, entries>>
  <1> DEFINE id == req[r].id
             row == Removed(id, r)
  <1>1. /\ req' = [req EXCEPT ![r] = Idle] /\ req[r].pc = "remove"
        /\ rows' = [rows EXCEPT ![id] = row] /\ UNCHANGED now /\ Idle.pc = "idle"
    BY DEF DeleteRemove, Answer, Idle
  <1>2. id \in RefIds /\ rows[id] \in Row
    BY <1>1, AtStage
  <1>3. CASE rows[id].state = "active"
    <2>1. /\ rows'[id].state = "deleted"
          /\ rows'[id].owner = rows[id].owner /\ rows'[id].key = rows[id].key
      BY <1>1, <1>2, <1>3 DEF Removed, InSoftDeleteScope, Row, IInv, TypeOK
    <2>2. \A n \in RefIds : n # id => phases'[n] = phases[n] /\ rows'[n] = rows[n]
      BY <1>1, <1>2, OtherPhases
    <2>3. phases[id] = "active" /\ phases'[id] \in {"trashed", "expired"}
      BY <1>2, <1>3, <2>1 DEF phases, phaseOf
    <2>4. phases' = [phases EXCEPT ![id] = phases'[id]]
      BY <2>2 DEF phases
    <2>5. UNCHANGED entries
      BY <1>2, <2>1, <2>2 DEF entries
    <2>6. Archive!Trash(id)
      BY <2>3, <2>4, <2>5 DEF Archive!Trash
    <2> QED
      BY <1>2, <2>6 DEF Archive!Next
  <1>4. CASE rows[id].state # "active"
    <2>1. row = rows[id]
      BY <1>2, <1>4 DEF Removed, InSoftDeleteScope, IInv, LockedRowIsActive, TypeOK
    <2>2. UNCHANGED rows
      BY <1>1, <2>1 DEF IInv, TypeOK
    <2> QED
      BY <1>1, <2>2, IdleIsARequest, NoRestoreStep
  <1> QED
    BY <1>3, <1>4

\* A restore recovers the reference, or finds it recovered and stutters.
LEMMA RestoreWriteRefines ==
  ASSUME IInv, NEW r \in Requests, RestoreWrite(r)
  PROVE  [Archive!Next]_<<phases, entries>>
  <1> DEFINE id == req[r].id
             row == Restored(id)
  <1>1. /\ req' = [req EXCEPT ![r] = Idle] /\ req[r].pc = "unmark"
        /\ rows' = [rows EXCEPT ![id] = row] /\ UNCHANGED now
    BY DEF RestoreWrite, Answer
  <1>2. id \in RefIds /\ rows[id] \in Row /\ rows[id].state # "absent"
    BY <1>1, AtStage
  <1>3. /\ rows'[id].state = "active"
        /\ rows'[id].owner = rows[id].owner /\ rows'[id].key = rows[id].key
    BY <1>1, <1>2 DEF Restored, Row, IInv, TypeOK
  <1>4. \A n \in RefIds : n # id => phases'[n] = phases[n] /\ rows'[n] = rows[n]
    BY <1>1, <1>2, OtherPhases
  <1>5. UNCHANGED entries
    BY <1>2, <1>3, <1>4 DEF entries
  <1>6. phases'[id] = "active"
    BY <1>2, <1>3 DEF phases, phaseOf
  <1>7. phases' = [phases EXCEPT ![id] = "active"]
    BY <1>4, <1>6 DEF phases
  <1>8. CASE rows[id].state = "active"
    <2>1. phases[id] = "active"
      BY <1>2, <1>8 DEF phases, phaseOf
    <2>2. UNCHANGED phases
      BY <1>7, <2>1 DEF phases
    <2> QED
      BY <1>5, <2>2
  <1>9. CASE rows[id].state = "deleted"
    <2>1. RestoreInFlight(id)
      BY <1>1 DEF RestoreInFlight, Restoring, Hopeless
    <2>2. phases[id] = "trashed"
      BY <1>2, <1>9, <2>1 DEF phases, phaseOf
    <2>3. Archive!Recover(id)
      BY <1>5, <1>7, <2>2 DEF Archive!Recover
    <2> QED
      BY <1>2, <2>3 DEF Archive!Next
  <1> QED
    BY <1>2, <1>8, <1>9 DEF Row

\* The end of a late restore that fails is the end of the window.
LEMMA FailRefines ==
  ASSUME IInv, NEW r \in Requests, Fail(r)
  PROVE  [Archive!Next]_<<phases, entries>>
  <1>1. req' = [req EXCEPT ![r] = Idle] /\ UNCHANGED <<rows, now>> /\ Idle.pc = "idle"
    BY DEF Fail, Answer, Idle
  <1>2. ASSUME NEW id \in RefIds PROVE RestoreInFlight(id)' => RestoreInFlight(id)
    <2>1. ~Restoring(r, id)'
      BY <1>1 DEF Restoring, IInv, TypeOK
    <2> QED
      BY <1>1, <2>1, IdleIsARequest, OthersKeepRestoring DEF RestoreInFlight
  <1>3. \A id \in RefIds : \/ phaseOf(id)' = phaseOf(id)
                           \/ phaseOf(id) = "trashed" /\ phaseOf(id)' = "expired"
    BY <1>1, <1>2 DEF phaseOf, WindowExpired
  <1> QED
    BY <1>1, <1>3, ExpiryStep

\* The clock only closes windows, and makes only undecided restores hopeless.
LEMMA TickRefines ==
  ASSUME IInv, Tick
  PROVE  [Archive!Next]_<<phases, entries>>
  <1>1. now \in Int /\ now' = now + 1 /\ UNCHANGED <<rows, req>>
    BY DEF Tick, IInv, TypeOK
  <1>2. ASSUME NEW until \in Int, WindowExpired(until, now)
        PROVE  WindowExpired(until, now')
    BY <1>1, <1>2 DEF WindowExpired
  <1>3. ASSUME NEW id \in RefIds, RestoreInFlight(id)' PROVE RestoreInFlight(id)
    <2>1. PICK q \in Requests : Restoring(q, id)'
      BY <1>3 DEF RestoreInFlight
    <2>2. req[q].until \in Int
      BY DEF IInv, TypeOK, Request
    <2>3. Restoring(q, id)
      BY <1>1, <1>2, <2>1, <2>2 DEF Restoring, Hopeless
    <2> QED
      BY <2>3 DEF RestoreInFlight
  <1>4. \A id \in RefIds : \/ phaseOf(id)' = phaseOf(id)
                           \/ phaseOf(id) = "trashed" /\ phaseOf(id)' = "expired"
    <2> SUFFICES ASSUME NEW id \in RefIds
                 PROVE  \/ phaseOf(id)' = phaseOf(id)
                        \/ phaseOf(id) = "trashed" /\ phaseOf(id)' = "expired"
      OBVIOUS
    <2>1. rows[id].until \in Int
      BY DEF IInv, TypeOK, Row
    <2>2. WindowExpired(rows[id].until, now) => WindowExpired(rows[id].until, now')
      BY <1>2, <2>1
    <2> QED
      BY <1>1, <1>3, <2>2 DEF phaseOf
  <1> QED
    BY <1>1, <1>4, ExpiryStep

\* The overlapping handlers implement the archive's state diagram.
THEOREM HandlersImplementArchive == Spec => ImplementsArchive
  <1>1. Init => Archive!Init
    BY DEF Init, Archive!Init, Archive!NoEntry, phases, phaseOf, entries, Absent
  <1>2. IInv /\ [Next]_vars => [Archive!Next]_<<phases, entries>>
    <2> SUFFICES ASSUME IInv, [Next]_vars
                 PROVE  [Archive!Next]_<<phases, entries>>
      OBVIOUS
    <2>1. ASSUME NEW r \in Requests, Arrive(r) \/ Fail(r)
          PROVE  [Archive!Next]_<<phases, entries>>
      BY <2>1, ArriveRefines, FailRefines
    <2>2. ASSUME NEW r \in Requests, Advance(r)
          PROVE  [Archive!Next]_<<phases, entries>>
      BY <2>2, CreateInsertRefines, DeleteStampRefines, DeleteMarkRefines,
         DeleteRemoveRefines, RestoreCheckRefines, RestoreWriteRefines DEF Advance
    <2>3. CASE Tick
      BY <2>3, TickRefines
    <2>4. CASE UNCHANGED vars
      <3>1. \A id \in RefIds : RestoreInFlight(id)' <=> RestoreInFlight(id)
        BY <2>4 DEF vars, RestoreInFlight, Restoring, Hopeless, WindowExpired
      <3> QED
        BY <2>4, <3>1, SamePhases DEF vars
    <2> QED
      BY <2>1, <2>2, <2>3, <2>4 DEF Next
  <1> QED
    BY <1>1, <1>2, Invariance, PTL DEF Spec, ImplementsArchive, Archive!Spec


-----------------------------------------------------------------------------
(* Duplicates.                                                             *)

\* What an insert about to run knows: whatever would make its row a duplicate
\* became active after the lookup.
LookupKnown ==
    /\ since \in [Requests -> SUBSET RefIds]
    /\ \A r \in Requests, id \in RefIds :
          /\ req[r].pc = "insert" /\ rows[id].state = "active"
          /\ rows[id].owner = req[r].user /\ rows[id].key = req[r].key
          => id \in since[r]

WatchInv == IInv /\ LookupKnown /\ DuplicatesHaveACause

\* A row becomes active by being restored or by an insert, which puts the
\* user and the key of its request into an absent row and touches no other.
SavedBy(r, id) ==
    /\ req[r].pc = "insert" /\ req'[r] = Idle /\ rows[id].state = "absent"
    /\ rows' = [rows EXCEPT ![id] = NewRow(req[r].user, req[r].key)]

LEMMA BecomesActiveHow ==
  ASSUME IInv, Next, NEW id \in RefIds, BecomesActive(id)
  PROVE  rows[id].state = "deleted" \/ \E r \in Requests : SavedBy(r, id)
  <1>1. rows \in [RefIds -> Row] /\ req \in [Requests -> Request] /\ rows' # rows
    BY DEF IInv, TypeOK, BecomesActive
  <1>2. rows[id].state \in {"absent", "deleted"}
    BY <1>1 DEF BecomesActive, Row
  <1>3. CASE \E r \in Requests, n \in RefIds : CreateInsert(r, n)
    <2>1. PICK r \in Requests, n \in RefIds : CreateInsert(r, n)
      BY <1>3
    <2>2. /\ req[r].pc = "insert" /\ req'[r] = Idle /\ rows[n].state = "absent"
          /\ rows' = [rows EXCEPT ![n] = NewRow(req[r].user, req[r].key)]
      BY <1>1, <2>1 DEF CreateInsert, Answer
    <2>3. n = id
      BY <1>1, <2>2 DEF BecomesActive
    <2> QED
      BY <2>2, <2>3 DEF SavedBy
  <1>4. CASE \E r \in Requests : DeleteRemove(r)
    <2>1. PICK r \in Requests : DeleteRemove(r)
      BY <1>4
    <2>2. req[r].id \in RefIds /\ rows' = [rows EXCEPT ![req[r].id] = Removed(req[r].id, r)]
      BY <2>1, AtStage DEF DeleteRemove
    <2>3. Removed(req[r].id, r).state = "active" => rows[req[r].id].state = "active"
      BY <1>1, <2>2 DEF Removed, InSoftDeleteScope, Row
    <2> QED
      BY <1>1, <2>2, <2>3 DEF BecomesActive
  <1>5. CASE \E r \in Requests : RestoreWrite(r)
    <2>1. PICK r \in Requests : RestoreWrite(r)
      BY <1>5
    <2>2. req[r].id \in RefIds /\ rows' = [rows EXCEPT ![req[r].id] = Restored(req[r].id)]
      BY <2>1, AtStage DEF RestoreWrite
    <2>3. req[r].id = id
      BY <1>1, <2>2 DEF BecomesActive
    <2>4. req[r].id # Nil /\ rows[req[r].id].state # "absent"
      BY <2>2, NilAssumption DEF IInv, WritersOwnTheirRow, OwnsItsRow
    <2> QED
      BY <1>2, <2>3, <2>4
  <1> QED
    BY <1>1, <1>3, <1>4, <1>5
       DEF Next, Arrive, Advance, CreateCheck, DeleteFind, RestoreFind, Refuse,
           DeleteStamp, DeleteMark, RestoreCheck, Fail, Tick

\* A row that stays active keeps its user and its key.
LEMMA ActiveRowStays ==
  ASSUME IInv, Next, NEW id \in RefIds, rows[id].state = "active", rows'[id].state = "active"
  PROVE  rows'[id].owner = rows[id].owner /\ rows'[id].key = rows[id].key
  <1>1. rows \in [RefIds -> Row]
    BY DEF IInv, TypeOK
  <1>2. ASSUME NEW r \in Requests, NEW n \in RefIds, CreateInsert(r, n)
        PROVE  rows'[id] = rows[id]
    BY <1>1, <1>2 DEF CreateInsert
  <1>3. ASSUME NEW r \in Requests, DeleteRemove(r)
        PROVE  rows'[id].owner = rows[id].owner /\ rows'[id].key = rows[id].key
    BY <1>1, <1>3, AtStage DEF DeleteRemove, Removed, Row
  <1>4. ASSUME NEW r \in Requests, RestoreWrite(r)
        PROVE  rows'[id].owner = rows[id].owner /\ rows'[id].key = rows[id].key
    BY <1>1, <1>4, AtStage DEF RestoreWrite, Restored, Row
  <1> QED
    BY <1>2, <1>3, <1>4
       DEF Next, Arrive, Advance, CreateCheck, DeleteFind, RestoreFind, Refuse,
           DeleteStamp, DeleteMark, RestoreCheck, Fail, Tick

LEMMA NotInserting ==
  ASSUME req \in [Requests -> Request], NEW r \in Requests, NEW state, state.pc # "insert",
         Continue(r, state) \/ \E code \in Codes : Answer(r, code)
  PROVE  req'[r].pc # "insert"
  BY DEF Continue, Answer, Idle

\* A request is before its insert because it was, or because its lookup, which
\* changes no row, has found nothing.
LEMMA BeforeInsert ==
  ASSUME IInv, Next, NEW r \in Requests, req'[r].pc = "insert"
  PROVE  \/ req[r].pc = "insert" /\ req'[r] = req[r]
         \/ rows' = rows /\ ~Duplicate(req'[r].user, req'[r].key)
  <1>1. req \in [Requests -> Request]
    BY DEF IInv, TypeOK
  <1>2. ASSUME NEW q \in Requests, NEW u \in Users, NEW k \in Keys, CreateCheck(q, u, k)
        PROVE  \/ req[r].pc = "insert" /\ req'[r] = req[r]
               \/ rows' = rows /\ ~Duplicate(req'[r].user, req'[r].key)
    <2>1. CASE q = r
      <3>1. req'[r] = Idle \/ (~Duplicate(u, k) /\ req'[r] = [Idle EXCEPT !.pc = "insert", !.user = u, !.key = k])
        BY <1>1, <1>2, <2>1 DEF CreateCheck, Answer, Continue
      <3>2. Idle.pc # "insert"
        BY DEF Idle
      <3>3. ~Duplicate(u, k) /\ req'[r].user = u /\ req'[r].key = k
        BY <3>1, <3>2 DEF Idle
      <3> QED
        BY <1>2, <3>3 DEF CreateCheck
    <2>2. CASE q # r
      BY <1>1, <1>2, <2>2 DEF CreateCheck, Answer, Continue
    <2> QED
      BY <2>1, <2>2
  <1>3. ASSUME NEW q \in Requests, Arrive(q) \/ Advance(q) \/ Fail(q),
               \A u \in Users, k \in Keys : ~CreateCheck(q, u, k)
        PROVE  req[r].pc = "insert" /\ req'[r] = req[r]
    <2>1. CASE q # r
      BY <1>1, <1>3, <2>1
         DEF Arrive, Advance, DeleteFind, RestoreFind, Refuse, CreateInsert, DeleteStamp,
             DeleteMark, DeleteRemove, RestoreCheck, RestoreWrite, Fail, Answer, Continue
    <2>2. CASE q = r
      <3>1. ASSUME NEW u \in Users, NEW id \in RefIds, DeleteFind(r, u, id) PROVE FALSE
        <4> DEFINE state == [Idle EXCEPT !.pc = "stamp", !.user = u, !.id = id]
        <4>1. state.pc # "insert"
          BY DEF Idle
        <4>2. Continue(r, state) \/ \E code \in Codes : Answer(r, code)
          BY <3>1 DEF DeleteFind, Codes
        <4> HIDE DEF state
        <4> QED
          BY <1>1, <1>3, <4>1, <4>2, NotInserting
      <3>2. ASSUME NEW u \in Users, NEW id \in RefIds, RestoreFind(r, u, id) PROVE FALSE
        <4> DEFINE state == [Idle EXCEPT !.pc = "check", !.user = u, !.id = id, !.until = rows[id].until]
        <4>1. state.pc # "insert"
          BY DEF Idle
        <4>2. Continue(r, state) \/ \E code \in Codes : Answer(r, code)
          BY <3>2 DEF RestoreFind, Codes
        <4> HIDE DEF state
        <4> QED
          BY <1>1, <1>3, <4>1, <4>2, NotInserting
      <3>3. ASSUME NEW id \in RefIds, CreateInsert(r, id) PROVE FALSE
        BY <1>1, <3>3 DEF CreateInsert, Answer, Idle
      <3>4. ASSUME DeleteStamp(r) \/ DeleteMark(r) \/ RestoreCheck(r) PROVE FALSE
        <4>1. req[r] \in Request
          BY <1>1
        <4>2. CASE DeleteStamp(r)
          <5>1. [req[r] EXCEPT !.pc = "mark", !.until = now + RestoreWindow].pc # "insert"
            BY <4>1 DEF Request
          <5> QED
            BY <1>1, <4>2, <5>1, NotInserting DEF DeleteStamp
        <4>3. CASE DeleteMark(r)
          <5>1. [req[r] EXCEPT !.pc = "remove"].pc # "insert"
            BY <4>1 DEF Request
          <5> QED
            BY <1>1, <4>3, <5>1, NotInserting DEF DeleteMark
        <4>4. CASE RestoreCheck(r)
          <5>1. [req[r] EXCEPT !.pc = "unmark"].pc # "insert"
            BY <4>1 DEF Request
          <5>2. Answer(r, "410") \/ Continue(r, [req[r] EXCEPT !.pc = "unmark"])
            BY <4>4 DEF RestoreCheck
          <5> QED
            BY <1>1, <5>1, <5>2, NotInserting DEF Codes
        <4> QED
          BY <3>4, <4>2, <4>3, <4>4
      <3>5. ASSUME Refuse(r) \/ DeleteRemove(r) \/ RestoreWrite(r) \/ Fail(r) PROVE FALSE
        BY <1>1, <3>5 DEF Refuse, DeleteRemove, RestoreWrite, Fail, Answer, Idle
      <3> QED
        BY <1>3, <2>2, <3>1, <3>2, <3>3, <3>4, <3>5 DEF Arrive, Advance
    <2> QED
      BY <2>1, <2>2
  <1>4. CASE Tick
    BY <1>4 DEF Tick
  <1> QED
    BY <1>2, <1>3, <1>4 DEF Next

LEMMA LookupStaysKnown ==
  ASSUME WatchInv, Next, Watch
  PROVE  LookupKnown'
  <1>1. IInv /\ LookupKnown
    BY DEF WatchInv
  <1>2. since' \in [Requests -> SUBSET RefIds]
    BY <1>1 DEF Watch, LookupKnown
  <1>3. ASSUME NEW r \in Requests, NEW id \in RefIds,
               req'[r].pc = "insert", rows'[id].state = "active",
               rows'[id].owner = req'[r].user, rows'[id].key = req'[r].key
        PROVE  id \in since'[r]
    <2>1. CASE req[r].pc = "insert" /\ req'[r] = req[r]
      <3>1. since'[r] = since[r] \cup {n \in RefIds : BecomesActive(n)}
        BY <2>1 DEF Watch
      <3>2. CASE BecomesActive(id)
        BY <3>1, <3>2
      <3>3. CASE ~BecomesActive(id)
        <4>1. rows[id].state = "active"
          BY <1>3, <3>3 DEF BecomesActive
        <4>2. rows[id].owner = req[r].user /\ rows[id].key = req[r].key
          BY <1>1, <1>3, <2>1, <4>1, ActiveRowStays
        <4> QED
          BY <1>1, <2>1, <3>1, <4>1, <4>2 DEF LookupKnown
      <3> QED
        BY <3>2, <3>3
    <2>2. CASE rows' = rows /\ ~Duplicate(req'[r].user, req'[r].key)
      BY <1>3, <2>2 DEF Duplicate
    <2> QED
      BY <1>1, <1>3, <2>1, <2>2, BeforeInsert
  <1> QED
    BY <1>2, <1>3 DEF LookupKnown

\* A pair of which the first has just become active coincides.
LEMMA NewPairCoincides ==
  ASSUME WatchInv, Next, Watch, NEW i \in RefIds, NEW j \in RefIds,
         BecomesActive(i), Duplicates(i, j)'
  PROVE  <<i, j>> \in coincided'
  <1>1. IInv /\ LookupKnown /\ rows'[i].state = "active" /\ rows'[j].state = "active" /\ i # j
    BY DEF WatchInv, Duplicates
  <1>2. Coincide(i, j)
    <2>1. CASE rows[i].state = "deleted"
      BY <2>1 DEF Coincide
    <2>2. CASE \E r \in Requests : SavedBy(r, i)
      <3>1. PICK r \in Requests : SavedBy(r, i)
        BY <2>2
      <3>2. rows \in [RefIds -> Row] /\ Idle.pc # "insert"
        BY <1>1 DEF IInv, TypeOK, Idle
      <3>3. req[r].pc = "insert" /\ req'[r] # req[r]
        BY <3>1, <3>2 DEF SavedBy
      <3>4. rows'[j] = rows[j] /\ rows'[i] = NewRow(req[r].user, req[r].key)
        BY <1>1, <3>1, <3>2 DEF SavedBy
      <3>5. rows'[i].owner = req[r].user /\ rows'[i].key = req[r].key
        BY <3>4 DEF NewRow, Absent
      <3>6. /\ rows[j].state = "active"
            /\ rows[j].owner = req[r].user /\ rows[j].key = req[r].key
        BY <1>1, <3>4, <3>5 DEF Duplicates
      <3>7. j \in since[r]
        BY <1>1, <3>3, <3>6 DEF LookupKnown
      <3> QED
        BY <3>3, <3>7 DEF Coincide
    <2> QED
      BY <1>1, <2>1, <2>2, BecomesActiveHow
  <1>3. <<i, j>> \in RefIds \X RefIds /\ <<i, j>>[1] = i /\ <<i, j>>[2] = j
    OBVIOUS
  <1> QED
    BY <1>1, <1>2, <1>3 DEF Watch

LEMMA CauseStays ==
  ASSUME WatchInv, Next, Watch
  PROVE  DuplicatesHaveACause'
  <1> SUFFICES ASSUME NEW i \in RefIds, NEW j \in RefIds, Duplicates(i, j)'
               PROVE  <<i, j>> \in coincided' \/ <<j, i>> \in coincided'
    BY DEF DuplicatesHaveACause
  <1>1. CASE BecomesActive(i)
    BY <1>1, NewPairCoincides
  <1>2. CASE BecomesActive(j)
    <2>1. Duplicates(j, i)'
      BY DEF Duplicates
    <2> QED
      BY <1>2, <2>1, NewPairCoincides
  <1>3. CASE ~BecomesActive(i) /\ ~BecomesActive(j)
    <2>1. /\ rows[i].state = "active" /\ rows[j].state = "active" /\ i # j
          /\ rows'[i].state = "active" /\ rows'[j].state = "active"
      BY <1>3 DEF BecomesActive, Duplicates
    <2>2. /\ rows'[i].owner = rows[i].owner /\ rows'[i].key = rows[i].key
          /\ rows'[j].owner = rows[j].owner /\ rows'[j].key = rows[j].key
      BY <2>1, ActiveRowStays DEF WatchInv
    <2>3. Duplicates(i, j)
      BY <2>1, <2>2 DEF Duplicates
    <2>4. <<i, j>> \in coincided \/ <<j, i>> \in coincided
      BY <2>3 DEF WatchInv, DuplicatesHaveACause
    <2>5. /\ <<i, j>> \in RefIds \X RefIds /\ <<i, j>>[1] = i /\ <<i, j>>[2] = j
          /\ <<j, i>> \in RefIds \X RefIds /\ <<j, i>>[1] = j /\ <<j, i>>[2] = i
      OBVIOUS
    <2> QED
      BY <2>1, <2>4, <2>5 DEF Watch
  <1> QED
    BY <1>1, <1>2, <1>3

\* Two active references of a user share a key only if one was restored beside
\* the other or saved by a POST /references during which the other became
\* active: FindDuplicateReference fails in no other way.
THEOREM DuplicatesNeedACause == WatchedSpec => []DuplicatesHaveACause
  <1>1. WatchedInit => WatchInv
    <2> SUFFICES ASSUME WatchedInit PROVE WatchInv
      OBVIOUS
    <2>1. IInv /\ \A r \in Requests : req[r].pc = "idle"
      BY InitIInv DEF WatchedInit, Init, Idle
    <2>2. \A id \in RefIds : rows[id].state = "absent"
      BY DEF WatchedInit, Init, Absent
    <2>3. LookupKnown
      BY <2>1 DEF WatchedInit, LookupKnown
    <2>4. DuplicatesHaveACause
      BY <2>2 DEF DuplicatesHaveACause, Duplicates
    <2> QED
      BY <2>1, <2>3, <2>4 DEF WatchInv
  <1>2. WatchInv /\ [Next /\ Watch]_<<vars, watch>> => WatchInv'
    <2> SUFFICES ASSUME WatchInv, [Next /\ Watch]_<<vars, watch>> PROVE WatchInv'
      OBVIOUS
    <2>1. CASE Next /\ Watch
      <3>1. IInv'
        BY <2>1, NextIInv DEF WatchInv
      <3> QED
        BY <2>1, <3>1, LookupStaysKnown, CauseStays DEF WatchInv
    <2>2. CASE UNCHANGED <<vars, watch>>
      <3>1. IInv'
        BY <2>2, NextIInv DEF WatchInv
      <3>2. UNCHANGED <<rows, req, since, coincided>>
        BY <2>2 DEF vars, watch
      <3>3. LookupKnown'
        BY <3>2 DEF WatchInv, LookupKnown
      <3>4. DuplicatesHaveACause'
        BY <3>2 DEF WatchInv, DuplicatesHaveACause, Duplicates
      <3> QED
        BY <3>1, <3>3, <3>4 DEF WatchInv
    <2> QED
      BY <2>1, <2>2
  <1>3. WatchInv => DuplicatesHaveACause
    BY DEF WatchInv
  <1> QED
    BY <1>1, <1>2, <1>3, PTL DEF WatchedSpec
=============================================================================
