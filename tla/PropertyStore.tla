---------------------------- MODULE PropertyStore ----------------------------
(* PostgresPropertyRepository for one property: request handlers of several     *)
(* server processes share one row, its derived table of occupied nights and an  *)
(* outbox, through a bounded pool of connections, with retries, lost            *)
(* connections and lost answers.  It implements PropertyLedger.                 *)
EXTENDS PropertyRequests

CONSTANTS
  Client,          \* calls of transact() that may be in flight at once
  NoClient,
  MaxConnections,  \* size of the connection pool
  MaxFaults        \* bound on aborts, time-outs and lost connections

ASSUME StoreAssumption ==
  /\ Request # {}
  /\ NoClient \notin Client
  /\ MaxConnections \in Nat
  /\ MaxFaults \in Nat

VARIABLES
  row,         \* committed property_state.state_json, with its version column
  serial,      \* number of committed updates of that row
  occupied,    \* committed occupied_room_nights: pairs of a night and a booking
  outbox,      \* committed outbox rows
  lock,        \* the transaction that holds the row's lock
  nextCursor,  \* the outbox identity sequence, which no rollback takes back
  tx,          \* each call's progress and its uncommitted work
  said,        \* the last answer to each request
  reader,      \* the feed reader's cursor and what it has received
  faults

database == <<row, serial, occupied, outbox>>
vars == <<row, serial, occupied, outbox, lock, nextCursor, tx, said, reader, faults>>

MaxAttempts == 3

\* Neither lock nor isolation level: the version check is left alone to find a conflict.
Isolation_VersionOnly == [serializable |-> FALSE, rowLock |-> FALSE]

\* How transact() shields its read-modify-write: BEGIN ISOLATION LEVEL SERIALIZABLE and
\* SELECT ... FOR UPDATE.
Isolation == [serializable |-> TRUE, rowLock |-> TRUE]

Step == {"idle", "connect", "begun", "read", "ran", "updated", "refreshed", "emitted"}
Connected == {"begun", "read", "ran", "updated", "refreshed", "emitted"}
Answer == {"none", "done", "refused", "unknown"}

Event == [cursor: Nat, request: Request, at: Nat]
Tx == [step: Step, request: Request, attempt: 0..MaxAttempts - 1, snap: Nat,
       version: Nat, draft: Document, cells: SUBSET (Night \X Booking),
       fresh: BOOLEAN, pending: SUBSET Event]

Unstarted ==
  [step |-> "idle", request |-> CHOOSE r \in Request : TRUE, attempt |-> 0, snap |-> 0,
   version |-> 0, draft |-> NewDocument, cells |-> {}, fresh |-> FALSE, pending |-> {}]

TypeOK ==
  /\ row \in Document
  /\ serial \in Nat
  /\ occupied \subseteq Night \X Booking
  /\ outbox \subseteq Event
  /\ lock \in Client \cup {NoClient}
  /\ nextCursor \in Nat \ {0}
  /\ tx \in [Client -> Tx]
  /\ said \in [Request -> Answer]
  /\ reader \in [after: Nat, got: Seq(Request)]
  /\ faults \in 0..MaxFaults

\* seed() of a property without bookings.
Init ==
  /\ row = NewDocument
  /\ serial = 0
  /\ occupied = {}
  /\ outbox = {}
  /\ lock = NoClient
  /\ nextCursor = 1
  /\ tx = [c \in Client |-> Unstarted]
  /\ said = [r \in Request |-> "none"]
  /\ reader = [after |-> 0, got |-> <<>>]
  /\ faults = 0

-----------------------------------------------------------------------------
\* Helpers of the steps below.

At(c, step) == tx[c].step = step
InPool == {c \in Client : tx[c].step \in Connected}
Fault == faults < MaxFaults /\ faults' = faults + 1

\* The connection goes back to the pool without a ROLLBACK.
Unlock_Forgotten(c) == lock' = lock

\* ROLLBACK, an error in COMMIT or a closed connection all give the lock back.
Unlock(c) == lock' = IF lock = c THEN NoClient ELSE lock

\* The call ends: its connection is released and its caller told.
Tell(c, answer) ==
  /\ said' = [said EXCEPT ![tx[c].request] = answer]
  /\ tx' = [tx EXCEPT ![c] = Unstarted]

\* The retry loop has no end.
Retry_Endless(c) ==
  /\ Unlock(c)
  /\ tx' = [tx EXCEPT ![c] = [Unstarted EXCEPT !.step = "connect",
               !.request = tx[c].request, !.attempt = tx[c].attempt + 1]]
  /\ UNCHANGED said

\* 40001 and 40P01 start the transaction over, twice at most.
Retry(c) ==
  /\ Unlock(c)
  /\ IF tx[c].attempt < MaxAttempts - 1
     THEN /\ tx' = [tx EXCEPT ![c] = [Unstarted EXCEPT !.step = "connect",
                      !.request = tx[c].request, !.attempt = tx[c].attempt + 1]]
          /\ UNCHANGED said
     ELSE Tell(c, "unknown")

\* The row was updated by a transaction that committed after this one's snapshot.
Moved(c) == Isolation.serializable /\ serial # tx[c].snap

OccupancyRows(d) == {x \in Night \X Booking : x[2] \in Occupying(d) /\ x[1] \in d.stay[x[2]]}
-----------------------------------------------------------------------------
\* transact()

\* A caller may send a request again while an earlier call of it is still running.
Call(c, r) ==
  /\ At(c, "idle")
  /\ said[r] # "done"
  /\ tx' = [tx EXCEPT ![c].step = "connect", ![c].request = r]
  /\ UNCHANGED <<database, lock, nextCursor, said, reader, faults>>

\* pool.connect(), BEGIN and the property scope, whose SELECT takes the snapshot.
Begin(c) ==
  /\ At(c, "connect")
  /\ Cardinality(InPool) < MaxConnections
  /\ tx' = [tx EXCEPT ![c].step = "begun", ![c].snap = serial]
  /\ UNCHANGED <<database, lock, nextCursor, said, reader, faults>>

\* connectionTimeoutMillis passes before the pool has a connection to give.
ConnectTimesOut(c) ==
  /\ At(c, "connect")
  /\ Fault
  /\ Tell(c, "unknown")
  /\ UNCHANGED <<database, lock, nextCursor, reader>>

\* SELECT ... FOR UPDATE waits for the row's lock, or fails on a row that has moved.
ReadRow(c) ==
  /\ At(c, "begun")
  /\ IF Moved(c)
     THEN Retry(c)
     ELSE /\ Isolation.rowLock => lock = NoClient
          /\ lock' = IF Isolation.rowLock THEN c ELSE lock
          /\ tx' = [tx EXCEPT ![c].step = "read", ![c].draft = row, ![c].version = row.version]
          /\ UNCHANGED said
  /\ UNCHANGED <<database, nextCursor, reader, faults>>

\* The handler runs on the draft; a GateError rolls everything back.
RunHandler(c) ==
  LET d == tx[c].draft
      r == tx[c].request
  IN /\ At(c, "read")
     /\ \/ /\ Replays(d, r)
           /\ tx' = [tx EXCEPT ![c].step = "ran"]
           /\ UNCHANGED <<lock, said>>
        \/ /\ Accepts(d, r)
           /\ tx' = [tx EXCEPT ![c].step = "ran", ![c].draft = After(d, r), ![c].fresh = TRUE]
           /\ UNCHANGED <<lock, said>>
        \/ /\ Refuses(d, r)
           /\ Unlock(c)
           /\ Tell(c, "refused")
     /\ UNCHANGED <<database, nextCursor, reader, faults>>

\* The row is given back as soon as it is written, before its nights and its event are.
UpdateRow_Released(c) ==
  /\ At(c, "ran")
  /\ lock \in {c, NoClient} \/ Moved(c)
  /\ IF Moved(c) THEN Retry(c)
     ELSE IF row.version # tx[c].version THEN Unlock(c) /\ Tell(c, "refused")
     ELSE /\ lock' = NoClient
          /\ tx' = [tx EXCEPT ![c].step = "updated"]
          /\ UNCHANGED said
  /\ UNCHANGED <<database, nextCursor, reader, faults>>

\* UPDATE ... WHERE inventory_version is the one read; none matching is AUTHORITY_MOVED.
UpdateRow(c) ==
  /\ At(c, "ran")
  /\ lock \in {c, NoClient} \/ Moved(c)
  /\ IF Moved(c) THEN Retry(c)
     ELSE IF row.version # tx[c].version THEN Unlock(c) /\ Tell(c, "refused")
     ELSE /\ lock' = c
          /\ tx' = [tx EXCEPT ![c].step = "updated"]
          /\ UNCHANGED said
  /\ UNCHANGED <<database, nextCursor, reader, faults>>

\* Delete and insert the occupied nights; a night twice breaks the primary key.
RefreshOccupancy(c) ==
  LET cells == OccupancyRows(tx[c].draft)
  IN /\ At(c, "updated")
     /\ IF \E x, y \in cells : x[1] = y[1] /\ x # y
        THEN Unlock(c) /\ Tell(c, "unknown")
        ELSE /\ tx' = [tx EXCEPT ![c].step = "refreshed", ![c].cells = cells]
             /\ UNCHANGED <<lock, said>>
     /\ UNCHANGED <<database, nextCursor, reader, faults>>

\* The events are inserted through the pool, outside the transaction.
EmitEvents_Outside(c) ==
  LET event == [cursor |-> nextCursor, request |-> tx[c].request,
                at |-> Len(tx[c].draft.receipts)]
  IN /\ At(c, "refreshed")
     /\ nextCursor' = IF tx[c].fresh THEN nextCursor + 1 ELSE nextCursor
     /\ tx' = [tx EXCEPT ![c].step = "emitted"]
     /\ outbox' = IF tx[c].fresh THEN outbox \cup {event} ELSE outbox
     /\ UNCHANGED <<row, serial, occupied, lock, said, reader, faults>>

\* The event, and its audit row with it, is inserted under the next cursor.
EmitEvents(c) ==
  LET event == [cursor |-> nextCursor, request |-> tx[c].request,
                at |-> Len(tx[c].draft.receipts)]
  IN /\ At(c, "refreshed")
     /\ nextCursor' = IF tx[c].fresh THEN nextCursor + 1 ELSE nextCursor
     /\ tx' = [tx EXCEPT ![c].step = "emitted",
                         ![c].pending = IF tx[c].fresh THEN {event} ELSE {}]
     /\ UNCHANGED <<database, lock, said, reader, faults>>

Install(c) ==
  /\ At(c, "emitted")
  /\ row' = tx[c].draft
  /\ serial' = serial + 1
  /\ occupied' = tx[c].cells
  /\ outbox' = outbox \cup tx[c].pending
  /\ Unlock(c)
  /\ UNCHANGED <<nextCursor, reader>>

Commit(c) == Install(c) /\ Tell(c, "done") /\ UNCHANGED faults

\* COMMIT takes effect but its answer, or the process waiting for it, is lost.
CommitUnknown(c) == Install(c) /\ Tell(c, "unknown") /\ Fault

\* The database may refuse any statement, COMMIT included, with 40001 or 40P01.
Conflict(c) ==
  /\ tx[c].step \in Connected
  /\ Fault
  /\ Retry(c)
  /\ UNCHANGED <<database, nextCursor, reader>>

\* The connection or the process is lost before COMMIT: the database rolls back.
Lost(c) ==
  /\ tx[c].step \in Connected
  /\ Fault
  /\ Unlock(c)
  /\ Tell(c, "unknown")
  /\ UNCHANGED <<database, nextCursor, reader>>
-----------------------------------------------------------------------------
\* events(): the rows after the reader's cursor, in cursor order.  A longer page is
\* several of these steps.
Poll ==
  \E e \in outbox :
    /\ e.cursor > reader.after
    /\ \A f \in outbox : f.cursor > reader.after => e.cursor <= f.cursor
    /\ reader' = [after |-> e.cursor, got |-> Append(reader.got, e.request)]
    /\ UNCHANGED <<database, lock, nextCursor, tx, said, faults>>

Advance(c) ==
  \/ Begin(c) \/ ReadRow(c) \/ RunHandler(c) \/ UpdateRow(c)
  \/ RefreshOccupancy(c) \/ EmitEvents(c) \/ Commit(c)

Trouble(c) == ConnectTimesOut(c) \/ CommitUnknown(c) \/ Conflict(c) \/ Lost(c)

Next ==
  \/ \E c \in Client : Advance(c) \/ Trouble(c) \/ \E r \in Request : Call(c, r)
  \/ Poll

Spec == Init /\ [][Next]_vars

\* The pool and the lock queue serve their waiters in turn, so a call that keeps getting
\* its chance takes it.
Fairness == \A c \in Client : SF_vars(Advance(c))
FairSpec == Spec /\ Fairness
-----------------------------------------------------------------------------
(* The inductive invariant.  The row's lock keeps what a call has read true, so *)
(* its draft is one request ahead of the row, and its event the next one.       *)

Held == {"read", "ran", "updated", "refreshed", "emitted"}
Ran == {"ran", "updated", "refreshed", "emitted"}

\* The draft a call works on is the row, or the row with its own request applied.
DraftInv(c) ==
  LET t == tx[c]
  IN /\ t.step \in Held => lock = c
     /\ t.fresh => t.step \in Ran
     /\ t.step = "read" => t.draft = row
     /\ t.step \in {"read", "ran"} => t.version = row.version
     /\ t.step \in Ran /\ t.fresh =>
          Accepts(row, t.request) /\ t.draft = After(row, t.request)
     /\ t.step \in Ran /\ ~t.fresh => Replays(row, t.request) /\ t.draft = row
     /\ t.step \in {"refreshed", "emitted"} => t.cells = OccupancyRows(t.draft)

\* The event a call is about to commit comes after all that readers may have seen.
PendingInv(c) ==
  LET t == tx[c]
  IN t.step = "emitted" =>
       IF t.fresh
       THEN \E k \in reader.after + 1 .. nextCursor - 1 :
              /\ t.pending = {[cursor |-> k, request |-> t.request, at |-> Len(row.receipts) + 1]}
              /\ \A e \in outbox : e.cursor < k
       ELSE t.pending = {}

CallInv(c) == DraftInv(c) /\ PendingInv(c)

\* The outbox has the receipts' events, under cursors in the receipts' order.
OutboxInv ==
  /\ \A e \in outbox :
       e.cursor < nextCursor /\ e.at \in DOMAIN row.receipts /\ e.request = row.receipts[e.at]
  /\ \A i \in DOMAIN row.receipts : \E e \in outbox : e.at = i
  /\ \A e, f \in outbox : e.cursor < f.cursor <=> e.at < f.at

\* The reader's cursor stands between the events it has had and the others.
ReaderInv ==
  /\ reader.after < nextCursor
  /\ Len(reader.got) <= Len(row.receipts)
  /\ \A e \in outbox : e.cursor <= reader.after <=> e.at <= Len(reader.got)

\* The table of occupied nights always is what the document says (property-integrity.mjs
\* compares the two).
OccupancyMatches == occupied = OccupancyRows(row)

\* While a call holds the row, what it has read stays true and what it will commit is one
\* request ahead (transact()'s FOR UPDATE and event numbering); Refinement rests on it.
StoreInv ==
  /\ OccupancyMatches
  /\ OutboxInv
  /\ ReaderInv
  /\ \A c \in Client : CallInv(c)
-----------------------------------------------------------------------------
\* The promise of PropertyLedger, kept by the committed row.
L == INSTANCE PropertyLedger WITH doc <- row, said <- said, got <- reader.got

\* Every step of the store is a step of the ledger or none of the ledger's business:
\* transact() is atomic, loses no update and answers the truth (postgres-repository.mjs).
ImplementsLedger == L!LedgerSpec

\* No room night of the committed document belongs to two bookings in force, though several
\* processes sell it from drafts of their own (hasConflict).
NoNightSoldTwice == L!NoNightSoldTwice

\* Of the payments submitted against one version of a booking, under several request keys and
\* through lost answers, at most one is committed.
OnePaymentPerRevision == L!OnePaymentPerRevision

\* A call that was committed is never refused afterwards, whatever its retries met.
RefusedWasNotApplied == L!RefusedWasNotApplied

\* What was answered as done is in the committed document, through aborts and retries.
AnsweredIsDurable == L!AnsweredIsDurable

\* A reader that pages through the outbox misses no committed event, gets none twice or
\* from a rolled back transaction, and gets them in the order of the document's changes.
FeedIsPrefix == L!FeedIsPrefix

\* What is committed stands: the row sells no night twice, has all that callers were told is
\* done, and has been shown to readers as it was made (transact() and events() together).
LedgerStands == NoNightSoldTwice /\ AnsweredIsDurable /\ FeedIsPrefix

\* Every call of transact() ends: whatever its neighbours meet, it is answered.
CallsEnd == \A c \in Client : ~At(c, "idle") ~> At(c, "idle")
=============================================================================
