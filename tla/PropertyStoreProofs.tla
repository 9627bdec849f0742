------------------------- MODULE PropertyStoreProofs -------------------------
(* PropertyStore implements PropertyLedger, for every set of callers, requests, *)
(* nights and bookings and every size of the pool.                              *)
EXTENDS PropertyStore, PropertyRequestsProofs

\* An empty slot is a well-typed call that holds no work.
LEMMA UnstartedType == Unstarted \in Tx /\ Unstarted.step = "idle" /\ ~Unstarted.fresh
<1>1. (CHOOSE r \in Request : TRUE) \in Request  BY StoreAssumption
<1>2. NewDocument \in Document  BY DEF NewDocument, Document
<1>3. 0 \in 0..MaxAttempts - 1  BY DEF MaxAttempts
<1>. QED  BY <1>1, <1>2, <1>3 DEF Unstarted, Tx, Step

\* An answered call leaves the document alone and its own slot empty.
LEMMA TellType ==
  ASSUME TypeOK, NEW c \in Client, NEW a \in Answer, Tell(c, a)
  PROVE  tx' \in [Client -> Tx] /\ said' \in [Request -> Answer]
<1>1. tx[c].request \in Request  BY DEF TypeOK, Tx
<1>. QED  BY <1>1, UnstartedType DEF Tell, TypeOK

\* A retry starts over with an empty slot and the same request, or gives up.
LEMMA RetryType ==
  ASSUME TypeOK, NEW c \in Client, Retry(c)
  PROVE  tx' \in [Client -> Tx] /\ said' \in [Request -> Answer]
         /\ lock' \in Client \cup {NoClient}
<1>0. lock' \in Client \cup {NoClient}  BY DEF Retry, Unlock, TypeOK
<1>1. tx[c].request \in Request /\ tx[c].attempt \in 0..MaxAttempts - 1  BY DEF TypeOK, Tx
<1>2. CASE tx[c].attempt < MaxAttempts - 1
  <2>. DEFINE t == [Unstarted EXCEPT !.step = "connect", !.request = tx[c].request,
                                     !.attempt = tx[c].attempt + 1]
  <2>1. tx[c].attempt + 1 \in 0..MaxAttempts - 1  BY <1>1, <1>2 DEF MaxAttempts
  <2>2. t \in Tx  BY <1>1, <2>1, UnstartedType DEF Tx, Step
  <2>3. tx' = [tx EXCEPT ![c] = t] /\ said' = said  BY <1>2 DEF Retry
  <2>. HIDE DEF t
  <2>. QED  BY <1>0, <2>2, <2>3 DEF TypeOK
<1>3. CASE ~(tx[c].attempt < MaxAttempts - 1)
  <2>1. Tell(c, "unknown")  BY <1>3 DEF Retry
  <2>. QED  BY <1>0, <2>1, TellType DEF Answer
<1>. QED  BY <1>2, <1>3

\* Every step of a call, good or bad, keeps the types.
LEMMA ClientStepType ==
  ASSUME TypeOK, NEW c \in Client, Advance(c) \/ Trouble(c) \/ \E r \in Request : Call(c, r)
  PROVE  TypeOK'
<1>0. /\ tx[c] \in Tx /\ tx \in [Client -> Tx] /\ row \in Document /\ serial \in Nat
      /\ lock \in Client \cup {NoClient} /\ nextCursor \in Nat \ {0}
  BY DEF TypeOK
<1>1. ASSUME NEW r \in Request, Call(c, r) PROVE TypeOK'
  <2>1. [tx[c] EXCEPT !.step = "connect", !.request = r] \in Tx  BY <1>0 DEF Tx, Step
  <2>. QED  BY <1>1, <2>1 DEF Call, TypeOK, database
<1>2. CASE Begin(c)
  <2>1. [tx[c] EXCEPT !.step = "begun", !.snap = serial] \in Tx  BY <1>0 DEF Tx, Step
  <2>. QED  BY <1>2, <2>1 DEF Begin, TypeOK, database
<1>3. CASE ReadRow(c)
  <2>1. CASE Moved(c)
    <3>1. Retry(c)  BY <1>3, <2>1 DEF ReadRow
    <3>. QED  BY <1>3, <3>1, RetryType DEF ReadRow, TypeOK, database
  <2>2. CASE ~Moved(c)
    <3>1. row.version \in Nat  BY <1>0 DEF Document
    <3>2. [tx[c] EXCEPT !.step = "read", !.draft = row, !.version = row.version] \in Tx
      BY <1>0, <3>1 DEF Tx, Step
    <3>. QED  BY <1>3, <2>2, <3>2 DEF ReadRow, TypeOK, database
  <2>. QED  BY <2>1, <2>2
<1>4. CASE RunHandler(c)
  <2>. DEFINE d == tx[c].draft
              r == tx[c].request
  <2>0. d \in Document /\ r \in Request  BY <1>0 DEF Tx
  <2>1. CASE Replays(d, r)
    <3>1. [tx[c] EXCEPT !.step = "ran"] \in Tx  BY <1>0 DEF Tx, Step
    <3>. QED  BY <1>4, <2>1, <3>1 DEF RunHandler, TypeOK, database, Accepts, Refuses
  <2>2. CASE Accepts(d, r)
    <3>0. After(d, r) \in Document  BY <2>0, AfterType
    <3>. DEFINE e == After(d, r)
                t == [tx[c] EXCEPT !.step = "ran", !.draft = e, !.fresh = TRUE]
    <3>1. tx' = [tx EXCEPT ![c] = t] /\ UNCHANGED <<lock, said>>
      BY <1>4, <2>2 DEF RunHandler, Accepts, Refuses
    <3>. HIDE DEF e
    <3>2. t \in Tx  BY <1>0, <3>0 DEF Tx, Step, e
    <3>. HIDE DEF t
    <3>. QED  BY <1>4, <3>1, <3>2 DEF RunHandler, TypeOK, database
  <2>3. CASE Refuses(d, r)
    <3>1. Tell(c, "refused") /\ Unlock(c)  BY <1>4, <2>3 DEF RunHandler, Accepts, Refuses
    <3>2. lock' \in Client \cup {NoClient}  BY <1>0, <3>1 DEF Unlock
    <3>3. tx' \in [Client -> Tx] /\ said' \in [Request -> Answer]
      BY <3>1, TellType DEF Answer
    <3>. QED  BY <1>4, <3>2, <3>3 DEF RunHandler, TypeOK, database
  <2>. QED  BY <2>1, <2>2, <2>3 DEF Accepts, Refuses
<1>5. CASE UpdateRow(c)
  <2>1. CASE Retry(c)  BY <1>5, <2>1, RetryType DEF UpdateRow, TypeOK, database
  <2>2. CASE Unlock(c) /\ Tell(c, "refused")
    <3>1. lock' \in Client \cup {NoClient}  BY <1>0, <2>2 DEF Unlock
    <3>2. tx' \in [Client -> Tx] /\ said' \in [Request -> Answer]
      BY <2>2, TellType DEF Answer
    <3>. QED  BY <1>5, <3>1, <3>2 DEF UpdateRow, TypeOK, database
  <2>3. CASE /\ lock' = c
             /\ tx' = [tx EXCEPT ![c].step = "updated"]
             /\ UNCHANGED said
    <3>1. [tx[c] EXCEPT !.step = "updated"] \in Tx  BY <1>0 DEF Tx, Step
    <3>. QED  BY <1>5, <2>3, <3>1 DEF UpdateRow, TypeOK, database
  <2>. QED  BY <1>5, <2>1, <2>2, <2>3 DEF UpdateRow
<1>6. CASE RefreshOccupancy(c)
  <2>. DEFINE cells == OccupancyRows(tx[c].draft)
  <2>1. CASE Unlock(c) /\ Tell(c, "unknown")
    <3>1. lock' \in Client \cup {NoClient}  BY <1>0, <2>1 DEF Unlock
    <3>2. tx' \in [Client -> Tx] /\ said' \in [Request -> Answer]
      BY <2>1, TellType DEF Answer
    <3>. QED  BY <1>6, <3>1, <3>2 DEF RefreshOccupancy, TypeOK, database
  <2>2. CASE /\ tx' = [tx EXCEPT ![c].step = "refreshed", ![c].cells = cells]
             /\ UNCHANGED <<lock, said>>
    <3>1. cells \subseteq Night \X Booking  BY DEF OccupancyRows
    <3>2. [tx[c] EXCEPT !.step = "refreshed", !.cells = cells] \in Tx
      BY <1>0, <3>1 DEF Tx, Step
    <3>. HIDE DEF cells
    <3>. QED  BY <1>6, <2>2, <3>2 DEF RefreshOccupancy, TypeOK, database
  <2>. QED  BY <1>6, <2>1, <2>2 DEF RefreshOccupancy
<1>7. CASE EmitEvents(c)
  <2>. DEFINE event == [cursor |-> nextCursor, request |-> tx[c].request,
                        at |-> Len(tx[c].draft.receipts)]
              rows == IF tx[c].fresh THEN {event} ELSE {}
              t == [tx[c] EXCEPT !.step = "emitted", !.pending = rows]
  <2>1. tx[c].draft.receipts \in Seq(Request) /\ tx[c].request \in Request
    BY <1>0 DEF Tx, Document
  <2>2. event \in Event  BY <1>0, <2>1 DEF Event
  <2>3. nextCursor' \in Nat \ {0}  BY <1>0, <1>7 DEF EmitEvents
  <2>4. tx' = [tx EXCEPT ![c] = t]  BY <1>7 DEF EmitEvents
  <2>. HIDE DEF event
  <2>5. rows \subseteq Event  BY <2>2
  <2>. HIDE DEF rows
  <2>6. t \in Tx  BY <1>0, <2>5 DEF Tx, Step
  <2>. HIDE DEF t
  <2>. QED  BY <1>7, <2>3, <2>4, <2>6 DEF EmitEvents, TypeOK, database
<1>8. ASSUME Install(c) PROVE
        /\ row' \in Document /\ serial' \in Nat /\ occupied' \subseteq Night \X Booking
        /\ outbox' \subseteq Event /\ lock' \in Client \cup {NoClient}
        /\ nextCursor' = nextCursor /\ reader' = reader
  BY <1>8, <1>0 DEF Install, Unlock, TypeOK, Tx
<1>9. CASE Commit(c)
  <2>1. Tell(c, "done") /\ Install(c) /\ faults' = faults  BY <1>9 DEF Commit
  <2>2. tx' \in [Client -> Tx] /\ said' \in [Request -> Answer]  BY <2>1, TellType DEF Answer
  <2>. QED  BY <1>8, <2>1, <2>2 DEF TypeOK
<1>10. ASSUME Fault PROVE faults' \in 0..MaxFaults
  BY <1>10, StoreAssumption DEF Fault, TypeOK
<1>11. CASE CommitUnknown(c)
  <2>1. Tell(c, "unknown") /\ Install(c) /\ Fault  BY <1>11 DEF CommitUnknown
  <2>2. tx' \in [Client -> Tx] /\ said' \in [Request -> Answer]  BY <2>1, TellType DEF Answer
  <2>. QED  BY <1>8, <1>10, <2>1, <2>2 DEF TypeOK
<1>12. CASE ConnectTimesOut(c)
  <2>1. tx' \in [Client -> Tx] /\ said' \in [Request -> Answer]
    BY <1>12, TellType DEF Answer, ConnectTimesOut
  <2>. QED  BY <1>10, <1>12, <2>1 DEF ConnectTimesOut, TypeOK, database
<1>13. CASE Conflict(c)
  BY <1>10, <1>13, RetryType DEF Conflict, TypeOK, database
<1>14. CASE Lost(c)
  <2>1. tx' \in [Client -> Tx] /\ said' \in [Request -> Answer]
    BY <1>14, TellType DEF Answer, Lost
  <2>2. lock' \in Client \cup {NoClient}  BY <1>0, <1>14 DEF Lost, Unlock
  <2>. QED  BY <1>10, <1>14, <2>1, <2>2 DEF Lost, TypeOK, database
<1>. QED  BY <1>1, <1>2, <1>3, <1>4, <1>5, <1>6, <1>7, <1>9, <1>11, <1>12, <1>13, <1>14
          DEF Advance, Trouble

\* Every variable keeps its type; the attempts never exceed three.
THEOREM TypeCorrect == Spec => []TypeOK
<1>1. Init => TypeOK
  <2>1. NewDocument \in Document  BY DEF NewDocument, Document
  <2>. QED  BY <2>1, UnstartedType, StoreAssumption DEF Init, TypeOK, Answer
<1>2. TypeOK /\ [Next]_vars => TypeOK'
  <2>1. ASSUME TypeOK, Poll PROVE TypeOK'
    <3>1. PICK e \in outbox : reader' = [after |-> e.cursor, got |-> Append(reader.got, e.request)]
      BY <2>1 DEF Poll
    <3>2. e.cursor \in Nat /\ e.request \in Request  BY <2>1, <3>1 DEF TypeOK, Event
    <3>3. reader.got \in Seq(Request)  BY <2>1 DEF TypeOK
    <3>4. reader' \in [after: Nat, got: Seq(Request)]  BY <3>1, <3>2, <3>3
    <3>. QED  BY <2>1, <3>4 DEF Poll, TypeOK, database
  <2>2. ASSUME TypeOK, UNCHANGED vars PROVE TypeOK'  BY <2>2 DEF vars, TypeOK
  <2>. QED  BY <2>1, <2>2, ClientStepType DEF Next
<1>. QED  BY <1>1, <1>2, PTL DEF Spec
-----------------------------------------------------------------------------
(* The inductive invariant, StoreInv, and the steps that keep it. *)

\* A call that holds no row has nothing to keep true.
LEMMA Cleared ==
  ASSUME NEW c \in Client, tx'[c].step \notin Held, ~tx'[c].fresh
  PROVE  CallInv(c)'
BY DEF CallInv, DraftInv, PendingInv, Held, Ran

\* What a call has is left alone by the steps of others: who would change it needs the
\* lock that this call holds.
LEMMA Undisturbed ==
  ASSUME TypeOK, TypeOK', NEW d \in Client, CallInv(d), tx'[d] = tx[d],
         nextCursor' \in {nextCursor, nextCursor + 1},
         tx[d].step \in Held =>
           lock' = d /\ row' = row /\ outbox' = outbox /\ reader' = reader
  PROVE  CallInv(d)'
<1>1. CASE tx[d].step \notin Held
  <2>1. ~tx[d].fresh  BY <1>1 DEF CallInv, DraftInv, Held, Ran
  <2>. QED  BY <1>1, <2>1, Cleared
<1>2. CASE tx[d].step \in Held
  <2>1. DraftInv(d)'  BY <1>2 DEF CallInv, DraftInv
  <2>2. ASSUME tx[d].step = "emitted", tx[d].fresh
        PROVE  reader.after + 1 .. nextCursor - 1 \subseteq reader.after + 1 .. nextCursor' - 1
    BY DEF TypeOK
  <2>3. PendingInv(d)'  BY <1>2, <2>2 DEF CallInv, PendingInv
  <2>. QED  BY <2>1, <2>3 DEF CallInv
<1>. QED  BY <1>1, <1>2

\* A step of one call that commits nothing keeps the invariant if it keeps the call's own.
LEMMA Uncommitted ==
  ASSUME TypeOK, TypeOK', StoreInv, NEW c \in Client, CallInv(c)',
         UNCHANGED <<row, occupied, outbox, reader>>,
         nextCursor' \in {nextCursor, nextCursor + 1},
         \A d \in Client \ {c} : tx'[d] = tx[d] /\ (lock = d => lock' = d)
  PROVE  StoreInv'
<1>1. OccupancyMatches'  BY DEF StoreInv, OccupancyMatches, OccupancyRows, Occupying
<1>2. OutboxInv' /\ ReaderInv'
  <2>1. \A n \in Nat : n < nextCursor => n < nextCursor'  BY DEF TypeOK
  <2>2. reader.after \in Nat /\ \A e \in outbox : e.cursor \in Nat  BY DEF TypeOK, Event
  <2>. QED  BY <2>1, <2>2 DEF StoreInv, OutboxInv, ReaderInv
<1>3. ASSUME NEW d \in Client PROVE CallInv(d)'
  <2>1. CASE d = c  BY <2>1
  <2>2. CASE d # c
    <3>1. CallInv(d)  BY DEF StoreInv
    <3>2. tx[d].step \in Held => lock = d  BY <3>1 DEF CallInv, DraftInv
    <3>. QED  BY <2>2, <3>1, <3>2, Undisturbed
  <2>. QED  BY <2>1, <2>2
<1>. QED  BY <1>1, <1>2, <1>3 DEF StoreInv

\* Answered calls and retries start from an empty slot.
LEMMA SlotEmptied ==
  ASSUME TypeOK, NEW c \in Client, Retry(c) \/ \E a \in Answer : Tell(c, a)
  PROVE  /\ tx'[c].step \notin Held
         /\ ~tx'[c].fresh
         /\ \A d \in Client \ {c} : tx'[d] = tx[d]
<1>1. ASSUME NEW a \in Answer, Tell(c, a) PROVE tx' = [tx EXCEPT ![c] = Unstarted]
  BY <1>1 DEF Tell
<1>2. ASSUME NEW a \in Answer, Tell(c, a)
      PROVE  /\ tx'[c] = Unstarted
             /\ \A d \in Client \ {c} : tx'[d] = tx[d]
  BY <1>1, <1>2 DEF TypeOK
<1>3. CASE \E a \in Answer : Tell(c, a)
  BY <1>2, <1>3, UnstartedType DEF Held
<1>4. CASE Retry(c)
  <2>1. CASE tx[c].attempt < MaxAttempts - 1
    <3>. DEFINE t == [Unstarted EXCEPT !.step = "connect", !.request = tx[c].request,
                                       !.attempt = tx[c].attempt + 1]
    <3>1. t.step = "connect" /\ ~t.fresh  BY UnstartedType DEF Tx
    <3>2. tx' = [tx EXCEPT ![c] = t]  BY <1>4, <2>1 DEF Retry
    <3>. HIDE DEF t
    <3>. QED  BY <3>1, <3>2 DEF TypeOK, Held
  <2>2. CASE ~(tx[c].attempt < MaxAttempts - 1)
    <3>1. Tell(c, "unknown")  BY <1>4, <2>2 DEF Retry
    <3>. QED  BY <1>3, <3>1 DEF Answer
  <2>. QED  BY <2>1, <2>2
<1>. QED  BY <1>3, <1>4

\* A call that is answered without a commit gives up its own lock only.
LEMMA Ended ==
  ASSUME TypeOK, TypeOK', StoreInv, NEW c \in Client, NEW a \in Answer,
         UNCHANGED <<row, occupied, outbox, reader, nextCursor>>,
         Unlock(c), Tell(c, a)
  PROVE  StoreInv'
<1>1. CallInv(c)'  BY SlotEmptied, Cleared
<1>2. \A d \in Client \ {c} : tx'[d] = tx[d]  BY SlotEmptied
<1>3. \A d \in Client \ {c} : lock = d => lock' = d  BY DEF Unlock
<1>. QED  BY <1>1, <1>2, <1>3, Uncommitted

\* So does a call that starts over.
LEMMA Restarted ==
  ASSUME TypeOK, TypeOK', StoreInv, NEW c \in Client,
         UNCHANGED <<row, occupied, outbox, reader, nextCursor>>,
         Retry(c)
  PROVE  StoreInv'
<1>1. CallInv(c)'  BY SlotEmptied, Cleared
<1>2. \A d \in Client \ {c} : tx'[d] = tx[d]  BY SlotEmptied
<1>3. \A d \in Client \ {c} : lock = d => lock' = d  BY DEF Retry, Unlock
<1>. QED  BY <1>1, <1>2, <1>3, Uncommitted

\* The steps of a call before its commit keep the invariant.
LEMMA WorkKeepsInv ==
  ASSUME TypeOK, TypeOK', StoreInv, NEW c \in Client,
         \/ Begin(c) \/ ReadRow(c) \/ RunHandler(c) \/ UpdateRow(c)
         \/ RefreshOccupancy(c) \/ EmitEvents(c)
         \/ ConnectTimesOut(c) \/ Conflict(c) \/ Lost(c)
         \/ \E r \in Request : Call(c, r)
  PROVE  StoreInv'
<1>0. /\ tx \in [Client -> Tx] /\ tx[c] \in Tx /\ DraftInv(c) /\ PendingInv(c)
      /\ nextCursor \in Nat /\ NoClient \notin Client
  BY StoreAssumption DEF TypeOK, StoreInv, CallInv
<1>1. ASSUME NEW t \in Tx, tx' = [tx EXCEPT ![c] = t]
      PROVE  tx'[c] = t /\ \A d \in Client \ {c} : tx'[d] = tx[d]
  BY <1>0, <1>1
<1>2. ASSUME NEW r \in Request, Call(c, r) PROVE StoreInv'
  <2>1. tx'[c].step = "connect" /\ tx'[c].fresh = tx[c].fresh
        /\ \A d \in Client \ {c} : tx'[d] = tx[d]
    BY <1>0, <1>2 DEF Call, Tx
  <2>2. ~tx[c].fresh  BY <1>0, <1>2 DEF Call, At, DraftInv, Ran
  <2>3. CallInv(c)'  BY <2>1, <2>2, Cleared DEF Held
  <2>. QED  BY <1>2, <2>1, <2>3, Uncommitted DEF Call, database
<1>3. CASE Begin(c)
  <2>1. tx'[c].step = "begun" /\ tx'[c].fresh = tx[c].fresh
        /\ \A d \in Client \ {c} : tx'[d] = tx[d]
    BY <1>0, <1>3 DEF Begin, Tx
  <2>2. ~tx[c].fresh  BY <1>0, <1>3 DEF Begin, At, DraftInv, Ran
  <2>3. CallInv(c)'  BY <2>1, <2>2, Cleared DEF Held
  <2>. QED  BY <1>3, <2>1, <2>3, Uncommitted DEF Begin, database
<1>4. CASE ReadRow(c)
  <2>1. CASE Moved(c)
    <3>1. Retry(c) /\ UNCHANGED <<row, occupied, outbox, reader, nextCursor>>
      BY <1>4, <2>1 DEF ReadRow, database
    <3>. QED  BY <3>1, Restarted
  <2>2. CASE ~Moved(c)
    <3>1. /\ tx[c].step = "begun" /\ ~tx[c].fresh
          /\ lock = NoClient /\ lock' = c
      BY <1>0, <1>4, <2>2 DEF ReadRow, Isolation, At, DraftInv, Ran
    <3>2. /\ tx'[c].step = "read" /\ tx'[c].draft = row /\ tx'[c].version = row.version
          /\ tx'[c].fresh = tx[c].fresh
          /\ \A d \in Client \ {c} : tx'[d] = tx[d]
      BY <1>0, <1>4, <2>2 DEF ReadRow, Tx
    <3>3. row' = row  BY <1>4 DEF ReadRow, database
    <3>4. CallInv(c)'  BY <3>1, <3>2, <3>3 DEF CallInv, DraftInv, PendingInv, Held, Ran
    <3>. QED  BY <1>0, <1>4, <3>1, <3>2, <3>4, Uncommitted DEF ReadRow, database
  <2>. QED  BY <2>1, <2>2
<1>5. CASE RunHandler(c)
  <2>0. /\ tx[c].step = "read" /\ lock = c /\ ~tx[c].fresh /\ tx[c].draft = row
        /\ tx[c].version = row.version
        /\ UNCHANGED <<row, occupied, outbox, reader, nextCursor>>
    BY <1>0, <1>5 DEF RunHandler, At, DraftInv, Held, Ran, database
  <2>1. CASE Replays(row, tx[c].request)
    <3>1. tx' = [tx EXCEPT ![c].step = "ran"] /\ lock' = lock
      BY <1>5, <2>0, <2>1 DEF RunHandler, Accepts, Refuses
    <3>2. /\ tx'[c].step = "ran" /\ tx'[c].fresh = tx[c].fresh /\ tx'[c].draft = tx[c].draft
          /\ tx'[c].version = tx[c].version /\ tx'[c].request = tx[c].request
          /\ \A d \in Client \ {c} : tx'[d] = tx[d]
      BY <1>0, <3>1 DEF Tx
    <3>3. CallInv(c)'
      BY <2>0, <2>1, <3>1, <3>2 DEF CallInv, DraftInv, PendingInv, Held, Ran, Replays
    <3>. QED  BY <2>0, <3>1, <3>2, <3>3, Uncommitted
  <2>2. CASE Accepts(row, tx[c].request)
    <3>. DEFINE e == After(row, tx[c].request)
    <3>1. tx' = [tx EXCEPT ![c].step = "ran", ![c].draft = e, ![c].fresh = TRUE]
          /\ lock' = lock
      BY <1>5, <2>0, <2>2 DEF RunHandler, Accepts, Refuses
    <3>. HIDE DEF e
    <3>2. /\ tx'[c].step = "ran" /\ tx'[c].fresh /\ tx'[c].draft = e
          /\ tx'[c].version = tx[c].version /\ tx'[c].request = tx[c].request
          /\ \A d \in Client \ {c} : tx'[d] = tx[d]
      BY <1>0, <3>1 DEF Tx
    <3>3. Accepts(row, tx[c].request)' /\ After(row, tx[c].request)' = e
      BY <2>0, <2>2, <3>2 DEF e
    <3>4. CallInv(c)'
      BY <2>0, <3>1, <3>2, <3>3 DEF CallInv, DraftInv, PendingInv, Held, Ran
    <3>. QED  BY <2>0, <3>1, <3>2, <3>4, Uncommitted
  <2>3. CASE Refuses(row, tx[c].request)
    <3>1. Unlock(c) /\ Tell(c, "refused")
      BY <1>5, <2>0, <2>3 DEF RunHandler, Accepts, Refuses
    <3>. QED  BY <2>0, <3>1, Ended DEF Answer
  <2>. QED  BY <2>1, <2>2, <2>3 DEF Accepts, Refuses
<1>6. CASE UpdateRow(c)
  <2>0. /\ tx[c].step = "ran" /\ lock = c /\ tx[c].version = row.version
        /\ UNCHANGED <<row, occupied, outbox, reader, nextCursor>>
    BY <1>0, <1>6 DEF UpdateRow, At, DraftInv, Held, database
  <2>1. CASE Moved(c)
    <3>1. Retry(c)  BY <1>6, <2>1 DEF UpdateRow
    <3>. QED  BY <2>0, <3>1, Restarted
  <2>2. CASE ~Moved(c)
    <3>1. tx' = [tx EXCEPT ![c].step = "updated"] /\ lock' = c
      BY <1>6, <2>0, <2>2 DEF UpdateRow
    <3>2. /\ tx'[c].step = "updated" /\ tx'[c].fresh = tx[c].fresh
          /\ tx'[c].draft = tx[c].draft /\ tx'[c].request = tx[c].request
          /\ \A d \in Client \ {c} : tx'[d] = tx[d]
      BY <1>0, <3>1 DEF Tx
    <3>3. CallInv(c)'
      BY <1>0, <2>0, <3>1, <3>2 DEF CallInv, DraftInv, PendingInv, Held, Ran
    <3>. QED  BY <2>0, <3>1, <3>2, <3>3, Uncommitted
  <2>. QED  BY <2>1, <2>2
<1>7. CASE RefreshOccupancy(c)
  <2>. DEFINE cells == OccupancyRows(tx[c].draft)
  <2>0. /\ tx[c].step = "updated" /\ lock = c
        /\ UNCHANGED <<row, occupied, outbox, reader, nextCursor>>
    BY <1>0, <1>7 DEF RefreshOccupancy, At, DraftInv, Held, database
  <2>1. CASE Unlock(c) /\ Tell(c, "unknown")  BY <2>0, <2>1, Ended DEF Answer
  <2>2. CASE /\ tx' = [tx EXCEPT ![c].step = "refreshed", ![c].cells = cells]
             /\ lock' = lock
    <3>. HIDE DEF cells
    <3>1. /\ tx'[c].step = "refreshed" /\ tx'[c].fresh = tx[c].fresh
          /\ tx'[c].draft = tx[c].draft /\ tx'[c].request = tx[c].request
          /\ tx'[c].cells = cells
          /\ \A d \in Client \ {c} : tx'[d] = tx[d]
      BY <1>0, <2>2 DEF Tx
    <3>2. OccupancyRows(tx[c].draft)' = cells  BY <3>1 DEF OccupancyRows, Occupying, cells
    <3>3. CallInv(c)'
      BY <1>0, <2>0, <2>2, <3>1, <3>2 DEF CallInv, DraftInv, PendingInv, Held, Ran
    <3>. QED  BY <2>0, <2>2, <3>1, <3>3, Uncommitted
  <2>. QED  BY <1>7, <2>1, <2>2 DEF RefreshOccupancy
<1>8. CASE EmitEvents(c)
  <2>. DEFINE event == [cursor |-> nextCursor, request |-> tx[c].request,
                        at |-> Len(tx[c].draft.receipts)]
              rows == IF tx[c].fresh THEN {event} ELSE {}
  <2>0. /\ tx[c].step = "refreshed" /\ lock = c
        /\ UNCHANGED <<row, occupied, outbox, reader, lock>>
    BY <1>0, <1>8 DEF EmitEvents, At, DraftInv, Held, database
  <2>1. /\ tx' = [tx EXCEPT ![c].step = "emitted", ![c].pending = rows]
        /\ nextCursor' = IF tx[c].fresh THEN nextCursor + 1 ELSE nextCursor
    BY <1>8 DEF EmitEvents
  <2>. HIDE DEF rows
  <2>2. /\ tx'[c].step = "emitted" /\ tx'[c].fresh = tx[c].fresh
        /\ tx'[c].draft = tx[c].draft /\ tx'[c].request = tx[c].request
        /\ tx'[c].cells = tx[c].cells /\ tx'[c].pending = rows
        /\ \A d \in Client \ {c} : tx'[d] = tx[d]
    BY <1>0, <2>1 DEF Tx
  <2>3. DraftInv(c)'
    BY <1>0, <2>0, <2>2 DEF DraftInv, Held, Ran
  <2>4. CASE tx[c].fresh
    <3>1. tx[c].draft = After(row, tx[c].request)  BY <1>0, <2>0, <2>4 DEF DraftInv, Ran
    <3>2. row \in Document /\ tx[c].request \in Request  BY <1>0 DEF TypeOK, Tx
    <3>3. Len(tx[c].draft.receipts) = Len(row.receipts) + 1  BY <3>1, <3>2, AfterType
    <3>4. rows = {[cursor |-> nextCursor, request |-> tx[c].request,
                   at |-> Len(row.receipts) + 1]}
      BY <2>4, <3>3 DEF rows
    <3>5. reader.after \in Nat /\ reader.after < nextCursor  BY DEF TypeOK, StoreInv, ReaderInv
    <3>6. nextCursor \in reader'.after + 1 .. nextCursor' - 1
      BY <1>0, <2>0, <2>1, <2>4, <3>5
    <3>7. \A e \in outbox' : e.cursor < nextCursor  BY <2>0 DEF StoreInv, OutboxInv
    <3>8. PendingInv(c)'  BY <2>0, <2>2, <2>4, <3>4, <3>6, <3>7 DEF PendingInv
    <3>. QED  BY <2>0, <2>1, <2>2, <2>3, <2>4, <3>8, Uncommitted DEF CallInv
  <2>5. CASE ~tx[c].fresh
    <3>1. rows = {}  BY <2>5 DEF rows
    <3>2. PendingInv(c)'  BY <2>2, <2>5, <3>1 DEF PendingInv
    <3>. QED  BY <2>0, <2>1, <2>2, <2>3, <2>5, <3>2, Uncommitted DEF CallInv
  <2>. QED  BY <2>4, <2>5
<1>9. CASE ConnectTimesOut(c)
  <2>1. /\ tx[c].step = "connect" /\ Tell(c, "unknown")
        /\ UNCHANGED <<row, occupied, outbox, reader, nextCursor, lock>>
    BY <1>9 DEF ConnectTimesOut, At, database
  <2>2. CallInv(c)'  BY <2>1, SlotEmptied, Cleared DEF Answer
  <2>3. \A d \in Client \ {c} : tx'[d] = tx[d]  BY <2>1, SlotEmptied DEF Answer
  <2>. QED  BY <2>1, <2>2, <2>3, Uncommitted
<1>10. CASE Conflict(c)
  <2>1. Retry(c) /\ UNCHANGED <<row, occupied, outbox, reader, nextCursor>>
    BY <1>10 DEF Conflict, database
  <2>. QED  BY <2>1, Restarted
<1>11. CASE Lost(c)
  <2>1. /\ Unlock(c) /\ Tell(c, "unknown")
        /\ UNCHANGED <<row, occupied, outbox, reader, nextCursor>>
    BY <1>11 DEF Lost, database
  <2>. QED  BY <2>1, Ended DEF Answer
<1>. QED  BY <1>2, <1>3, <1>4, <1>5, <1>6, <1>7, <1>8, <1>9, <1>10, <1>11

\* A commit puts the draft, its nights and its event in place at once; no other call can
\* have read the row that it replaces.
LEMMA InstallKeepsInv ==
  ASSUME TypeOK, TypeOK', StoreInv, NEW c \in Client, NEW a \in Answer, Install(c), Tell(c, a)
  PROVE  StoreInv'
<1>. DEFINE t == tx[c]
            n == Len(row.receipts)
<1>0. /\ t \in Tx /\ row \in Document /\ outbox \subseteq Event /\ nextCursor \in Nat
      /\ reader \in [after: Nat, got: Seq(Request)] /\ row.receipts \in Seq(Request)
  BY DEF TypeOK, Document
<1>1. t.step = "emitted" /\ lock = c /\ t.cells = OccupancyRows(t.draft)
  BY DEF Install, At, StoreInv, CallInv, DraftInv, Held
<1>2. /\ row' = t.draft /\ occupied' = t.cells /\ outbox' = outbox \cup t.pending
      /\ nextCursor' = nextCursor /\ reader' = reader
  BY DEF Install
<1>3. OccupancyMatches'  BY <1>1, <1>2 DEF OccupancyMatches
<1>4. ASSUME NEW d \in Client PROVE CallInv(d)'
  <2>1. CASE d = c  BY <2>1, SlotEmptied, Cleared
  <2>2. CASE d # c
    <3>1. CallInv(d) /\ tx[d].step \notin Held
      BY <1>1, <2>2 DEF StoreInv, CallInv, DraftInv
    <3>2. tx'[d] = tx[d]  BY <2>2, SlotEmptied
    <3>. QED  BY <1>2, <3>1, <3>2, Undisturbed
  <2>. QED  BY <2>1, <2>2
<1>5. CASE ~t.fresh
  <2>1. t.pending = {} /\ t.draft = row
    BY <1>1, <1>5 DEF StoreInv, CallInv, DraftInv, PendingInv, Ran
  <2>2. outbox' = outbox /\ row' = row  BY <1>2, <2>1
  <2>3. OutboxInv' /\ ReaderInv'  BY <1>2, <2>2 DEF StoreInv, OutboxInv, ReaderInv
  <2>. QED  BY <1>3, <1>4, <2>3 DEF StoreInv
<1>6. CASE t.fresh
  <2>1. t.draft = After(row, t.request) /\ t.request \in Request
    BY <1>0, <1>1, <1>6 DEF StoreInv, CallInv, DraftInv, Ran, Tx
  <2>2. /\ Len(row'.receipts) = n + 1
        /\ row'.receipts[n + 1] = t.request
        /\ \A i \in 1..n : row'.receipts[i] = row.receipts[i]
    BY <1>0, <1>2, <2>1, AfterType
  <2>3. row'.receipts \in Seq(Request)  BY DEF TypeOK, Document
  <2>4. DOMAIN row.receipts = 1..n /\ DOMAIN row'.receipts = 1..(n + 1) /\ n \in Nat
    BY <1>0, <2>2, <2>3
  <2>5. PICK k \in reader.after + 1 .. nextCursor - 1 :
          /\ t.pending = {[cursor |-> k, request |-> t.request, at |-> n + 1]}
          /\ \A e \in outbox : e.cursor < k
    BY <1>1, <1>6 DEF StoreInv, CallInv, PendingInv
  <2>. DEFINE new == [cursor |-> k, request |-> t.request, at |-> n + 1]
  <2>6. /\ new.cursor = k /\ new.at = n + 1 /\ new.request = t.request
        /\ outbox' = outbox \cup {new}
        /\ k \in Nat /\ reader.after < k /\ k < nextCursor
    BY <1>0, <1>2, <2>5
  <2>. HIDE DEF new
  <2>7. \A e \in outbox : /\ e.cursor \in Nat /\ e.cursor < k /\ e.cursor < nextCursor
                          /\ e.at \in 1..n /\ e.request = row.receipts[e.at]
    BY <1>0, <2>4, <2>5 DEF StoreInv, OutboxInv, Event
  <2>8. OutboxInv'
    <3>1. \A e \in outbox' : e.cursor < nextCursor' /\ e.at \in DOMAIN row'.receipts
                             /\ e.request = row'.receipts[e.at]
      <4>1. \A e \in outbox : e.at \in 1..(n + 1) /\ e.request = row'.receipts[e.at]
        BY <2>2, <2>4, <2>7
      <4>2. new.at \in 1..(n + 1) /\ new.request = row'.receipts[new.at]
        BY <2>2, <2>4, <2>6
      <4>3. new.cursor < nextCursor' /\ \A e \in outbox : e.cursor < nextCursor'
        BY <1>2, <2>6, <2>7
      <4>. QED  BY <2>4, <2>6, <4>1, <4>2, <4>3
    <3>2. \A i \in DOMAIN row'.receipts : \E e \in outbox' : e.at = i
      BY <2>4, <2>6 DEF StoreInv, OutboxInv
    <3>3. \A e, f \in outbox' : e.cursor < f.cursor <=> e.at < f.at
      <4>1. \A e, f \in outbox : e.cursor < f.cursor <=> e.at < f.at
        BY DEF StoreInv, OutboxInv
      <4>2. \A e \in outbox : (e.cursor < new.cursor <=> e.at < new.at)
                              /\ (new.cursor < e.cursor <=> new.at < e.at)
        BY <2>4, <2>6, <2>7
      <4>3. new.cursor < new.cursor <=> new.at < new.at  BY <2>4, <2>6
      <4>. QED  BY <2>6, <4>1, <4>2, <4>3
    <3>. QED  BY <3>1, <3>2, <3>3 DEF OutboxInv
  <2>9. ReaderInv'
    <3>1. reader.after < nextCursor /\ Len(reader.got) <= n /\ Len(reader.got) \in Nat
          /\ \A e \in outbox : e.cursor <= reader.after <=> e.at <= Len(reader.got)
      BY <1>0 DEF StoreInv, ReaderInv
    <3>2. new.cursor <= reader.after <=> new.at <= Len(reader.got)
      BY <1>0, <2>4, <2>6, <3>1
    <3>3. \A e \in outbox' : e.cursor <= reader.after <=> e.at <= Len(reader.got)
      BY <2>6, <3>1, <3>2
    <3>4. Len(reader.got) <= n + 1  BY <2>4, <3>1
    <3>. QED  BY <1>2, <2>2, <3>1, <3>3, <3>4 DEF ReaderInv
  <2>. QED  BY <1>3, <1>4, <2>8, <2>9 DEF StoreInv
<1>. QED  BY <1>5, <1>6

\* The event a poll delivers is the one after those the reader has had.
LEMMA PollDelivers ==
  ASSUME TypeOK, StoreInv, NEW e \in outbox, e.cursor > reader.after,
         \A f \in outbox : f.cursor > reader.after => e.cursor <= f.cursor
  PROVE  /\ e.at = Len(reader.got) + 1
         /\ Len(reader.got) < Len(row.receipts)
         /\ e.request = row.receipts[Len(reader.got) + 1]
<1>. DEFINE m == Len(reader.got)
<1>0. reader.after \in Nat /\ m \in Nat /\ row.receipts \in Seq(Request)
      /\ \A f \in outbox : f.cursor \in Nat /\ f.at \in Nat
  BY DEF TypeOK, Event, Document
<1>1. e.at \in 1..Len(row.receipts) /\ e.request = row.receipts[e.at]
  BY <1>0 DEF StoreInv, OutboxInv
<1>2. e.at > m  BY <1>0 DEF StoreInv, ReaderInv
<1>3. m + 1 \in DOMAIN row.receipts  BY <1>0, <1>1, <1>2
<1>4. PICK f \in outbox : f.at = m + 1  BY <1>3 DEF StoreInv, OutboxInv
<1>5. f.cursor > reader.after  BY <1>0, <1>4 DEF StoreInv, ReaderInv
<1>6. e.cursor <= f.cursor  BY <1>5
<1>7. ~(f.at < e.at)  BY <1>0, <1>6 DEF StoreInv, OutboxInv
<1>. QED  BY <1>0, <1>1, <1>2, <1>4, <1>7

\* A poll keeps the invariant: no event still to come has a cursor the reader has passed.
LEMMA PollKeepsInv == ASSUME TypeOK, TypeOK', StoreInv, Poll PROVE StoreInv'
<1>1. PICK e \in outbox :
        /\ e.cursor > reader.after
        /\ \A f \in outbox : f.cursor > reader.after => e.cursor <= f.cursor
        /\ reader' = [after |-> e.cursor, got |-> Append(reader.got, e.request)]
  BY DEF Poll
<1>2. UNCHANGED <<row, occupied, outbox, lock, nextCursor, tx>>  BY DEF Poll, database
<1>3. e.at = Len(reader.got) + 1 /\ Len(reader.got) < Len(row.receipts)
  BY <1>1, PollDelivers
<1>4. OccupancyMatches' /\ OutboxInv'
  BY <1>2 DEF StoreInv, OccupancyMatches, OutboxInv, OccupancyRows, Occupying
<1>5. ReaderInv'
  <2>1. reader.got \in Seq(Request) /\ Len(reader.got) \in Nat /\ Len(row.receipts) \in Nat
    BY DEF TypeOK, Document
  <2>2. Len(reader'.got) = Len(reader.got) + 1 /\ reader'.after = e.cursor  BY <1>1, <2>1
  <2>3. e.cursor < nextCursor  BY DEF StoreInv, OutboxInv
  <2>4. \A f \in outbox : f.cursor \in Nat /\ f.at \in Nat  BY DEF TypeOK, Event
  <2>5. \A f \in outbox : e.cursor < f.cursor <=> e.at < f.at  BY DEF StoreInv, OutboxInv
  <2>6. \A f \in outbox : f.cursor <= e.cursor <=> f.at <= e.at  BY <2>4, <2>5
  <2>. QED  BY <1>2, <1>3, <2>1, <2>2, <2>3, <2>6 DEF ReaderInv
<1>6. ASSUME NEW d \in Client PROVE CallInv(d)'
  <2>1. DraftInv(d)'
    BY <1>2 DEF StoreInv, CallInv, DraftInv
  <2>2. ASSUME NEW k \in reader.after + 1 .. nextCursor - 1, \A f \in outbox : f.cursor < k
        PROVE  k \in reader'.after + 1 .. nextCursor' - 1
    BY <1>1, <1>2, <2>2 DEF TypeOK, Event
  <2>3. PendingInv(d)'  BY <1>2, <2>2 DEF StoreInv, CallInv, PendingInv
  <2>. QED  BY <2>1, <2>3 DEF CallInv
<1>. QED  BY <1>4, <1>5, <1>6 DEF StoreInv

\* The invariant holds from the start and through every step.
THEOREM StoreInvAlways == Spec => []StoreInv
<1>1. Init => StoreInv
  <2>. SUFFICES ASSUME Init PROVE StoreInv  OBVIOUS
  <2>1. Occupying(row) = {}  BY DEF Init, NewDocument, Occupying
  <2>2. OccupancyMatches  BY <2>1 DEF Init, OccupancyMatches, OccupancyRows
  <2>3. OutboxInv /\ ReaderInv  BY DEF Init, NewDocument, OutboxInv, ReaderInv
  <2>4. ASSUME NEW c \in Client PROVE CallInv(c)
    <3>1. tx[c] = Unstarted  BY DEF Init
    <3>. QED  BY <3>1, UnstartedType DEF CallInv, DraftInv, PendingInv, Held, Ran
  <2>. QED  BY <2>2, <2>3, <2>4 DEF StoreInv
<1>2. TypeOK /\ TypeOK' /\ StoreInv /\ [Next]_vars => StoreInv'
  <2>. SUFFICES ASSUME TypeOK, TypeOK', StoreInv, [Next]_vars PROVE StoreInv'  OBVIOUS
  <2>1. CASE Poll  BY <2>1, PollKeepsInv
  <2>2. ASSUME NEW c \in Client, Advance(c) \/ Trouble(c) \/ \E r \in Request : Call(c, r)
        PROVE  StoreInv'
    <3>1. CASE Commit(c)
      <4>1. Install(c) /\ Tell(c, "done") /\ "done" \in Answer  BY <3>1 DEF Commit, Answer
      <4>. QED  BY <4>1, InstallKeepsInv
    <3>2. CASE CommitUnknown(c)
      <4>1. Install(c) /\ Tell(c, "unknown") /\ "unknown" \in Answer
        BY <3>2 DEF CommitUnknown, Answer
      <4>. QED  BY <4>1, InstallKeepsInv
    <3>. QED  BY <2>2, <3>1, <3>2, WorkKeepsInv DEF Advance, Trouble
  <2>3. CASE UNCHANGED vars
    <3>1. ASSUME NEW c \in Client PROVE CallInv(c)'
      <4>1. CallInv(c)  BY DEF StoreInv
      <4>2. tx[c].step \in Held => lock = c  BY <4>1 DEF CallInv, DraftInv
      <4>. QED  BY <2>3, <4>1, <4>2, Undisturbed DEF vars
    <3>2. OccupancyMatches' /\ OutboxInv' /\ ReaderInv'
      BY <2>3 DEF vars, StoreInv, OccupancyMatches, OccupancyRows, Occupying, OutboxInv, ReaderInv
    <3>. QED  BY <3>1, <3>2 DEF StoreInv
  <2>. QED  BY <2>1, <2>2, <2>3 DEF Next
<1>. QED  BY <1>1, <1>2, TypeCorrect, PTL DEF Spec

\* The committed table of occupied nights always agrees with the committed document.
THEOREM OccupancyMatchesAlways == Spec => []OccupancyMatches
<1>1. StoreInv => OccupancyMatches  BY DEF StoreInv
<1>. QED  BY <1>1, StoreInvAlways, PTL
-----------------------------------------------------------------------------
(* The refinement: a commit of a fresh draft is the ledger's Apply, of a replay *)
(* its Replay; the errors are Refuse and Fail; a poll is Deliver.               *)

\* The ledger's operators, taken through the instance, are the store's.
LEMMA SameRequests ==
  ASSUME NEW d, NEW r
  PROVE  /\ L!Accepts(d, r) <=> Accepts(d, r)
         /\ L!Replays(d, r) <=> Replays(d, r)
         /\ L!Refuses(d, r) <=> Refuses(d, r)
         /\ L!After(d, r) = After(d, r)
<1>1. L!Receipted(d) = Receipted(d) /\ L!Taken(d) = Taken(d)
  BY DEF L!Receipted, Receipted, L!Taken, Taken, L!Occupying, Occupying
<1>2. L!Replays(d, r) <=> Replays(d, r)  BY <1>1 DEF L!Replays, Replays
<1>3. /\ L!CreateFits(d, Input[r]) <=> CreateFits(d, Input[r])
      /\ L!CancelFits(d, Input[r]) <=> CancelFits(d, Input[r])
      /\ L!PayFits(d, Input[r]) <=> PayFits(d, Input[r])
  BY <1>1 DEF L!CreateFits, CreateFits, L!CancelFits, CancelFits, L!PayFits, PayFits
<1>4. L!Accepts(d, r) <=> Accepts(d, r)  BY <1>2, <1>3 DEF L!Accepts, Accepts
<1>5. L!Refuses(d, r) <=> Refuses(d, r)  BY <1>2, <1>4 DEF L!Refuses, Refuses
<1>6. L!After(d, r) = After(d, r)
  BY DEF L!After, After, L!Created, Created, L!Cancelled, Cancelled, L!Paid, Paid,
         L!Revised, Revised
<1>. QED  BY <1>2, <1>4, <1>5, <1>6

\* A step that leaves the committed row and the feed alone says one thing or nothing.
LEMMA AnswerOnly ==
  ASSUME NEW r \in Request, row' = row, reader' = reader,
         said' = said \/ said' = [said EXCEPT ![r] = "unknown"]
  PROVE  [L!LedgerNext]_L!ledgerVars
<1>1. CASE said' = said  BY <1>1 DEF L!ledgerVars
<1>2. CASE said' = [said EXCEPT ![r] = "unknown"]
  <2>1. L!Fail(r)  BY <1>2 DEF L!Fail, L!Say
  <2>. QED  BY <2>1 DEF L!LedgerNext
<1>. QED  BY <1>1, <1>2

\* A retry says nothing, or that the outcome is unknown.
LEMMA RetrySays ==
  ASSUME NEW c \in Client, Retry(c)
  PROVE  said' = said \/ said' = [said EXCEPT ![tx[c].request] = "unknown"]
BY DEF Retry, Tell

\* Before its commit a call refuses what the row refuses, or says nothing it knows.
LEMMA WorkImplements ==
  ASSUME TypeOK, StoreInv, NEW c \in Client,
         \/ Begin(c) \/ ReadRow(c) \/ RunHandler(c) \/ UpdateRow(c)
         \/ RefreshOccupancy(c) \/ EmitEvents(c)
         \/ ConnectTimesOut(c) \/ Conflict(c) \/ Lost(c)
         \/ \E r \in Request : Call(c, r)
  PROVE  [L!LedgerNext]_L!ledgerVars
<1>. DEFINE r == tx[c].request
<1>1. r \in Request /\ DraftInv(c)  BY DEF TypeOK, Tx, StoreInv, CallInv
<1>2. row' = row /\ reader' = reader
  BY DEF Begin, ReadRow, RunHandler, UpdateRow, RefreshOccupancy, EmitEvents,
     ConnectTimesOut, Conflict, Lost, Call, database
<1>3. CASE Retry(c)  BY <1>1, <1>2, <1>3, RetrySays, AnswerOnly
<1>4. CASE Tell(c, "unknown")
  <2>1. said' = [said EXCEPT ![r] = "unknown"]  BY <1>4 DEF Tell
  <2>. QED  BY <1>1, <1>2, <2>1, AnswerOnly
<1>5. CASE said' = said  BY <1>2, <1>5 DEF L!ledgerVars
<1>6. CASE RunHandler(c)
  <2>1. tx[c].draft = row  BY <1>1, <1>6 DEF RunHandler, At, DraftInv
  <2>2. CASE Refuses(row, r)
    <3>1. said' = [said EXCEPT ![r] = "refused"]
      BY <1>6, <2>1, <2>2 DEF RunHandler, Refuses, Accepts, Tell
    <3>2. L!Refuse(r)  BY <1>2, <2>2, <3>1, SameRequests DEF L!Refuse, L!Say
    <3>. QED  BY <1>1, <3>2 DEF L!LedgerNext
  <2>3. CASE ~Refuses(row, r)
    <3>1. said' = said  BY <1>6, <2>1, <2>3 DEF RunHandler
    <3>. QED  BY <1>5, <3>1
  <2>. QED  BY <2>2, <2>3
<1>7. CASE UpdateRow(c)
  <2>1. row.version = tx[c].version  BY <1>1, <1>7 DEF UpdateRow, At, DraftInv
  <2>2. Retry(c) \/ said' = said  BY <1>7, <2>1 DEF UpdateRow
  <2>. QED  BY <1>3, <1>5, <2>2
<1>8. CASE ReadRow(c)
  <2>1. Retry(c) \/ said' = said  BY <1>8 DEF ReadRow
  <2>. QED  BY <1>3, <1>5, <2>1
<1>9. CASE RefreshOccupancy(c)
  <2>1. Tell(c, "unknown") \/ said' = said  BY <1>9 DEF RefreshOccupancy
  <2>. QED  BY <1>4, <1>5, <2>1
<1>10. CASE Begin(c) \/ EmitEvents(c) \/ \E q \in Request : Call(c, q)
  <2>1. said' = said  BY <1>10 DEF Begin, EmitEvents, Call
  <2>. QED  BY <1>5, <2>1
<1>11. CASE ConnectTimesOut(c) \/ Conflict(c) \/ Lost(c)
  <2>1. Tell(c, "unknown") \/ Retry(c)  BY <1>11 DEF ConnectTimesOut, Conflict, Lost
  <2>. QED  BY <1>3, <1>4, <2>1
<1>. QED  BY <1>6, <1>7, <1>8, <1>9, <1>10, <1>11

\* A commit applies its request to the row as it is, or repeats a receipt that is there.
LEMMA CommitImplements ==
  ASSUME TypeOK, StoreInv, NEW c \in Client, Install(c),
         NEW a \in {"done", "unknown"}, Tell(c, a)
  PROVE  [L!LedgerNext]_L!ledgerVars
<1>. DEFINE r == tx[c].request
<1>1. r \in Request /\ DraftInv(c)  BY DEF TypeOK, Tx, StoreInv, CallInv
<1>2. tx[c].step = "emitted"  BY DEF Install, At
<1>3. row' = tx[c].draft /\ reader' = reader /\ said' = [said EXCEPT ![r] = a]
  BY DEF Install, Tell
<1>4. CASE tx[c].fresh
  <2>1. Accepts(row, r) /\ row' = After(row, r)  BY <1>1, <1>2, <1>3, <1>4 DEF DraftInv, Ran
  <2>2. L!Accepts(row, r) /\ row' = L!After(row, r)  BY <2>1, SameRequests
  <2>3. L!Apply(r)  BY <1>3, <2>2 DEF L!Apply, L!Say
  <2>. QED  BY <1>1, <2>3 DEF L!LedgerNext
<1>5. CASE ~tx[c].fresh
  <2>1. Replays(row, r) /\ row' = row  BY <1>1, <1>2, <1>3, <1>5 DEF DraftInv, Ran
  <2>2. CASE a = "done"
    <3>1. L!Replay(r)  BY <1>3, <2>1, <2>2, SameRequests DEF L!Replay, L!Say
    <3>. QED  BY <1>1, <3>1 DEF L!LedgerNext
  <2>3. CASE a = "unknown"
    <3>1. L!Fail(r)  BY <1>3, <2>1, <2>3 DEF L!Fail, L!Say
    <3>. QED  BY <1>1, <3>1 DEF L!LedgerNext
  <2>. QED  BY <2>2, <2>3
<1>. QED  BY <1>4, <1>5

\* A poll delivers the next accepted request.
LEMMA PollImplements ==
  ASSUME TypeOK, StoreInv, Poll
  PROVE  [L!LedgerNext]_L!ledgerVars
<1>1. PICK e \in outbox :
        /\ e.cursor > reader.after
        /\ \A f \in outbox : f.cursor > reader.after => e.cursor <= f.cursor
        /\ reader' = [after |-> e.cursor, got |-> Append(reader.got, e.request)]
  BY DEF Poll
<1>2. /\ Len(reader.got) < Len(row.receipts)
      /\ e.request = row.receipts[Len(reader.got) + 1]
  BY <1>1, PollDelivers
<1>3. row' = row /\ said' = said  BY DEF Poll, database
<1>4. reader'.got = Append(reader.got, row.receipts[Len(reader.got) + 1])  BY <1>1, <1>2
<1>5. L!Deliver  BY <1>2, <1>3, <1>4 DEF L!Deliver
<1>. QED  BY <1>5 DEF L!LedgerNext

\* transact() and events() keep the ledger's promise: every request takes effect at once
\* and at most once, whatever aborts, retries and lost answers lie on its way, and the
\* feed shows the accepted requests in the order of their commits.
THEOREM Refinement == Spec => ImplementsLedger
<1>1. Init => L!LedgerInit
  BY DEF Init, L!LedgerInit, NewDocument, L!NewDocument
<1>2. TypeOK /\ StoreInv /\ [Next]_vars => [L!LedgerNext]_L!ledgerVars
  <2>. SUFFICES ASSUME TypeOK, StoreInv, [Next]_vars PROVE [L!LedgerNext]_L!ledgerVars
    OBVIOUS
  <2>1. CASE Poll  BY <2>1, PollImplements
  <2>2. ASSUME NEW c \in Client, Advance(c) \/ Trouble(c) \/ \E r \in Request : Call(c, r)
        PROVE  [L!LedgerNext]_L!ledgerVars
    <3>1. CASE Commit(c)  BY <3>1, CommitImplements DEF Commit
    <3>2. CASE CommitUnknown(c)  BY <3>2, CommitImplements DEF CommitUnknown
    <3>. QED  BY <2>2, <3>1, <3>2, WorkImplements DEF Advance, Trouble
  <2>3. CASE UNCHANGED vars  BY <2>3 DEF vars, L!ledgerVars
  <2>. QED  BY <2>1, <2>2, <2>3 DEF Next
<1>. QED  BY <1>1, <1>2, TypeCorrect, StoreInvAlways, PTL DEF Spec, ImplementsLedger, L!LedgerSpec
-----------------------------------------------------------------------------
(* What the ledger promises, the store therefore keeps. *)

LP == INSTANCE PropertyLedgerProofs WITH doc <- row, said <- said, got <- reader.got

\* The ledger the store implements is the ledger the theorems are about.
LEMMA SameLedger == L!LedgerSpec <=> LP!LedgerSpec
<1>. USE DEF L!Receipted, L!Occupying, L!Taken, L!Replays, L!Accepts, L!After
<1>. USE DEF L!CreateFits, L!CancelFits, L!PayFits, L!Created, L!Cancelled, L!Paid, L!Revised
<1>. USE DEF LP!Receipted, LP!Occupying, LP!Taken, LP!Replays, LP!Accepts, LP!After
<1>. USE DEF LP!CreateFits, LP!CancelFits, LP!PayFits, LP!Created, LP!Cancelled, LP!Paid,
             LP!Revised
<1>1. L!LedgerInit <=> LP!LedgerInit
  BY DEF L!LedgerInit, LP!LedgerInit, L!NewDocument, LP!NewDocument
<1>2. ASSUME NEW r \in Request PROVE L!Apply(r) <=> LP!Apply(r)
  BY DEF L!Apply, LP!Apply, L!Say, LP!Say
<1>3. ASSUME NEW r \in Request
      PROVE  (L!Replay(r) <=> LP!Replay(r)) /\ (L!Refuse(r) <=> LP!Refuse(r))
             /\ (L!Fail(r) <=> LP!Fail(r))
  BY DEF L!Replay, LP!Replay, L!Refuse, LP!Refuse, L!Refuses, LP!Refuses,
         L!Fail, LP!Fail, L!Say, LP!Say
<1>4. L!Deliver <=> LP!Deliver  BY DEF L!Deliver, LP!Deliver
<1>5. L!LedgerNext <=> LP!LedgerNext  BY <1>2, <1>3, <1>4 DEF L!LedgerNext, LP!LedgerNext
<1>6. [L!LedgerNext]_L!ledgerVars <=> [LP!LedgerNext]_LP!ledgerVars
  BY <1>5 DEF L!ledgerVars, LP!ledgerVars
<1>. QED  BY <1>1, <1>6, PTL DEF L!LedgerSpec, LP!LedgerSpec

\* What a caller was told is done stays in the committed row.
THEOREM StoreAnswersAreDurable == Spec => []AnsweredIsDurable
<1>1. LP!LedgerSpec => []LP!AnsweredIsDurable
  BY InputAssumption, LP!AnsweredIsDurableAlways DEF RequestInput, LP!RequestInput
<1>2. LP!AnsweredIsDurable => L!AnsweredIsDurable
  BY DEF LP!AnsweredIsDurable, L!AnsweredIsDurable, L!Receipted, LP!Receipted
<1>. QED  BY <1>1, <1>2, SameLedger, Refinement, PTL DEF ImplementsLedger, AnsweredIsDurable

\* A reader of the outbox misses nothing and gets nothing twice or out of order.
THEOREM StoreFeedIsPrefix == Spec => []FeedIsPrefix
<1>1. LP!LedgerSpec => []LP!FeedIsPrefix
  BY InputAssumption, LP!FeedIsPrefixAlways DEF RequestInput, LP!RequestInput
<1>2. LP!FeedIsPrefix => L!FeedIsPrefix  BY DEF LP!FeedIsPrefix, L!FeedIsPrefix
<1>. QED  BY <1>1, <1>2, SameLedger, Refinement, PTL DEF ImplementsLedger, FeedIsPrefix

\* No two bookings in force share a night of the committed row ("commits one last-room
\* winner" of tests/postgres-repository.test.mjs), however many processes compete for it.
THEOREM StoreSellsNoNightTwice == Spec => []NoNightSoldTwice
<1>1. LP!LedgerSpec => []LP!NoNightSoldTwice
  BY InputAssumption, LP!NoNightSoldTwiceAlways DEF RequestInput, LP!RequestInput
<1>2. LP!NoNightSoldTwice => L!NoNightSoldTwice
  BY DEF LP!NoNightSoldTwice, L!NoNightSoldTwice, LP!Occupying, L!Occupying
<1>. QED  BY <1>1, <1>2, SameLedger, Refinement, PTL DEF ImplementsLedger, NoNightSoldTwice

\* What is committed stands: sold once, as callers were told, and shown to readers in order.
THEOREM LedgerStandsAlways == Spec => []LedgerStands
<1>. QED  BY StoreSellsNoNightTwice, StoreAnswersAreDurable, StoreFeedIsPrefix, PTL
          DEF LedgerStands

\* A payment submitted again under another key, after an answer was lost, is not recorded
\* a second time.
THEOREM StoreTakesOnePayment == Spec => []OnePaymentPerRevision
<1>1. LP!LedgerSpec => []LP!OnePaymentPerRevision
  BY InputAssumption, LP!OnePaymentAlways DEF RequestInput, LP!RequestInput
<1>2. LP!OnePaymentPerRevision => L!OnePaymentPerRevision
  BY DEF LP!OnePaymentPerRevision, L!OnePaymentPerRevision
<1>. QED  BY <1>1, <1>2, SameLedger, Refinement, PTL DEF ImplementsLedger, OnePaymentPerRevision

\* Nobody hears that a request was refused which is in the committed row.
THEOREM StoreRefusesTruly == Spec => RefusedWasNotApplied
<1>1. LP!LedgerSpec => LP!RefusedWasNotApplied
  BY InputAssumption, LP!RefusedWasNotAppliedAlways DEF RequestInput, LP!RequestInput
<1>2. LP!RefusedWasNotApplied => L!RefusedWasNotApplied
  BY DEF LP!RefusedWasNotApplied, L!RefusedWasNotApplied, LP!ledgerVars, L!ledgerVars,
         LP!Receipted, L!Receipted
<1>. QED  BY <1>1, <1>2, SameLedger, Refinement, PTL DEF ImplementsLedger, RefusedWasNotApplied
=============================================================================
