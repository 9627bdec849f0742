------------------------ MODULE ChannelDispatchProofs ------------------------
(***************************************************************************)
(* What ChannelDispatch guarantees for every set of nights, bookings,      *)
(* operations, workers and operators.                                      *)
(***************************************************************************)
EXTENDS ChannelDispatch, TLAPS

(***************************************************************************)
(* Types of the helpers.                                                   *)
(***************************************************************************)
LEMMA CellsAreNights ==
  ASSUME NEW o \in Op
  PROVE  /\ ClosedCells(o) \subseteq Night /\ OpenCells(o) \subseteq Night
         /\ Cells(o) = ClosedCells(o) \cup OpenCells(o)
         /\ Cells(o) # {}
         /\ Job[o].booking \in Booking \cup {NoBooking}
BY JobAssumption DEF ClosedCells, OpenCells, Cells

LEMMA SnapshotType ==
  ASSUME TypeOK, NEW o \in Op
  PROVE  Snapshot(o) \in [Night -> Stock \cup {"unseen"}]
BY DEF TypeOK, Snapshot

\* What the worker does next keeps its type, its operation and what it has applied.
LEMMA EnterOpenType ==
  ASSUME NEW l \in WorkerState, l.op \in Op
  PROVE  /\ EnterOpen(l) \in WorkerState
         /\ EnterOpen(l).op = l.op /\ EnterOpen(l).applied = l.applied
         /\ EnterOpen(l).pc \in {"write", "record"}
BY DEF EnterOpen, Unsatisfied, WorkerState, WorkerPc, Wish, Cells, ClosedCells, OpenCells

LEMMA EnterClosedType ==
  ASSUME NEW l \in WorkerState, l.op \in Op
  PROVE  /\ EnterClosed(l) \in WorkerState
         /\ EnterClosed(l).op = l.op /\ EnterClosed(l).applied = l.applied
         /\ EnterClosed(l).pc \in {"write", "record"}
BY EnterOpenType DEF EnterClosed, Unsatisfied, WorkerState, WorkerPc, Wish, Cells, ClosedCells, OpenCells

LEMMA FailedType ==
  ASSUME NEW l \in WorkerState
  PROVE  /\ Failed(l) \in WorkerState
         /\ Failed(l).op = l.op /\ Failed(l).applied = l.applied
         /\ Failed(l).pc = "finish"
BY DEF Failed, WorkerState, WorkerPc

LEMMA IdleWorkerType == IdleWorker \in WorkerState /\ IdleWorker.pc = "idle"
BY DEF IdleWorker, WorkerState, WorkerPc, Wish, Unseen

LEMMA IdleOperatorType == IdleOperator \in OperatorState /\ IdleOperator.pc = "idle"
BY DEF IdleOperator, OperatorState, OperatorPc, OpState, Unseen

LEMMA GoType ==
  ASSUME TypeOK, NEW w \in Worker, NEW l \in WorkerState,
         l.pc # "idle" => l.op \in Op, Go(w, l)
  PROVE  /\ wk' \in [Worker -> WorkerState]
         /\ \A u \in Worker : wk'[u].pc # "idle" => wk'[u].op \in Op
BY DEF TypeOK, Go

LEMMA AnswerType ==
  ASSUME TypeOK, NEW r \in Operator, NEW l \in OperatorState,
         l.pc # "idle" => l.op \in Op, Answer(r, l)
  PROVE  /\ rd' \in [Operator -> OperatorState]
         /\ \A u \in Operator : rd'[u].pc # "idle" => rd'[u].op \in Op
BY DEF TypeOK, Answer

LEMMA SettleType ==
  ASSUME TypeOK, NEW o \in Op, SettleAsReview(o)
  PROVE  /\ opState' \in [Op -> OpState] /\ sync' \in [Booking -> SyncState]
         /\ pinned' \subseteq Worker \cup Operator
BY JobAssumption DEF TypeOK, SettleAsReview, SetSync, BumpUnless, OpState, SyncState

LEMMA ReadbackType ==
  ASSUME TypeOK, NEW o \in Op, NEW seen, NEW applied, RecordReadback(o, seen, applied)
  PROVE  /\ opState' \in [Op -> OpState] /\ sync' \in [Booking -> SyncState]
         /\ pinned' \subseteq Worker \cup Operator
         /\ current' \in [Booking -> Op \cup {NoOp}]
BY JobAssumption DEF TypeOK, RecordReadback, SetSync, BumpUnless, OpState, SyncState

LEMMA SetSyncType ==
  ASSUME TypeOK, NEW b, NEW s \in SyncState, SetSync(b, s)
  PROVE  sync' \in [Booking -> SyncState]
BY DEF TypeOK, SetSync

\* What every handler that creates an operation leaves typed.
LEMMA EnqueueType ==
  ASSUME TypeOK, NEW o \in Op, Enqueue(o)
  PROVE  /\ opState' \in [Op -> OpState] /\ queue' \in Seq(Op)
         /\ UNCHANGED <<openProof, failures, claim, holds, stock, inflight, puts, wk, rd>>
<1>1. opState' \in [Op -> OpState]
  BY DEF TypeOK, Enqueue, OpState
<1>2. queue' \in Seq(Op)
  BY DEF TypeOK, Enqueue
<1>. QED
  BY <1>1, <1>2 DEF Enqueue, channelVars

(***************************************************************************)
(* Type correctness, one step per action.                                  *)
(***************************************************************************)
LEMMA ServiceType == ASSUME TypeOK, Service PROVE TypeOK'
<1>. USE DEF channelVars, Bump
<1>0. {"pending", "not_required", "awaiting_manual_sync", "action_required", "review_required"} \subseteq SyncState
  BY DEF SyncState
<1>1. ASSUME NEW o \in Op, CreateBooking(o) PROVE TypeOK'
  <2>1. Enqueue(o) /\ sync' \in [Booking -> SyncState]
    BY <1>1, <1>0, SetSyncType DEF CreateBooking
  <2>2. stays' \in [Booking -> SUBSET Night]
    BY <1>1, CellsAreNights DEF CreateBooking, TypeOK
  <2>3. current' \in [Booking -> Op \cup {NoOp}] /\ pinned' = {}
    BY <1>1 DEF CreateBooking, TypeOK
  <2>. QED
    BY <2>1, <2>2, <2>3, EnqueueType DEF TypeOK
<1>2. ASSUME NEW o \in Op, TakeNights(o) PROVE TypeOK'
  <2>1. sync' \in [Booking -> SyncState]
    BY <1>2, <1>0, SetSyncType DEF TakeNights
  <2>. QED
    BY <1>2, <2>1, CellsAreNights DEF TakeNights, TypeOK
<1>3. ASSUME NEW o \in Op, RequestClose(o) PROVE TypeOK'
  <2>1. Enqueue(o) /\ sync' \in [Booking -> SyncState]
    BY <1>3, <1>0, SetSyncType DEF RequestClose
  <2>2. stays' \in [Booking -> SUBSET Night]
    BY <1>3, CellsAreNights DEF RequestClose, TypeOK
  <2>3. current' \in [Booking -> Op \cup {NoOp}] /\ pinned' = {}
    BY <1>3 DEF RequestClose, TypeOK
  <2>. QED
    BY <2>1, <2>2, <2>3, EnqueueType DEF TypeOK
<1>4. ASSUME NEW o \in Op, MoveBooking(o) PROVE TypeOK'
  <2>1. Enqueue(o) /\ sync' \in [Booking -> SyncState]
    BY <1>4, <1>0, SetSyncType DEF MoveBooking
  <2>2. stays' \in [Booking -> SUBSET Night]
    BY <1>4, CellsAreNights DEF MoveBooking, TypeOK
  <2>3. current' \in [Booking -> Op \cup {NoOp}] /\ pinned' = {}
    BY <1>4 DEF MoveBooking, TypeOK
  <2>. QED
    BY <2>1, <2>2, <2>3, EnqueueType DEF TypeOK
<1>5. ASSUME NEW o \in Op, CancelBooking(o) PROVE TypeOK'
  <2>1. Enqueue(o) /\ sync' \in [Booking -> SyncState]
    BY <1>5, <1>0, SetSyncType DEF CancelBooking
  <2>2. stays' \in [Booking -> SUBSET Night]
    BY <1>5, CellsAreNights DEF CancelBooking, TypeOK
  <2>3. current' \in [Booking -> Op \cup {NoOp}] /\ pinned' = {}
    BY <1>5 DEF CancelBooking, TypeOK
  <2>. QED
    BY <2>1, <2>2, <2>3, EnqueueType DEF TypeOK
<1>6. ASSUME NEW o \in Op, RequestRoomControl(o) PROVE TypeOK'
  <2>1. Enqueue(o)
    BY <1>6 DEF RequestRoomControl
  <2>. QED
    BY <1>6, <2>1, EnqueueType DEF RequestRoomControl, TypeOK
<1>7. ASSUME NEW b \in Booking, CancelUnsettled(b) PROVE TypeOK'
  <2>1. opState' \in [Op -> OpState] /\ stays' \in [Booking -> SUBSET Night]
    BY <1>7 DEF CancelUnsettled, TypeOK, OpState
  <2>2. sync' \in [Booking -> SyncState]
    BY <1>7, <1>0, SetSyncType DEF CancelUnsettled
  <2>. QED
    BY <1>7, <2>1, <2>2 DEF CancelUnsettled, TypeOK
<1>. QED
  BY <1>1, <1>2, <1>3, <1>4, <1>5, <1>6, <1>7 DEF Service

\* A step of worker w that only moves w on keeps every type.
LEMMA LocalWorkerType ==
  ASSUME TypeOK, NEW w \in Worker, NEW l \in WorkerState, l.pc # "idle" => l.op \in Op, Go(w, l),
         claim' \in Claim \cup {NoClaim}, holds' \subseteq Op, pinned' \subseteq Worker \cup Operator,
         UNCHANGED <<opVars, channelVars, rd>>
  PROVE  TypeOK'
BY GoType DEF TypeOK, opVars, channelVars

LEMMA WorkerType == ASSUME TypeOK, NEW w \in Worker, WorkerStep(w) \/ Crash(w) PROVE TypeOK'
<1>. USE DEF gateVars
<1>a. /\ wk[w] \in WorkerState /\ (wk[w].pc # "idle" => wk[w].op \in Op)
      /\ claim \in Claim \cup {NoClaim} /\ holds \subseteq Op
      /\ pinned \subseteq Worker \cup Operator
  BY DEF TypeOK
<1>b. (claim # NoClaim => claim.op \in Op) /\ UnderReviewClaim \subseteq Op
  BY <1>a DEF Claim, UnderReviewClaim
<1>1. ASSUME NEW o \in Op, PollQueue(w, o) PROVE TypeOK'
  <2>1. [IdleWorker EXCEPT !.pc = "ready", !.op = o] \in WorkerState
    BY <1>1, <1>b, IdleWorkerType DEF PollQueue, WorkerState, WorkerPc, IdleWorker
  <2>. QED
    BY <1>1, <1>a, <2>1, LocalWorkerType DEF PollQueue, IdleWorker
<1>2. ASSUME NEW o \in Op, PollTarget(w, o) PROVE TypeOK'
  <2>1. [IdleWorker EXCEPT !.pc = "ready", !.op = o] \in WorkerState
    BY <1>2, <1>b, IdleWorkerType DEF PollTarget, WorkerState, WorkerPc, IdleWorker
  <2>. QED
    BY <1>2, <1>a, <2>1, LocalWorkerType DEF PollTarget, IdleWorker
<1>3. ASSUME NEW o \in Op, PollTransfer(w, o) PROVE TypeOK'
  <2>1. [IdleWorker EXCEPT !.pc = "ready", !.op = o, !.replaces = claim.op] \in WorkerState
    BY <1>3, <1>b, IdleWorkerType DEF PollTransfer, WorkerState, WorkerPc, IdleWorker, UnderReviewClaim
  <2>. QED
    BY <1>3, <1>a, <2>1, LocalWorkerType DEF PollTransfer, IdleWorker
<1>4. CASE StaleClaimReview(w)
  BY <1>4, <1>b, SettleType DEF StaleClaimReview, TypeOK, orderVars, channelVars
<1>5. CASE LoginFails(w)
  <2>1. wk[w].op \in Op
    BY <1>5, <1>a DEF LoginFails
  <2>2. failures' \in [Op -> Nat]
    <3>1. failures \in [Op -> Nat] /\ failures[wk[w].op] + 1 \in Nat
      BY <2>1 DEF TypeOK
    <3>2. failures' = failures \/ failures' = [failures EXCEPT ![wk[w].op] = failures[wk[w].op] + 1]
      BY <1>5, Zenon DEF LoginFails
    <3>. QED
      BY <3>1, <3>2
  <2>3. opState' \in [Op -> OpState] /\ sync' \in [Booking -> SyncState]
        /\ pinned' \subseteq Worker \cup Operator
    BY <1>5, <2>1, SettleType DEF LoginFails, TypeOK
  <2>. QED
    BY <1>5, <2>2, <2>3, GoType, IdleWorkerType DEF LoginFails, TypeOK, Stop, orderVars, channelVars
<1>6. CASE Acquire(w)
  <2>1. [wk[w] EXCEPT !.pc = "claimed", !.replaces = NoOp] \in WorkerState
    BY <1>a DEF WorkerState, WorkerPc
  <2>2. claim' \in Claim
    BY <1>6, <1>a DEF Acquire, Claim
  <2>. QED
    BY <1>6, <1>a, <1>b, <2>1, <2>2, LocalWorkerType DEF Acquire, WorkerState
<1>7. CASE Refused(w)
  BY <1>7, <1>a, LocalWorkerType, IdleWorkerType DEF Refused, Stop
<1>8. CASE LoadOperation(w)
  <2>1. [wk[w] EXCEPT !.pc = "observe"] \in WorkerState
    BY <1>a DEF WorkerState, WorkerPc
  <2>. QED
    BY <1>8, <1>a, <2>1, FailedType, LocalWorkerType DEF LoadOperation, WorkerState
<1>9. CASE FirstObserve(w)
  <2>. DEFINE l == [wk[w] EXCEPT !.seen = Snapshot(wk[w].op)]
  <2>1. l \in WorkerState /\ l.op \in Op
    BY <1>9, <1>a, SnapshotType DEF FirstObserve, WorkerState
  <2>2. [l EXCEPT !.pc = "preflight"] \in WorkerState /\ [l EXCEPT !.pc = "preflight"].op \in Op
    BY <2>1 DEF WorkerState, WorkerPc
  <2>3. Go(w, IF ManualInitial(l.op) THEN [l EXCEPT !.pc = "preflight"] ELSE EnterClosed(l))
    BY <1>9 DEF FirstObserve
  <2>4. EnterClosed(l) \in WorkerState /\ EnterClosed(l).op \in Op
    BY <2>1, EnterClosedType
  <2>. HIDE DEF l
  <2>. QED
    BY <1>9, <1>a, <2>2, <2>3, <2>4, LocalWorkerType DEF FirstObserve
<1>10. CASE ObserveFails(w)
  BY <1>10, <1>a, FailedType, LocalWorkerType DEF ObserveFails
<1>11. CASE RecordPreflight(w)
  <2>1. wk[w].op \in Op
    BY <1>11, <1>a DEF RecordPreflight
  <2>2. openProof' \in [Op -> {"none", "open", "blocked"}]
    BY <1>11, <2>1 DEF RecordPreflight, TypeOK
  <2>3. opState' \in [Op -> OpState] /\ sync' \in [Booking -> SyncState]
        /\ pinned' \subseteq Worker \cup Operator
    BY <1>11, <1>a, <2>1, SettleType DEF RecordPreflight, TypeOK, Bump
  <2>4. Go(w, EnterClosed(wk[w])) \/ Go(w, Failed(wk[w]))
    BY <1>11 DEF RecordPreflight
  <2>5. wk' \in [Worker -> WorkerState] /\ \A u \in Worker : wk'[u].pc # "idle" => wk'[u].op \in Op
    BY <1>a, <2>1, <2>4, EnterClosedType, FailedType, GoType
  <2>. QED
    BY <1>11, <2>2, <2>3, <2>5 DEF RecordPreflight, TypeOK, orderVars, channelVars
<1>12. ASSUME NEW n \in Night, Put(w, n) PROVE TypeOK'
  <2>. DEFINE m == [wk[w] EXCEPT !.todo = @ \ {n},
                      !.applied = IF wk[w].phase = "closed" THEN @ \cup {n} ELSE @,
                      !.pc = IF wk[w].todo = {n} THEN "reobserve" ELSE "write"]
  <2>1. wk[w].op \in Op /\ wk[w].phase \in Wish
    BY <1>12, <1>a DEF Put, WorkerState
  <2>2. m \in WorkerState /\ m.op \in Op
    BY <1>a, <2>1 DEF WorkerState, WorkerPc
  <2>3. Go(w, m)
    BY <1>12 DEF Put
  <2>4. stock' \in [Night -> Stock] /\ puts' \subseteq Op \X Night
    BY <1>12, <2>1 DEF Put, TypeOK, Written, Stock
  <2>. HIDE DEF m
  <2>. QED
    BY <1>12, <2>2, <2>3, <2>4, GoType DEF Put, TypeOK, opVars
<1>13. ASSUME NEW n \in Night, PutUnknown(w, n) PROVE TypeOK'
  <2>. DEFINE m == [wk[w] EXCEPT !.todo = {}, !.unknown = TRUE, !.pc = "reobserve"]
  <2>1. wk[w].op \in Op /\ wk[w].phase \in Wish
    BY <1>13, <1>a DEF PutUnknown, WorkerState
  <2>2. m \in WorkerState /\ m.op \in Op
    BY <1>a, <2>1 DEF WorkerState, WorkerPc
  <2>3. Go(w, m)
    BY <1>13 DEF PutUnknown
  <2>4. stock' \in [Night -> Stock] /\ puts' \subseteq Op \X Night /\ inflight' \subseteq Night \X Wish
    BY <1>13, <2>1 DEF PutUnknown, TypeOK, Written, Stock
  <2>. HIDE DEF m
  <2>. QED
    BY <1>13, <2>2, <2>3, <2>4, GoType DEF PutUnknown, TypeOK, opVars
<1>14. CASE Reobserve(w)
  <2>. DEFINE l == [wk[w] EXCEPT !.seen = Snapshot(wk[w].op)]
  <2>1. l \in WorkerState /\ l.op \in Op
    BY <1>14, <1>a, SnapshotType DEF Reobserve, WorkerState
  <2>2. [l EXCEPT !.pc = "record"] \in WorkerState /\ [l EXCEPT !.pc = "record"].op \in Op
    BY <2>1 DEF WorkerState, WorkerPc
  <2>3. Go(w, [l EXCEPT !.pc = "record"]) \/ Go(w, EnterOpen(l))
    BY <1>14 DEF Reobserve
  <2>4. EnterOpen(l) \in WorkerState /\ EnterOpen(l).op \in Op
    BY <2>1, EnterOpenType
  <2>. HIDE DEF l
  <2>. QED
    BY <1>14, <1>a, <2>2, <2>3, <2>4, LocalWorkerType DEF Reobserve
<1>15. CASE Record(w)
  <2>. DEFINE m == [wk[w] EXCEPT !.pc = "finish", !.verified = (opState'[wk[w].op] = "sync_verified")]
  <2>1. wk[w].op \in Op
    BY <1>15, <1>a DEF Record
  <2>2. m \in WorkerState /\ m.op \in Op
    BY <1>a, <2>1 DEF WorkerState, WorkerPc
  <2>3. Go(w, m) \/ Go(w, Failed(wk[w]))
    BY <1>15 DEF Record
  <2>. HIDE DEF m
  <2>4. wk' \in [Worker -> WorkerState] /\ \A u \in Worker : wk'[u].pc # "idle" => wk'[u].op \in Op
    BY <1>a, <2>1, <2>2, <2>3, FailedType, GoType
  <2>5. RecordReadback(wk[w].op, wk[w].seen, wk[w].applied)
    BY <1>15 DEF Record
  <2>. QED
    BY <1>15, <2>1, <2>4, <2>5, ReadbackType DEF Record, TypeOK, channelVars
<1>16. CASE RecordFails(w)
  BY <1>16, <1>a, FailedType, LocalWorkerType DEF RecordFails
<1>17. CASE Finish(w)
  <2>1. wk[w].op \in Op
    BY <1>17, <1>a DEF Finish
  <2>2. opState' \in [Op -> OpState] /\ sync' \in [Booking -> SyncState]
        /\ pinned' \subseteq Worker \cup Operator
    BY <1>17, <1>a, <2>1, SettleType DEF Finish, TypeOK
  <2>3. claim' \in Claim \cup {NoClaim}
    BY <1>17, <1>a DEF Finish, HoldsClaim, ClaimActive, Claim
  <2>. QED
    BY <1>17, <2>2, <2>3, GoType, IdleWorkerType DEF Finish, TypeOK, Stop, orderVars, channelVars
<1>18. CASE FinishFails(w)
  <2>1. Go(w, Failed(wk[w])) \/ Go(w, IdleWorker)
    BY <1>18 DEF FinishFails, Stop
  <2>. QED
    BY <1>18, <1>a, <2>1, FailedType, IdleWorkerType, LocalWorkerType DEF FinishFails
<1>19. CASE Crash(w)
  BY <1>19, <1>a, LocalWorkerType, IdleWorkerType DEF Crash, Stop
<1>. QED
  BY <1>1, <1>2, <1>3, <1>4, <1>5, <1>6, <1>7, <1>8, <1>9, <1>10, <1>11, <1>12, <1>13, <1>14,
     <1>15, <1>16, <1>17, <1>18, <1>19 DEF WorkerStep

LEMMA ChannelType == ASSUME TypeOK, Channel PROVE TypeOK'
<1>1. ASSUME NEW n \in Night, NEW s \in Stock, OutsideChange(n, s) PROVE TypeOK'
  BY <1>1 DEF OutsideChange, TypeOK, gateVars, opVars
<1>2. ASSUME NEW n \in Night, NEW phase \in Wish, Land(n, phase) PROVE TypeOK'
  BY <1>2 DEF Land, TypeOK, gateVars, opVars, Written, Stock
<1>. QED
  BY <1>1, <1>2 DEF Channel

\* A step of operator r that only moves r, the claim and the pins keeps every type.
LEMMA LocalOperatorType ==
  ASSUME TypeOK, NEW r \in Operator, NEW l \in OperatorState, l.pc # "idle" => l.op \in Op, Answer(r, l),
         claim' \in Claim \cup {NoClaim}, pinned' \subseteq Worker \cup Operator,
         UNCHANGED <<opVars, holds, channelVars, wk>>
  PROVE  TypeOK'
BY AnswerType DEF TypeOK, opVars, channelVars

LEMMA OperatorType == ASSUME TypeOK, NEW r \in Operator, OperatorStep(r) PROVE TypeOK'
<1>. USE DEF gateVars
<1>a. /\ rd[r] \in OperatorState /\ (rd[r].pc # "idle" => rd[r].op \in Op)
      /\ claim \in Claim \cup {NoClaim} /\ opState \in [Op -> OpState]
      /\ pinned \subseteq Worker \cup Operator
  BY DEF TypeOK
<1>b. claim # NoClaim => claim \in Claim /\ claim.op \in Op /\ claim.holder \in Worker
  BY <1>a DEF Claim
<1>c. \A pc \in OperatorPc : [rd[r] EXCEPT !.pc = pc] \in OperatorState
  BY <1>a DEF OperatorState
<1>1. CASE StartRecover(r)
  <2>1. [IdleOperator EXCEPT !.pc = "load", !.op = claim.op, !.holder = claim.holder] \in OperatorState
    BY <1>1, <1>b, IdleOperatorType DEF StartRecover, OperatorState, OperatorPc, IdleOperator
  <2>. QED
    BY <1>1, <1>a, <1>b, <2>1, LocalOperatorType DEF StartRecover, IdleOperator
<1>2. CASE RecoverLoad(r)
  <2>. DEFINE m == [rd[r] EXCEPT !.was = opState[rd[r].op],
                      !.pc = IF ManualInitial(rd[r].op) /\ opState[rd[r].op] # "sync_verified"
                             THEN "mark" ELSE "observe"]
  <2>1. rd[r].op \in Op /\ opState[rd[r].op] \in OpState
    BY <1>2, <1>a DEF RecoverLoad
  <2>2. m \in OperatorState /\ m.op \in Op
    BY <1>a, <2>1 DEF OperatorState, OperatorPc
  <2>3. Answer(r, m)
    BY <1>2 DEF RecoverLoad
  <2>. HIDE DEF m
  <2>. QED
    BY <1>2, <1>a, <2>2, <2>3, LocalOperatorType DEF RecoverLoad
<1>3. CASE RecoverMark(r)
  <2>1. rd[r].op \in Op
    BY <1>3, <1>a DEF RecoverMark
  <2>2. opState' \in [Op -> OpState] /\ sync' \in [Booking -> SyncState]
        /\ pinned' \subseteq Worker \cup Operator
    BY <1>3, <1>a, <2>1, SettleType DEF RecoverMark, TypeOK
  <2>3. claim' \in Claim \cup {NoClaim}
    BY <1>3, <1>a DEF RecoverMark, ClaimUnmoved, Claim
  <2>. QED
    BY <1>3, <2>2, <2>3, AnswerType, IdleOperatorType DEF RecoverMark, Abandon, TypeOK, orderVars, channelVars
<1>4. CASE RecoverObserve(r)
  <2>. DEFINE m(pc) == [rd[r] EXCEPT !.seen = Snapshot(rd[r].op), !.pc = pc]
  <2>1. rd[r].op \in Op
    BY <1>4, <1>a DEF RecoverObserve
  <2>2. \A pc \in OperatorPc : m(pc) \in OperatorState /\ m(pc).op \in Op
    BY <1>a, <2>1, SnapshotType DEF OperatorState
  <2>3. Answer(r, m("record")) \/ Answer(r, m("clear")) \/ Answer(r, IdleOperator)
    BY <1>4 DEF RecoverObserve, Abandon
  <2>4. "record" \in OperatorPc /\ "clear" \in OperatorPc
    BY DEF OperatorPc
  <2>. HIDE DEF m
  <2>. QED
    BY <1>4, <1>a, <2>2, <2>3, <2>4, IdleOperatorType, LocalOperatorType DEF RecoverObserve
<1>5. CASE RecoverRecord(r)
  <2>1. rd[r].op \in Op /\ RecordReadback(rd[r].op, rd[r].seen, {})
    BY <1>5, <1>a DEF RecoverRecord
  <2>2. Answer(r, [rd[r] EXCEPT !.pc = "clear"]) \/ Answer(r, IdleOperator)
    BY <1>5 DEF RecoverRecord, Abandon
  <2>3. [rd[r] EXCEPT !.pc = "clear"] \in OperatorState /\ [rd[r] EXCEPT !.pc = "clear"].op \in Op
    BY <1>a, <2>1 DEF OperatorState, OperatorPc
  <2>4. rd' \in [Operator -> OperatorState] /\ \A u \in Operator : rd'[u].pc # "idle" => rd'[u].op \in Op
    BY <2>2, <2>3, IdleOperatorType, AnswerType
  <2>. QED
    BY <1>5, <2>1, <2>4, ReadbackType DEF RecoverRecord, TypeOK, channelVars
<1>6. CASE RecoverClear(r)
  <2>1. claim' \in Claim \cup {NoClaim}
    BY <1>6, <1>a DEF RecoverClear
  <2>. QED
    BY <1>6, <1>a, <2>1, IdleOperatorType, LocalOperatorType DEF RecoverClear, Abandon
<1>7. CASE StartRelease(r)
  <2>1. [IdleOperator EXCEPT !.pc = "inspect", !.op = claim.op, !.holder = claim.holder] \in OperatorState
    BY <1>7, <1>b, IdleOperatorType DEF StartRelease, OperatorState, OperatorPc, IdleOperator
  <2>. QED
    BY <1>7, <1>a, <1>b, <2>1, LocalOperatorType DEF StartRelease, IdleOperator
<1>8. CASE ReleaseObserve(r)
  <2>1. [rd[r] EXCEPT !.pc = "release"] \in OperatorState /\ [rd[r] EXCEPT !.pc = "release"].op = rd[r].op
    BY <1>a DEF OperatorState, OperatorPc
  <2>. QED
    BY <1>8, <1>a, <2>1, IdleOperatorType, LocalOperatorType DEF ReleaseObserve, Abandon
<1>9. CASE Release(r)
  <2>1. claim' \in Claim \cup {NoClaim} /\ pinned' \subseteq Worker \cup Operator
    BY <1>9, <1>a DEF Release, Bump
  <2>. QED
    BY <1>9, <2>1, IdleOperatorType, LocalOperatorType DEF Release, Abandon
<1>10. CASE OperatorStops(r)
  BY <1>10, <1>a, IdleOperatorType, LocalOperatorType DEF OperatorStops, Abandon
<1>. QED
  BY <1>1, <1>2, <1>3, <1>4, <1>5, <1>6, <1>7, <1>8, <1>9, <1>10 DEF OperatorStep

LEMMA InitType == Init => TypeOK
<1>. SUFFICES ASSUME Init PROVE TypeOK
  OBVIOUS
<1>1. IdleWorker \in WorkerState /\ IdleOperator \in OperatorState
  BY IdleWorkerType, IdleOperatorType
<1>. QED
  BY <1>1, IdleWorkerType, IdleOperatorType DEF Init, TypeOK, Stock, OpState, SyncState

LEMMA StepType == TypeOK /\ [Next]_vars => TypeOK'
<1>. SUFFICES ASSUME TypeOK, [Next]_vars PROVE TypeOK'
  OBVIOUS
<1>1. CASE UNCHANGED vars
  BY <1>1 DEF vars, TypeOK
<1>. QED
  BY <1>1, ServiceType, WorkerType, ChannelType, OperatorType DEF Next

\* Every variable keeps its type, and a busy worker or operator works on an operation,
\* for any sets of nights, bookings, operations, workers and operators.
THEOREM TypeCorrect == Spec => []TypeOK
BY InitType, StepType, PTL DEF Spec

(***************************************************************************)
(* The inductive invariant.  An operation is Known once it exists: from    *)
(* then on it can only be pending while the active claim is on it, so no   *)
(* worker, present or future, starts it a second time.                     *)
(***************************************************************************)
Known(o) == /\ opState[o] # "absent"
            /\ opState[o] = "sync_pending" => ClaimActive /\ claim.op = o
ClaimKnown == claim # NoClaim => Known(claim.op)
OperatorsKnown == \A r \in Operator : rd[r].pc # "idle" => Known(rd[r].op)
PutsKnown == \A o \in Op, n \in Night : <<o, n>> \in puts => Known(o)

\* An operator recovers an active claim only while its worker is stopped.
OperatorsWait == \A r \in Operator :
  rd[r].pc # "idle" /\ ClaimUnmoved(r) /\ ClaimActive => ~Busy(rd[r].holder)

WriterInv == TypeOK /\ ClaimKnown /\ OperatorsKnown /\ OperatorsWait /\ OneWriter

\* What local state l still has to write is not among the cells written.
FreshFor(l, written) ==
  /\ l.pc \in {"claimed", "observe", "preflight"} => \A n \in Night : <<l.op, n>> \notin written
  /\ l.pc = "write" => \A n \in l.todo : Job[l.op].wish[n] = l.phase /\ <<l.op, n>> \notin written
  /\ l.pc \in {"write", "reobserve"} /\ l.phase = "closed" =>
       \A n \in OpenCells(l.op) : <<l.op, n>> \notin written
Fresh(w) == FreshFor(wk[w], puts)
FreshInv == WriterInv /\ PutsKnown /\ \A w \in Worker : Fresh(w)

\* The closing PUTs a worker counts as its own were issued.
AppliedPut == \A w \in Worker : wk[w].pc # "idle" => \A n \in wk[w].applied : <<wk[w].op, n>> \in puts

(***************************************************************************)
(* How a step moves each part of the state.                                *)
(***************************************************************************)
OpMoves(o) == \/ opState'[o] = opState[o]
              \/ opState[o] = "absent" /\ opState'[o] = "sync_pending"
              \/ opState'[o] \in {"review_required", "sync_verified"}

\* An operation leaves "absent" once, for "sync_pending", and never returns to either.
LEMMA OpsMove == ASSUME TypeOK, Next PROVE \A o \in Op : OpMoves(o)
<1>. USE DEF OpMoves, gateVars, opVars, orderVars
<1>0. opState \in [Op -> OpState]
  BY DEF TypeOK
<1>a. ASSUME NEW o \in Op, Enqueue(o) PROVE \A p \in Op : OpMoves(p)
  BY <1>0, <1>a DEF Enqueue
<1>b. ASSUME NEW o, SettleAsReview(o) PROVE \A p \in Op : OpMoves(p)
  BY <1>0, <1>b DEF SettleAsReview
<1>c. ASSUME NEW o, NEW seen, NEW applied, RecordReadback(o, seen, applied) PROVE \A p \in Op : OpMoves(p)
  BY <1>0, <1>c DEF RecordReadback
<1>1. CASE Service
  <2>1. ASSUME NEW b \in Booking, CancelUnsettled(b) PROVE \A p \in Op : OpMoves(p)
    BY <1>0, <2>1 DEF CancelUnsettled
  <2>. QED
    BY <1>1, <1>a, <2>1 DEF Service, CreateBooking, TakeNights, RequestClose, MoveBooking,
       CancelBooking, RequestRoomControl
<1>2. ASSUME NEW w \in Worker, WorkerStep(w) \/ Crash(w) PROVE \A p \in Op : OpMoves(p)
  <2>1. CASE StaleClaimReview(w) \/ LoginFails(w) \/ RecordPreflight(w) \/ Finish(w)
    BY <2>1, <1>b DEF StaleClaimReview, LoginFails, RecordPreflight, Finish
  <2>2. CASE Record(w)
    BY <2>2, <1>c DEF Record
  <2>3. CASE UNCHANGED opState
    BY <2>3
  <2>. QED
    BY <1>2, <2>1, <2>2, <2>3 DEF WorkerStep, Crash, PollQueue, PollTarget, PollTransfer, Acquire,
       Refused, LoadOperation, FirstObserve, ObserveFails, Put, PutUnknown, Reobserve, RecordFails,
       FinishFails
<1>3. CASE Channel
  BY <1>3 DEF Channel, OutsideChange, Land
<1>4. ASSUME NEW r \in Operator, OperatorStep(r) PROVE \A p \in Op : OpMoves(p)
  <2>1. CASE RecoverMark(r)
    BY <2>1, <1>b DEF RecoverMark
  <2>2. CASE RecoverRecord(r)
    BY <2>2, <1>c DEF RecoverRecord
  <2>3. CASE UNCHANGED opState
    BY <2>3
  <2>. QED
    BY <1>4, <2>1, <2>2, <2>3 DEF OperatorStep, StartRecover, RecoverLoad, RecoverObserve,
       RecoverClear, StartRelease, ReleaseObserve, Release, OperatorStops
<1>. QED
  BY <1>1, <1>2, <1>3, <1>4 DEF Next

\* A worker becomes busy by acquiring the claim, and stays with its operation until idle.
LEMMA WorkersMove ==
  ASSUME TypeOK, Next, NEW v \in Worker, Busy(v)'
  PROVE  \/ Acquire(v)
         \/ Busy(v) /\ wk'[v].op = wk[v].op
<1>. USE DEF gateVars, Busy, Dispatching, WorkerPc
<1>0. wk \in [Worker -> WorkerState]
  BY DEF TypeOK
<1>a. ASSUME NEW w \in Worker, NEW l, Go(w, l), l.pc \in {"idle", "ready"} \/ (Busy(w) /\ l.op = wk[w].op)
      PROVE  Busy(v) /\ wk'[v].op = wk[v].op
  BY <1>0, <1>a DEF Go
<1>b. CASE UNCHANGED wk
  BY <1>b
<1>1. CASE Service
  BY <1>1, <1>b DEF Service, CreateBooking, TakeNights, RequestClose, MoveBooking,
     CancelBooking, RequestRoomControl, CancelUnsettled, Enqueue
<1>2. ASSUME NEW w \in Worker, WorkerStep(w) \/ Crash(w)
      PROVE  Acquire(v) \/ (Busy(v) /\ wk'[v].op = wk[v].op)
  <2>a. wk[w] \in WorkerState /\ (wk[w].pc # "idle" => wk[w].op \in Op)
    BY DEF TypeOK
  <2>b. IdleWorker.pc = "idle"
    BY IdleWorkerType
  <2>1. ASSUME NEW o \in Op, PollQueue(w, o) \/ PollTarget(w, o) \/ PollTransfer(w, o)
        PROVE  Busy(v) /\ wk'[v].op = wk[v].op
    BY <2>1, <1>a DEF PollQueue, PollTarget, PollTransfer, IdleWorker
  <2>2. CASE StaleClaimReview(w)
    BY <2>2, <1>b DEF StaleClaimReview
  <2>3. CASE LoginFails(w) \/ Refused(w) \/ Finish(w) \/ Crash(w)
    BY <2>3, <2>b, <1>a DEF LoginFails, Refused, Finish, Crash, Stop
  <2>4. CASE Acquire(w)
    <3>1. v # w => wk'[v] = wk[v]
      BY <2>4, <1>0 DEF Acquire, Go
    <3>. QED
      BY <2>4, <3>1
  <2>5. CASE LoadOperation(w)
    <3>1. [wk[w] EXCEPT !.pc = "observe"].op = wk[w].op
      BY <2>a DEF WorkerState
    <3>. QED
      BY <2>5, <2>a, <3>1, <1>a, FailedType DEF LoadOperation
  <2>6. CASE FirstObserve(w)
    <3>. DEFINE l == [wk[w] EXCEPT !.seen = Snapshot(wk[w].op)]
    <3>1. l \in WorkerState /\ l.op = wk[w].op /\ l.op \in Op
      BY <2>6, <2>a, SnapshotType DEF FirstObserve, WorkerState
    <3>2. [l EXCEPT !.pc = "preflight"].op = wk[w].op
      BY <3>1 DEF WorkerState
    <3>3. Go(w, [l EXCEPT !.pc = "preflight"]) \/ Go(w, EnterClosed(l))
      BY <2>6 DEF FirstObserve
    <3>. HIDE DEF l
    <3>. QED
      BY <2>6, <3>1, <3>2, <3>3, <1>a, EnterClosedType DEF FirstObserve
  <2>7. CASE ObserveFails(w) \/ RecordFails(w)
    BY <2>7, <2>a, <1>a, FailedType DEF ObserveFails, RecordFails
  <2>8. CASE RecordPreflight(w)
    <3>1. Go(w, EnterClosed(wk[w])) \/ Go(w, Failed(wk[w]))
      BY <2>8 DEF RecordPreflight
    <3>. QED
      BY <2>8, <2>a, <3>1, <1>a, EnterClosedType, FailedType DEF RecordPreflight
  <2>9. ASSUME NEW n \in Night, Put(w, n) \/ PutUnknown(w, n)
        PROVE  Busy(v) /\ wk'[v].op = wk[v].op
    <3>. DEFINE put == [wk[w] EXCEPT !.todo = @ \ {n},
                          !.applied = IF wk[w].phase = "closed" THEN @ \cup {n} ELSE @,
                          !.pc = IF wk[w].todo = {n} THEN "reobserve" ELSE "write"]
                 lost == [wk[w] EXCEPT !.todo = {}, !.unknown = TRUE, !.pc = "reobserve"]
    <3>1. put.op = wk[w].op /\ lost.op = wk[w].op
      BY <2>a DEF WorkerState
    <3>2. Busy(w) /\ (Go(w, put) \/ Go(w, lost))
      BY <2>9 DEF Put, PutUnknown
    <3>. HIDE DEF put, lost
    <3>. QED
      BY <3>1, <3>2, <1>a
  <2>10. CASE Reobserve(w)
    <3>. DEFINE l == [wk[w] EXCEPT !.seen = Snapshot(wk[w].op)]
    <3>1. l \in WorkerState /\ l.op = wk[w].op /\ l.op \in Op
      BY <2>10, <2>a, SnapshotType DEF Reobserve, WorkerState
    <3>2. [l EXCEPT !.pc = "record"].op = wk[w].op
      BY <3>1 DEF WorkerState
    <3>3. Go(w, [l EXCEPT !.pc = "record"]) \/ Go(w, EnterOpen(l))
      BY <2>10 DEF Reobserve
    <3>. HIDE DEF l
    <3>. QED
      BY <2>10, <3>1, <3>2, <3>3, <1>a, EnterOpenType DEF Reobserve
  <2>11. CASE Record(w)
    <3>. DEFINE l == [wk[w] EXCEPT !.pc = "finish", !.verified = (opState'[wk[w].op] = "sync_verified")]
    <3>1. l.op = wk[w].op /\ Failed(wk[w]).op = wk[w].op
      BY <2>a, FailedType DEF WorkerState
    <3>2. Busy(w) /\ (Go(w, l) \/ Go(w, Failed(wk[w])))
      BY <2>11 DEF Record
    <3>. HIDE DEF l
    <3>. QED
      BY <3>1, <3>2, <1>a
  <2>12. CASE FinishFails(w)
    BY <2>12, <2>a, <2>b, <1>a, FailedType DEF FinishFails, Stop
  <2>. QED
    BY <1>2, <2>1, <2>2, <2>3, <2>4, <2>5, <2>6, <2>7, <2>8, <2>9, <2>10, <2>11, <2>12 DEF WorkerStep
<1>3. CASE Channel
  BY <1>3, <1>b DEF Channel, OutsideChange, Land
<1>4. ASSUME NEW r \in Operator, OperatorStep(r) PROVE UNCHANGED wk
  BY <1>4 DEF OperatorStep, StartRecover, RecoverLoad, RecoverMark, RecoverObserve,
     RecoverRecord, RecoverClear, StartRelease, ReleaseObserve, Release, OperatorStops
<1>. QED
  BY <1>1, <1>2, <1>3, <1>4, <1>b DEF Next

\* An operator who acts on a claim keeps to it; a new one starts on the claim it finds.
StartsOnClaim(r) == /\ claim # NoClaim /\ rd'[r].op = claim.op /\ rd'[r].holder = claim.holder
                    /\ ClaimActive => ~Busy(claim.holder)
                    /\ UNCHANGED <<claim, opState, wk>>
LEMMA OperatorsMove ==
  ASSUME TypeOK, Next, NEW q \in Operator, rd'[q].pc # "idle"
  PROVE  \/ StartsOnClaim(q)
         \/ rd[q].pc # "idle" /\ rd'[q].op = rd[q].op /\ rd'[q].holder = rd[q].holder
<1>. USE DEF gateVars
<1>0. rd \in [Operator -> OperatorState]
  BY DEF TypeOK
<1>. DEFINE Keeps == rd[q].pc # "idle" /\ rd'[q].op = rd[q].op /\ rd'[q].holder = rd[q].holder
<1>a. ASSUME NEW r \in Operator, NEW l, Answer(r, l),
             l.pc = "idle" \/ (rd[r].pc # "idle" /\ l.op = rd[r].op /\ l.holder = rd[r].holder)
      PROVE  Keeps
  BY <1>0, <1>a DEF Answer
<1>b. CASE UNCHANGED rd
  BY <1>b
<1>1. CASE Service
  BY <1>1, <1>b DEF Service, CreateBooking, TakeNights, RequestClose, MoveBooking,
     CancelBooking, RequestRoomControl, CancelUnsettled, Enqueue
<1>2. ASSUME NEW w \in Worker, WorkerStep(w) \/ Crash(w) PROVE UNCHANGED rd
  BY <1>2 DEF WorkerStep, Crash, PollQueue, PollTarget, PollTransfer, StaleClaimReview, LoginFails,
     Acquire, Refused, LoadOperation, FirstObserve, ObserveFails, RecordPreflight, Put, PutUnknown,
     Reobserve, Record, RecordFails, Finish, FinishFails
<1>3. CASE Channel
  BY <1>3, <1>b DEF Channel, OutsideChange, Land
<1>4. ASSUME NEW r \in Operator, OperatorStep(r) PROVE StartsOnClaim(q) \/ Keeps
  <2>a. rd[r] \in OperatorState /\ IdleOperator.pc = "idle"
    BY <1>0, IdleOperatorType
  <2>b. \A pc, seen, was : LET l == [rd[r] EXCEPT !.was = was, !.pc = pc] IN l.op = rd[r].op /\ l.holder = rd[r].holder
    BY <2>a DEF OperatorState
  <2>c. \A pc, seen, was : LET l == [rd[r] EXCEPT !.seen = seen, !.pc = pc] IN l.op = rd[r].op /\ l.holder = rd[r].holder
    BY <2>a DEF OperatorState
  <2>d. \A pc : LET l == [rd[r] EXCEPT !.pc = pc] IN l.op = rd[r].op /\ l.holder = rd[r].holder
    BY <2>a DEF OperatorState
  <2>1. CASE StartRecover(r) \/ StartRelease(r)
    <3>1. PICK pc : Answer(r, [IdleOperator EXCEPT !.pc = pc, !.op = claim.op, !.holder = claim.holder])
      BY <2>1 DEF StartRecover, StartRelease
    <3>2. r # q => rd'[q] = rd[q]
      BY <3>1, <1>0 DEF Answer
    <3>3. rd'[r].op = claim.op /\ rd'[r].holder = claim.holder
      BY <3>1, <1>0 DEF Answer, IdleOperator
    <3>4. claim # NoClaim /\ UNCHANGED <<claim, opState, wk>> /\ (ClaimActive => ~Busy(claim.holder))
      BY <2>1 DEF StartRecover, StartRelease, Busy, Releasable, UnderReviewClaim, ClaimActive, opVars
    <3>. QED
      BY <3>2, <3>3, <3>4 DEF StartsOnClaim
  <2>2. CASE RecoverLoad(r)
    BY <2>2, <2>b, <1>a DEF RecoverLoad
  <2>3. CASE RecoverMark(r) \/ RecoverClear(r) \/ Release(r) \/ OperatorStops(r)
    BY <2>3, <2>a, <1>a DEF RecoverMark, RecoverClear, Release, OperatorStops, Abandon
  <2>4. CASE RecoverObserve(r)
    BY <2>4, <2>a, <2>c, <1>a DEF RecoverObserve, Abandon
  <2>5. CASE RecoverRecord(r) \/ ReleaseObserve(r)
    BY <2>5, <2>a, <2>d, <1>a DEF RecoverRecord, ReleaseObserve, Abandon
  <2>. QED
    BY <1>4, <2>1, <2>2, <2>3, <2>4, <2>5 DEF OperatorStep
<1>. QED
  BY <1>1, <1>2, <1>3, <1>4, <1>b DEF Next

\* The claim is left by the worker that holds it, or by an operator once that worker is
\* stopped; its operation is settled by then.
ClaimLeft ==
  /\ claim # NoClaim
  /\ \/ claim' = NoClaim
     \/ /\ claim' # NoClaim /\ claim'.op = claim.op /\ claim'.holder = claim.holder
        /\ claim'.state = "review_required"
  /\ opState'[claim.op] # "sync_pending"
  /\ ClaimActive => wk'[claim.holder].pc \notin Dispatching
LEMMA ClaimMoves ==
  ASSUME WriterInv, Next
  PROVE  \/ \E w \in Worker : Acquire(w)
         \/ UNCHANGED holds /\ (UNCHANGED claim \/ ClaimLeft)
<1>. USE DEF gateVars, opVars
<1>0. TypeOK /\ claim \in Claim \cup {NoClaim} /\ opState \in [Op -> OpState]
      /\ wk \in [Worker -> WorkerState] /\ NoClaim \notin Claim
  BY NameAssumption DEF WriterInv, TypeOK
<1>1. CASE Service
  BY <1>1 DEF Service, CreateBooking, TakeNights, RequestClose, MoveBooking,
     CancelBooking, RequestRoomControl, CancelUnsettled, Enqueue
<1>2. ASSUME NEW w \in Worker, WorkerStep(w) \/ Crash(w), ~Acquire(w)
      PROVE  UNCHANGED holds /\ (UNCHANGED claim \/ ClaimLeft)
  <2>1. CASE Finish(w) /\ HoldsClaim(w)
    <3>1. claim \in Claim /\ claim.op \in Op /\ claim.op = wk[w].op /\ claim.holder = w
      BY <2>1, <1>0 DEF HoldsClaim, ClaimActive, Claim
    <3>2. wk'[w].pc \notin Dispatching
      BY <2>1, <1>0, IdleWorkerType DEF Finish, Stop, Go, Busy, Dispatching
    <3>3. CASE HasVerified(w)
      <4>1. claim' = NoClaim /\ UNCHANGED <<holds, opState>> /\ opState[claim.op] = "sync_verified"
            /\ claim # NoClaim
        BY <2>1, <3>1, <3>3 DEF Finish, HasVerified, HoldsClaim, ClaimActive
      <4>. QED
        BY <3>1, <3>2, <4>1 DEF ClaimLeft
    <3>4. CASE ~HasVerified(w)
      <4>1. claim' = [claim EXCEPT !.state = "review_required", !.settled = TRUE] /\ UNCHANGED holds
        BY <2>1, <3>4 DEF Finish
      <4>2. claim' \in Claim /\ claim'.op = claim.op /\ claim'.holder = claim.holder
            /\ claim'.state = "review_required"
        BY <4>1, <3>1 DEF Claim
      <4>3. opState'[claim.op] # "sync_pending"
        BY <2>1, <3>4, <3>1, <1>0 DEF Finish, SettleAsReview
      <4>. QED
        BY <4>1, <4>2, <4>3, <3>1, <3>2, <1>0 DEF ClaimLeft
    <3>. QED
      BY <3>3, <3>4
  <2>2. CASE Finish(w) /\ ~HoldsClaim(w)
    BY <2>2 DEF Finish
  <2>. QED
    BY <1>2, <2>1, <2>2 DEF WorkerStep, Crash, PollQueue, PollTarget, PollTransfer, StaleClaimReview,
       LoginFails, Refused, LoadOperation, FirstObserve, ObserveFails, RecordPreflight, Put,
       PutUnknown, Reobserve, Record, RecordFails, FinishFails
<1>3. CASE Channel
  BY <1>3 DEF Channel, OutsideChange, Land
<1>4. ASSUME NEW r \in Operator, OperatorStep(r)
      PROVE  UNCHANGED holds /\ (UNCHANGED claim \/ ClaimLeft)
  <2>a. rd[r].pc # "idle" /\ ClaimUnmoved(r) /\ ClaimActive => ~Busy(claim.holder)
    BY DEF WriterInv, OperatorsWait, ClaimUnmoved
  <2>1. CASE RecoverMark(r) /\ ~UNCHANGED claim
    <3>1. claim # NoClaim /\ ClaimUnmoved(r) /\ claim.op = rd[r].op /\ SettleAsReview(claim.op)
          /\ claim' = [claim EXCEPT !.state = "review_required"] /\ UNCHANGED <<holds, wk>>
      BY <2>1 DEF RecoverMark, ClaimUnmoved
    <3>2. claim \in Claim /\ claim.op \in Op
      BY <3>1, <1>0 DEF Claim
    <3>3. claim' \in Claim /\ claim'.op = claim.op /\ claim'.holder = claim.holder
          /\ claim'.state = "review_required"
      BY <3>1, <3>2 DEF Claim
    <3>4. opState'[claim.op] # "sync_pending"
      BY <3>1, <3>2, <1>0 DEF SettleAsReview
    <3>5. ClaimActive => wk'[claim.holder].pc \notin Dispatching
      BY <2>1, <2>a, <3>1 DEF RecoverMark, Busy
    <3>. QED
      BY <3>1, <3>3, <3>4, <3>5, <1>0 DEF ClaimLeft
  <2>2. CASE RecoverClear(r) /\ ~UNCHANGED claim
    <3>1. claim' = NoClaim /\ claim # NoClaim /\ ClaimUnmoved(r) /\ claim.op = rd[r].op
          /\ opState'[claim.op] = "sync_verified" /\ UNCHANGED <<holds, wk>>
      BY <2>2 DEF RecoverClear, ClaimUnmoved
    <3>2. ClaimActive => wk'[claim.holder].pc \notin Dispatching
      <4>1. rd[r].pc # "idle"
        BY <2>2 DEF RecoverClear
      <4>. QED
        BY <2>a, <3>1, <4>1 DEF Busy
    <3>. QED
      BY <3>1, <3>2 DEF ClaimLeft
  <2>3. CASE Release(r) /\ ~UNCHANGED claim
    BY <2>3 DEF Release, Releasable, UnderReviewClaim, ClaimActive, ClaimLeft
  <2>4. UNCHANGED holds
    BY <1>4 DEF OperatorStep, StartRecover, RecoverLoad, RecoverMark, RecoverObserve,
       RecoverRecord, RecoverClear, StartRelease, ReleaseObserve, Release, OperatorStops
  <2>. QED
    BY <1>4, <2>1, <2>2, <2>3, <2>4 DEF OperatorStep, StartRecover, RecoverLoad, RecoverObserve,
       RecoverRecord, StartRelease, ReleaseObserve, OperatorStops
<1>. QED
  BY <1>1, <1>2, <1>3, <1>4 DEF Next

(***************************************************************************)
(* One writer.                                                             *)
(***************************************************************************)
\* What Acquire finds and leaves.
LEMMA AcquireFacts ==
  ASSUME TypeOK, NEW w \in Worker, Acquire(w)
  PROVE  /\ wk[w].op \in Op /\ opState[wk[w].op] = "sync_pending" /\ ~ClaimActive
         /\ UNCHANGED <<opState, rd, puts>>
         /\ claim' = [holder |-> w, op |-> wk[w].op, state |-> "active", settled |-> FALSE]
         /\ claim' # NoClaim /\ ClaimActive' /\ claim'.op = wk[w].op /\ claim'.holder = w
         /\ wk' = [wk EXCEPT ![w] = [wk[w] EXCEPT !.pc = "claimed", !.replaces = NoOp]]
         /\ wk'[w].pc = "claimed" /\ wk'[w].op = wk[w].op /\ wk'[w].applied = wk[w].applied
<1>1. wk[w] \in WorkerState /\ wk[w].op \in Op /\ wk \in [Worker -> WorkerState]
  BY DEF Acquire, TypeOK
<1>2. claim' = [holder |-> w, op |-> wk[w].op, state |-> "active", settled |-> FALSE]
  BY DEF Acquire
<1>3. claim' \in Claim
  BY <1>1, <1>2 DEF Claim
<1>4. claim' # NoClaim /\ claim'.state = "active" /\ claim'.op = wk[w].op /\ claim'.holder = w
  BY <1>2, <1>3, NameAssumption
<1>5. wk' = [wk EXCEPT ![w] = [wk[w] EXCEPT !.pc = "claimed", !.replaces = NoOp]]
  BY DEF Acquire, Go
<1>6. wk'[w].pc = "claimed" /\ wk'[w].op = wk[w].op /\ wk'[w].applied = wk[w].applied
  BY <1>1, <1>5 DEF WorkerState
<1>. QED
  BY <1>1, <1>2, <1>4, <1>5, <1>6 DEF Acquire, Admitted, ClaimActive, opVars, channelVars

\* Once known, an operation stays known: it never waits again for a first dispatch.
LEMMA KnownStable ==
  ASSUME WriterInv, Next, NEW o \in Op, Known(o)
  PROVE  Known(o)'
<1>1. OpMoves(o) /\ opState \in [Op -> OpState]
  BY OpsMove DEF WriterInv, TypeOK
<1>2. opState'[o] # "absent"
  BY <1>1 DEF OpMoves, Known
<1>3. SUFFICES ASSUME opState'[o] = "sync_pending" PROVE ClaimActive' /\ claim'.op = o
  BY <1>2 DEF Known
<1>4. ClaimActive /\ claim.op = o
  BY <1>1, <1>3 DEF OpMoves, Known
<1>5. UNCHANGED claim
  BY <1>3, <1>4, ClaimMoves, AcquireFacts DEF WriterInv, ClaimLeft
<1>. QED
  BY <1>4, <1>5 DEF ClaimActive

LEMMA WriterInit == Init => WriterInv
BY InitType DEF Init, WriterInv, ClaimKnown, OperatorsKnown, OperatorsWait, OneWriter, Busy,
   Dispatching, IdleWorker, IdleOperator

LEMMA WriterStep == WriterInv /\ [Next]_vars => WriterInv'
<1>. SUFFICES ASSUME WriterInv, [Next]_vars PROVE WriterInv'
  OBVIOUS
<1>1. CASE UNCHANGED vars
  BY <1>1, StepType DEF vars, WriterInv, ClaimKnown, OperatorsKnown, OperatorsWait, OneWriter,
     Known, ClaimActive, ClaimUnmoved, Busy, HoldsClaim
<1>2. CASE Next
  <2>. USE <1>2
  <2>0. TypeOK /\ TypeOK' /\ NoClaim \notin Claim
    BY StepType, NameAssumption DEF WriterInv
  <2>a. claim # NoClaim => claim.op \in Op /\ claim.holder \in Worker
    BY <2>0 DEF TypeOK, Claim
  <2>b. \A w \in Worker : Acquire(w) => claim'.op = wk[w].op /\ claim'.holder = w
    BY <2>0, AcquireFacts
  <2>1. ClaimKnown'
    <3>1. ASSUME NEW w \in Worker, Acquire(w) PROVE ClaimKnown'
      BY <3>1, <2>0, <2>b, AcquireFacts DEF ClaimKnown, Known
    <3>2. ASSUME UNCHANGED claim \/ ClaimLeft, claim' # NoClaim PROVE Known(claim.op)' /\ claim'.op = claim.op
      BY <3>2, <2>a, KnownStable DEF WriterInv, ClaimKnown, ClaimLeft, Known, ClaimActive
    <3>. QED
      BY <3>1, <3>2, ClaimMoves DEF ClaimKnown, Known
  <2>2. OperatorsKnown'
    <3>1. SUFFICES ASSUME NEW r \in Operator, rd'[r].pc # "idle" PROVE Known(rd[r].op)'
      BY DEF OperatorsKnown
    <3>2. CASE StartsOnClaim(r)
      BY <3>2, <2>a DEF StartsOnClaim, WriterInv, ClaimKnown, Known, ClaimActive
    <3>3. CASE rd[r].pc # "idle" /\ rd'[r].op = rd[r].op
      <4>1. Known(rd[r].op) /\ rd[r].op \in Op
        BY <3>3, <2>0 DEF WriterInv, OperatorsKnown, TypeOK
      <4>2. opState'[rd[r].op] # "absent" /\ (opState'[rd[r].op] = "sync_pending" => ClaimActive' /\ claim'.op = rd[r].op)
        <5>1. PICK p \in Op : p = rd[r].op
          BY <4>1
        <5>2. Known(p)'
          BY <5>1, <4>1, KnownStable
        <5>. QED
          BY <5>1, <5>2 DEF Known
      <4>. QED
        BY <3>3, <4>2 DEF Known
    <3>. QED
      BY <3>1, <3>2, <3>3, <2>0, OperatorsMove
  <2>3. OperatorsWait'
    <3>1. SUFFICES ASSUME NEW r \in Operator, rd'[r].pc # "idle", ClaimUnmoved(r)', ClaimActive'
                   PROVE  wk'[rd'[r].holder].pc \notin Dispatching
      BY DEF OperatorsWait, Busy
    <3>2. CASE StartsOnClaim(r)
      BY <3>1, <3>2 DEF StartsOnClaim, Busy, ClaimActive
    <3>3. CASE rd[r].pc # "idle" /\ rd'[r].op = rd[r].op /\ rd'[r].holder = rd[r].holder
      <4>1. ASSUME NEW w \in Worker, Acquire(w) PROVE FALSE
        <5>1. opState[wk[w].op] = "sync_pending" /\ ~ClaimActive /\ claim'.op = wk[w].op
          BY <4>1, <2>0, AcquireFacts
        <5>2. rd[r].op = wk[w].op
          BY <3>1, <3>3, <5>1 DEF ClaimUnmoved
        <5>. QED
          BY <3>3, <5>1, <5>2 DEF WriterInv, OperatorsKnown, Known
      <4>2. UNCHANGED claim
        BY <4>1, <3>1, ClaimMoves DEF ClaimLeft, ClaimActive
      <4>3. ClaimUnmoved(r) /\ ClaimActive /\ rd[r].holder \in Worker
        BY <3>1, <3>3, <4>2, <2>a DEF ClaimUnmoved, ClaimActive
      <4>4. ~Busy(rd[r].holder)
        BY <3>3, <4>3 DEF WriterInv, OperatorsWait
      <4>. QED
        BY <3>3, <4>1, <4>3, <4>4, <2>0, WorkersMove DEF Busy
    <3>. QED
      BY <3>1, <3>2, <3>3, <2>0, OperatorsMove
  <2>4. OneWriter'
    <3>1. SUFFICES ASSUME NEW v \in Worker, Busy(v)' PROVE HoldsClaim(v)'
      BY DEF OneWriter
    <3>2. CASE Acquire(v)
      BY <3>2, <2>0, <2>b, AcquireFacts DEF HoldsClaim
    <3>3. CASE Busy(v) /\ wk'[v].op = wk[v].op
      <4>1. ClaimActive /\ claim.holder = v /\ claim.op = wk[v].op
        BY <3>3 DEF WriterInv, OneWriter, HoldsClaim
      <4>2. UNCHANGED claim
        BY <3>1, <4>1, <2>0, ClaimMoves, AcquireFacts DEF ClaimLeft, Busy
      <4>. QED
        BY <3>3, <4>1, <4>2 DEF HoldsClaim, ClaimActive
    <3>. QED
      BY <3>1, <3>2, <3>3, <2>0, WorkersMove
  <2>. QED
    BY <2>0, <2>1, <2>2, <2>3, <2>4 DEF WriterInv
<1>. QED
  BY <1>1, <1>2

\* Between acquiring and settling, a worker holds the property's active dispatch claim
\* (createChannelDispatchClaim), however many ticks overlap, crash or are recovered: no
\* two workers ever write the channel at once.
THEOREM OneWriterAlways == Spec => []OneWriter
<1>1. WriterInv => OneWriter
  BY DEF WriterInv
<1>. QED
  BY <1>1, WriterInit, WriterStep, PTL DEF Spec

(***************************************************************************)
(* Scopes under review.                                                    *)
(***************************************************************************)
LEMMA ScopesStep == WriterInv /\ ScopesDisjoint /\ [Next]_vars => ScopesDisjoint'
<1>. SUFFICES ASSUME WriterInv, ScopesDisjoint, [Next]_vars PROVE ScopesDisjoint'
  OBVIOUS
<1>1. CASE UNCHANGED vars
  BY <1>1 DEF vars, ScopesDisjoint, ClaimActive
<1>2. ASSUME NEW w \in Worker, Acquire(w) PROVE ScopesDisjoint'
  <2>. DEFINE o == wk[w].op
  <2>1. /\ o \in Op /\ ~ClaimActive /\ claim' # NoClaim /\ claim'.op = o
        /\ holds' = holds \cup UnderReviewClaim
        /\ \A h \in holds \cup UnderReviewClaim : Cells(h) \cap Cells(o) = {}
    BY <1>2, AcquireFacts DEF WriterInv, Acquire, Admitted, ReviewBlocked, ReviewOverlap
  <2>2. UnderReviewClaim = IF claim = NoClaim THEN {} ELSE {claim.op}
    BY <2>1 DEF WriterInv, TypeOK, Claim, ClaimActive, UnderReviewClaim
  <2>3. Cells(o) # {}
    BY <2>1, CellsAreNights
  <2>4. o \notin holds'
    BY <2>1, <2>3
  <2>. HIDE DEF o
  <2>5. \A p, q \in holds \cup UnderReviewClaim : p # q => Cells(p) \cap Cells(q) = {}
    BY <2>2 DEF ScopesDisjoint
  <2>. QED
    BY <2>1, <2>4, <2>5 DEF ScopesDisjoint
<1>3. CASE UNCHANGED holds /\ (UNCHANGED claim \/ ClaimLeft)
  BY <1>3 DEF ScopesDisjoint, ClaimActive, ClaimLeft
<1>. QED
  BY <1>1, <1>2, <1>3, ClaimMoves

LEMMA ScopesInit == Init => ScopesDisjoint
BY DEF Init, ScopesDisjoint, ClaimActive

\* The scopes under the claim and the review holds never share a room night: admission
\* (channelReviewBlock inside the claiming transaction) compares the new scope with all
\* of them, and the claim it replaces is moved to the holds in the same commit.
THEOREM ScopesDisjointAlways == Spec => []ScopesDisjoint
BY WriterInit, WriterStep, ScopesInit, ScopesStep, PTL DEF Spec

(***************************************************************************)
(* No write is issued twice.                                               *)
(***************************************************************************)
\* Every new PUT is one a writing worker had still to do.
LEMMA PutsMove ==
  ASSUME TypeOK, Next
  PROVE  \/ UNCHANGED puts
         \/ \E w \in Worker, n \in Night : /\ Put(w, n) \/ PutUnknown(w, n)
                                          /\ puts' = puts \cup {<<wk[w].op, n>>}
                                          /\ wk[w].op \in Op /\ Busy(w)
<1>. USE DEF channelVars
<1>1. CASE Service
  BY <1>1 DEF Service, CreateBooking, TakeNights, RequestClose, MoveBooking,
     CancelBooking, RequestRoomControl, CancelUnsettled, Enqueue
<1>2. ASSUME NEW w \in Worker, WorkerStep(w) \/ Crash(w)
      PROVE  UNCHANGED puts \/ \E n \in Night : Put(w, n) \/ PutUnknown(w, n)
  BY <1>2 DEF WorkerStep, Crash, PollQueue, PollTarget, PollTransfer, StaleClaimReview, LoginFails,
     Acquire, Refused, LoadOperation, FirstObserve, ObserveFails, RecordPreflight,
     Reobserve, Record, RecordFails, Finish, FinishFails
<1>3. CASE Channel
  BY <1>3 DEF Channel, OutsideChange, Land
<1>4. ASSUME NEW r \in Operator, OperatorStep(r) PROVE UNCHANGED puts
  BY <1>4 DEF OperatorStep, StartRecover, RecoverLoad, RecoverMark, RecoverObserve,
     RecoverRecord, RecoverClear, StartRelease, ReleaseObserve, Release, OperatorStops
<1>5. ASSUME NEW w \in Worker, NEW n \in Night, Put(w, n) \/ PutUnknown(w, n)
      PROVE  puts' = puts \cup {<<wk[w].op, n>>} /\ wk[w].op \in Op /\ Busy(w)
  BY <1>5 DEF Put, PutUnknown, Busy, Dispatching, WorkerPc, TypeOK
<1>. QED
  BY <1>1, <1>2, <1>3, <1>4, <1>5 DEF Next

\* From a look at the channel the worker goes on to write cells it has not written.
LEMMA EnterOpenFresh ==
  ASSUME NEW l \in WorkerState, l.op \in Op, NEW P,
         \A n \in OpenCells(l.op) : <<l.op, n>> \notin P
  PROVE  FreshFor(EnterOpen(l), P)
<1>. DEFINE m == [l EXCEPT !.pc = "write", !.phase = "open", !.todo = Unsatisfied(l.op, "open", l.seen)]
<1>1. /\ m.pc = "write" /\ m.phase = "open" /\ m.op = l.op
      /\ m.todo = Unsatisfied(l.op, "open", l.seen)
  BY DEF WorkerState
<1>2. \A n \in Unsatisfied(l.op, "open", l.seen) : Job[l.op].wish[n] = "open" /\ n \in OpenCells(l.op)
  BY CellsAreNights DEF Unsatisfied, OpenCells
<1>3. [l EXCEPT !.pc = "record"].pc = "record"
  BY DEF WorkerState
<1>4. FreshFor(m, P)
  BY <1>1, <1>2 DEF FreshFor
<1>5. FreshFor([l EXCEPT !.pc = "record"], P)
  BY <1>3 DEF FreshFor
<1>. QED
  BY <1>4, <1>5 DEF EnterOpen

LEMMA EnterClosedFresh ==
  ASSUME NEW l \in WorkerState, l.op \in Op, NEW P, \A n \in Night : <<l.op, n>> \notin P
  PROVE  FreshFor(EnterClosed(l), P)
<1>. DEFINE m == [l EXCEPT !.pc = "write", !.phase = "closed", !.todo = Unsatisfied(l.op, "closed", l.seen)]
<1>1. /\ m.pc = "write" /\ m.phase = "closed" /\ m.op = l.op
      /\ m.todo = Unsatisfied(l.op, "closed", l.seen)
  BY DEF WorkerState
<1>2. \A n \in Unsatisfied(l.op, "closed", l.seen) : Job[l.op].wish[n] = "closed" /\ n \in Night
  BY CellsAreNights DEF Unsatisfied
<1>3. OpenCells(l.op) \subseteq Night
  BY CellsAreNights
<1>4. FreshFor(m, P)
  BY <1>1, <1>2, <1>3 DEF FreshFor
<1>5. FreshFor(EnterOpen(l), P)
  BY <1>3, EnterOpenFresh
<1>. QED
  BY <1>4, <1>5 DEF EnterClosed

\* The acting worker's own step keeps it fresh.
LEMMA ActorFresh ==
  ASSUME FreshInv, NEW w \in Worker, WorkerStep(w) \/ Crash(w)
  PROVE  FreshFor(wk'[w], puts')
<1>. USE DEF gateVars, channelVars
<1>0. /\ wk[w] \in WorkerState /\ (wk[w].pc # "idle" => wk[w].op \in Op)
      /\ wk \in [Worker -> WorkerState] /\ TypeOK /\ FreshFor(wk[w], puts)
  BY DEF FreshInv, WriterInv, TypeOK, Fresh
<1>a. ASSUME NEW l, Go(w, l) PROVE wk'[w] = l
  BY <1>0, <1>a DEF Go
<1>b. ASSUME NEW l, Go(w, l), l.pc \in {"idle", "ready", "finish"} PROVE FreshFor(wk'[w], puts')
  BY <1>a, <1>b DEF FreshFor
<1>c. IdleWorker.pc = "idle" /\ Failed(wk[w]).pc = "finish"
  BY <1>0, IdleWorkerType, FailedType
<1>1. ASSUME NEW o \in Op, PollQueue(w, o) \/ PollTarget(w, o) \/ PollTransfer(w, o)
      PROVE  FreshFor(wk'[w], puts')
  BY <1>1, <1>b DEF PollQueue, PollTarget, PollTransfer, IdleWorker
<1>2. CASE StaleClaimReview(w)
  BY <1>2, <1>0 DEF StaleClaimReview
<1>3. CASE LoginFails(w) \/ Refused(w) \/ Finish(w) \/ Crash(w) \/ FinishFails(w)
           \/ ObserveFails(w) \/ RecordFails(w)
  BY <1>3, <1>b, <1>c DEF LoginFails, Refused, Finish, Crash, FinishFails, ObserveFails, RecordFails, Stop
<1>4. CASE Acquire(w)
  <2>1. wk'[w].pc = "claimed" /\ wk'[w].op = wk[w].op /\ wk[w].op \in Op /\ UNCHANGED puts
    BY <1>4, <1>0, AcquireFacts
  <2>2. \A n \in Night : <<wk[w].op, n>> \notin puts
    BY <1>4, <1>0, AcquireFacts DEF FreshInv, PutsKnown, Known
  <2>. QED
    BY <2>1, <2>2 DEF FreshFor
<1>5. CASE LoadOperation(w)
  <2>1. [wk[w] EXCEPT !.pc = "observe"].pc = "observe" /\ [wk[w] EXCEPT !.pc = "observe"].op = wk[w].op
    BY <1>0 DEF WorkerState
  <2>2. FreshFor([wk[w] EXCEPT !.pc = "observe"], puts)
    BY <1>5, <1>0, <2>1 DEF LoadOperation, FreshFor
  <2>. QED
    BY <1>5, <1>a, <1>b, <1>c, <2>2 DEF LoadOperation
<1>6. CASE FirstObserve(w)
  <2>. DEFINE l == [wk[w] EXCEPT !.seen = Snapshot(wk[w].op)]
  <2>1. l \in WorkerState /\ l.op = wk[w].op /\ l.op \in Op
    BY <1>6, <1>0, SnapshotType DEF FirstObserve, WorkerState
  <2>2. [l EXCEPT !.pc = "preflight"].op = l.op /\ [l EXCEPT !.pc = "preflight"].pc = "preflight"
    BY <2>1 DEF WorkerState
  <2>3. (Go(w, [l EXCEPT !.pc = "preflight"]) \/ Go(w, EnterClosed(l))) /\ UNCHANGED puts
    BY <1>6 DEF FirstObserve
  <2>4. \A n \in Night : <<l.op, n>> \notin puts
    BY <1>6, <1>0, <2>1 DEF FirstObserve, FreshFor
  <2>. HIDE DEF l
  <2>5. FreshFor([l EXCEPT !.pc = "preflight"], puts)
    BY <2>2, <2>4 DEF FreshFor
  <2>6. FreshFor(EnterClosed(l), puts)
    BY <2>1, <2>4, EnterClosedFresh
  <2>. QED
    BY <2>3, <2>5, <2>6, <1>a
<1>7. CASE RecordPreflight(w)
  <2>1. (Go(w, EnterClosed(wk[w])) \/ Go(w, Failed(wk[w]))) /\ UNCHANGED puts
    BY <1>7 DEF RecordPreflight
  <2>2. FreshFor(EnterClosed(wk[w]), puts)
    BY <1>7, <1>0, EnterClosedFresh DEF RecordPreflight, FreshFor
  <2>. QED
    BY <2>1, <2>2, <1>a, <1>b, <1>c
<1>8. ASSUME NEW n \in Night, Put(w, n) PROVE FreshFor(wk'[w], puts')
  <2>. DEFINE l == wk[w]
              m == [wk[w] EXCEPT !.todo = @ \ {n},
                      !.applied = IF wk[w].phase = "closed" THEN @ \cup {n} ELSE @,
                      !.pc = IF wk[w].todo = {n} THEN "reobserve" ELSE "write"]
  <2>1. /\ m.op = l.op /\ m.todo = l.todo \ {n} /\ m.phase = l.phase
        /\ m.pc \in {"write", "reobserve"} /\ l.pc = "write" /\ n \in l.todo /\ l.op \in Op
    BY <1>8, <1>0 DEF Put, WorkerState
  <2>2. wk'[w] = m /\ puts' = puts \cup {<<l.op, n>>}
    BY <1>8, <1>a DEF Put
  <2>3. Job[l.op].wish[n] = l.phase
    BY <1>0, <2>1 DEF FreshFor
  <2>. HIDE DEF l, m
  <2>4. l.phase = "closed" => n \notin OpenCells(l.op)
    BY <2>3 DEF OpenCells
  <2>. QED
    BY <2>1, <2>2, <2>4, <1>0 DEF FreshFor, l
<1>9. ASSUME NEW n \in Night, PutUnknown(w, n) PROVE FreshFor(wk'[w], puts')
  <2>. DEFINE l == wk[w]
              m == [wk[w] EXCEPT !.todo = {}, !.unknown = TRUE, !.pc = "reobserve"]
  <2>1. /\ m.op = l.op /\ m.phase = l.phase /\ m.pc = "reobserve"
        /\ l.pc = "write" /\ n \in l.todo /\ l.op \in Op
    BY <1>9, <1>0 DEF PutUnknown, WorkerState
  <2>2. wk'[w] = m /\ puts' = puts \cup {<<l.op, n>>}
    BY <1>9, <1>a DEF PutUnknown
  <2>3. Job[l.op].wish[n] = l.phase
    BY <1>0, <2>1 DEF FreshFor
  <2>. HIDE DEF l, m
  <2>4. l.phase = "closed" => n \notin OpenCells(l.op)
    BY <2>3 DEF OpenCells
  <2>. QED
    BY <2>1, <2>2, <2>4, <1>0 DEF FreshFor, l
<1>10. CASE Reobserve(w)
  <2>. DEFINE l == [wk[w] EXCEPT !.seen = Snapshot(wk[w].op)]
  <2>1. l \in WorkerState /\ l.op = wk[w].op /\ l.op \in Op /\ l.phase = wk[w].phase
    BY <1>10, <1>0, SnapshotType DEF Reobserve, WorkerState
  <2>2. [l EXCEPT !.pc = "record"].pc = "record"
    BY <2>1 DEF WorkerState
  <2>3. UNCHANGED puts
    BY <1>10 DEF Reobserve
  <2>4. \/ Go(w, [l EXCEPT !.pc = "record"])
        \/ Go(w, EnterOpen(l)) /\ l.phase # "open"
    BY <1>10 DEF Reobserve
  <2>5. l.phase # "open" => \A n \in OpenCells(l.op) : <<l.op, n>> \notin puts
    BY <1>10, <1>0, <2>1 DEF Reobserve, FreshFor, WorkerState, Wish
  <2>. HIDE DEF l
  <2>6. FreshFor([l EXCEPT !.pc = "record"], puts)
    BY <2>2 DEF FreshFor
  <2>7. l.phase # "open" => FreshFor(EnterOpen(l), puts)
    BY <2>1, <2>5, EnterOpenFresh
  <2>. QED
    BY <2>3, <2>4, <2>6, <2>7, <1>a
<1>11. CASE Record(w)
  <2>. DEFINE m == [wk[w] EXCEPT !.pc = "finish", !.verified = (opState'[wk[w].op] = "sync_verified")]
  <2>1. m.pc = "finish"
    BY <1>0 DEF WorkerState
  <2>2. Go(w, m) \/ Go(w, Failed(wk[w]))
    BY <1>11 DEF Record
  <2>. HIDE DEF m
  <2>. QED
    BY <2>1, <2>2, <1>b, <1>c
<1>. QED
  BY <1>1, <1>2, <1>3, <1>4, <1>5, <1>6, <1>7, <1>8, <1>9, <1>10, <1>11 DEF WorkerStep

\* Only a worker's own step moves it.
LEMMA OnlyActorMoves ==
  ASSUME TypeOK, Next, NEW v \in Worker
  PROVE  WorkerStep(v) \/ Crash(v) \/ wk'[v] = wk[v]
<1>0. wk \in [Worker -> WorkerState]
  BY DEF TypeOK
<1>1. CASE Service
  BY <1>1 DEF Service, CreateBooking, TakeNights, RequestClose, MoveBooking,
     CancelBooking, RequestRoomControl, CancelUnsettled, Enqueue
<1>2. ASSUME NEW w \in Worker, WorkerStep(w) \/ Crash(w)
      PROVE  UNCHANGED wk \/ \E l : Go(w, l)
  <2>1. CASE StaleClaimReview(w)
    BY <2>1 DEF StaleClaimReview
  <2>2. CASE RecordPreflight(w)
    BY <2>2 DEF RecordPreflight
  <2>. QED
    BY <1>2, <2>1, <2>2 DEF WorkerStep, Crash, PollQueue, PollTarget, PollTransfer, LoginFails,
       Acquire, Refused, LoadOperation, FirstObserve, ObserveFails, Put, PutUnknown,
       Reobserve, Record, RecordFails, Finish, FinishFails, Stop
<1>3. CASE Channel
  BY <1>3 DEF Channel, OutsideChange, Land
<1>4. ASSUME NEW r \in Operator, OperatorStep(r) PROVE UNCHANGED wk
  BY <1>4 DEF OperatorStep, StartRecover, RecoverLoad, RecoverMark, RecoverObserve,
     RecoverRecord, RecoverClear, StartRelease, ReleaseObserve, Release, OperatorStops
<1>5. ASSUME NEW w \in Worker, WorkerStep(w) \/ Crash(w), w # v PROVE wk'[v] = wk[v]
  BY <1>0, <1>2, <1>5 DEF Go
<1>. QED
  BY <1>1, <1>3, <1>4, <1>5 DEF Next

LEMMA FreshStep == FreshInv /\ [Next]_vars => FreshInv'
<1>. SUFFICES ASSUME FreshInv, [Next]_vars PROVE FreshInv'
  OBVIOUS
<1>1. CASE UNCHANGED vars
  <2>1. WriterInv'
    BY WriterStep DEF FreshInv
  <2>. QED
    BY <1>1, <2>1 DEF vars, FreshInv, PutsKnown, Known, ClaimActive, Fresh, FreshFor
<1>2. CASE Next
  <2>. USE <1>2
  <2>0. WriterInv /\ WriterInv' /\ TypeOK
    BY WriterStep DEF FreshInv, WriterInv
  <2>1. PutsKnown'
    <3>1. SUFFICES ASSUME NEW o \in Op, NEW n \in Night, <<o, n>> \in puts' PROVE Known(o)'
      BY DEF PutsKnown
    <3>2. CASE <<o, n>> \in puts
      BY <3>2, <2>0, KnownStable DEF FreshInv, PutsKnown
    <3>3. ASSUME NEW w \in Worker, Busy(w), o = wk[w].op PROVE Known(o)
      BY <3>3, <2>0 DEF WriterInv, OneWriter, HoldsClaim, ClaimActive, ClaimKnown
    <3>4. CASE <<o, n>> \notin puts
      BY <3>1, <3>3, <3>4, <2>0, PutsMove, KnownStable
    <3>. QED
      BY <3>2, <3>4
  <2>2. ASSUME NEW v \in Worker PROVE Fresh(v)'
    <3>1. CASE WorkerStep(v) \/ Crash(v)
      BY <3>1, ActorFresh DEF Fresh
    <3>2. CASE ~WorkerStep(v) /\ ~Crash(v)
      <4>1. wk'[v] = wk[v] /\ FreshFor(wk[v], puts)
        BY <3>2, <2>0, OnlyActorMoves DEF FreshInv, Fresh
      <4>2. CASE ~Busy(v)
        BY <4>1, <4>2 DEF Busy, Dispatching, WorkerPc, Fresh, FreshFor
      <4>3. ASSUME NEW w \in Worker, NEW n \in Night, Put(w, n) \/ PutUnknown(w, n), Busy(w), Busy(v)
            PROVE  FALSE
        <5>1. w = v
          BY <4>3, <2>0 DEF WriterInv, OneWriter, HoldsClaim
        <5>. QED
          BY <5>1, <4>3, <3>2 DEF WorkerStep
      <4>4. CASE Busy(v)
        BY <4>1, <4>3, <4>4, <2>0, PutsMove DEF Fresh
      <4>. QED
        BY <4>2, <4>4
    <3>. QED
      BY <3>1, <3>2
  <2>. QED
    BY <2>0, <2>1, <2>2 DEF FreshInv
<1>. QED
  BY <1>1, <1>2

\* A PUT is issued at most once in an operation's life (channel-runner writes what its
\* readback showed unsatisfied; an operation with an uncertain write is never dispatched
\* again): whatever a worker still has to write, its operation never wrote before.
THEOREM NeverReissuedAlways == Spec => []NeverReissued
<1>1. Init => FreshInv
  BY WriterInit DEF Init, FreshInv, PutsKnown, Fresh, FreshFor, IdleWorker
<1>2. FreshInv => NeverReissued
  BY DEF FreshInv, Fresh, FreshFor, NeverReissued
<1>. QED
  BY <1>1, <1>2, FreshStep, PTL DEF Spec

(***************************************************************************)
(* Review holds.                                                           *)
(***************************************************************************)
\* The only step that unseats a review hold is an operator's recovery: the workers and
\* the service leave every held operation in review (the operation under the claim is
\* never a held one).
LEMMA OnlyRecoveryUnseats ==
  ASSUME WriterInv, ScopesDisjoint, HoldsReviewed, Next, \A r \in Operator : ~RecoverRecord(r)
  PROVE  HoldsReviewed'
<1>. USE DEF gateVars, opVars, orderVars
<1>0. opState \in [Op -> OpState] /\ holds \subseteq Op /\ TypeOK
  BY DEF WriterInv, TypeOK
<1>1. ASSUME NEW w \in Worker, Acquire(w) PROVE HoldsReviewed'
  <2>1. holds' = holds \cup UnderReviewClaim /\ UNCHANGED opState /\ ~ScopeUnavailable
    BY <1>1 DEF Acquire, Admitted, ReviewBlocked
  <2>. QED
    BY <2>1 DEF ScopeUnavailable, HoldsReviewed
<1>2. ASSUME UNCHANGED holds, \A h \in holds : opState'[h] \in {opState[h], "review_required"}
      PROVE  HoldsReviewed'
  BY <1>2 DEF HoldsReviewed
<1>a. ASSUME NEW o, SettleAsReview(o)
      PROVE  \A h \in holds : opState'[h] \in {opState[h], "review_required"}
  BY <1>a, <1>0 DEF SettleAsReview
<1>b. ASSUME NEW o, Enqueue(o)
      PROVE  UNCHANGED holds /\ \A h \in holds : opState'[h] \in {opState[h], "review_required"}
  BY <1>b, <1>0 DEF Enqueue, HoldsReviewed
<1>3. CASE Service
  <2>1. ASSUME NEW b \in Booking, CancelUnsettled(b) PROVE HoldsReviewed'
    BY <2>1, <1>0, <1>2 DEF CancelUnsettled
  <2>2. ASSUME NEW o \in Op, TakeNights(o) PROVE HoldsReviewed'
    BY <2>2, <1>2 DEF TakeNights
  <2>. QED
    BY <1>3, <1>b, <1>2, <2>1, <2>2 DEF Service, CreateBooking, RequestClose, MoveBooking,
       CancelBooking, RequestRoomControl
<1>4. ASSUME NEW w \in Worker, WorkerStep(w) \/ Crash(w) PROVE HoldsReviewed'
  <2>1. CASE StaleClaimReview(w) \/ LoginFails(w) \/ RecordPreflight(w) \/ Finish(w)
    BY <2>1, <1>a, <1>2 DEF StaleClaimReview, LoginFails, RecordPreflight, Finish
  <2>2. CASE Record(w)
    <3>1. claim.op = wk[w].op /\ claim.op \notin holds
      BY <2>2 DEF Record, WriterInv, OneWriter, Busy, Dispatching, WorkerPc, HoldsClaim, ScopesDisjoint
    <3>2. \A h \in holds : opState'[h] = opState[h]
      BY <2>2, <3>1, <1>0 DEF Record, RecordReadback
    <3>. QED
      BY <2>2, <3>2, <1>2 DEF Record
  <2>3. CASE UNCHANGED <<opState, holds>>
    BY <2>3, <1>2
  <2>. QED
    BY <1>1, <1>4, <2>1, <2>2, <2>3 DEF WorkerStep, Crash, PollQueue, PollTarget, PollTransfer,
       Refused, LoadOperation, FirstObserve, ObserveFails, Put, PutUnknown, Reobserve, RecordFails,
       FinishFails
<1>5. CASE Channel
  BY <1>5, <1>2 DEF Channel, OutsideChange, Land
<1>6. ASSUME NEW r \in Operator, OperatorStep(r) PROVE HoldsReviewed'
  <2>1. CASE RecoverMark(r)
    BY <2>1, <1>a, <1>2 DEF RecoverMark
  <2>2. CASE UNCHANGED <<opState, holds>>
    BY <2>2, <1>2
  <2>. QED
    BY <1>6, <2>1, <2>2 DEF OperatorStep, StartRecover, RecoverLoad, RecoverObserve,
       RecoverClear, StartRelease, ReleaseObserve, Release, OperatorStops
<1>. QED
  BY <1>3, <1>4, <1>5, <1>6 DEF Next

\* Without an operator running the recovery, every review hold describes an operation in
\* review, so no hold makes channelReviewBlock refuse the whole property (ScopeUnavailable).
THEOREM HoldsReviewedAlways == ASSUME Operator = {} PROVE Spec => []HoldsReviewed
<1>1. Init => HoldsReviewed
  BY DEF Init, HoldsReviewed
<1>2. WriterInv /\ ScopesDisjoint /\ HoldsReviewed /\ [Next]_vars => HoldsReviewed'
  <2>. SUFFICES ASSUME WriterInv, ScopesDisjoint, HoldsReviewed, [Next]_vars PROVE HoldsReviewed'
    OBVIOUS
  <2>1. CASE UNCHANGED vars
    BY <2>1 DEF vars, HoldsReviewed
  <2>. QED
    BY <2>1, OnlyRecoveryUnseats
<1>. QED
  BY <1>1, <1>2, WriterInit, WriterStep, ScopesInit, ScopesStep, PTL DEF Spec

(***************************************************************************)
(* Closing by its own hand.                                                *)
(***************************************************************************)
\* The acting worker counts a closing PUT as its own only when it has issued it.
LEMMA ActorApplied ==
  ASSUME TypeOK, AppliedPut, Next, NEW w \in Worker, WorkerStep(w) \/ Crash(w), wk'[w].pc # "idle"
  PROVE  \A n \in wk'[w].applied : <<wk'[w].op, n>> \in puts'
<1>. USE DEF gateVars, channelVars
<1>0. /\ wk[w] \in WorkerState /\ (wk[w].pc # "idle" => wk[w].op \in Op)
      /\ wk \in [Worker -> WorkerState]
      /\ wk[w].pc # "idle" => \A n \in wk[w].applied : <<wk[w].op, n>> \in puts
  BY DEF TypeOK, AppliedPut
<1>1. puts \subseteq puts'
  BY PutsMove
<1>2. SUFFICES ASSUME ~(wk'[w].op = wk[w].op /\ wk'[w].applied = wk[w].applied /\ wk[w].pc # "idle")
               PROVE  \A n \in wk'[w].applied : <<wk'[w].op, n>> \in puts'
  BY <1>0, <1>1
<1>a. ASSUME NEW l, Go(w, l) PROVE wk'[w] = l
  BY <1>0, <1>a DEF Go
<1>b. ASSUME NEW l, Go(w, l), wk[w].pc # "idle", l.op = wk[w].op, l.applied = wk[w].applied PROVE FALSE
  BY <1>a, <1>b, <1>2
<1>c. IdleWorker.pc = "idle" /\ Failed(wk[w]).op = wk[w].op /\ Failed(wk[w]).applied = wk[w].applied
  BY <1>0, IdleWorkerType, FailedType
<1>3. ASSUME NEW o \in Op, PollQueue(w, o) \/ PollTarget(w, o) \/ PollTransfer(w, o)
      PROVE  wk'[w].applied = {}
  BY <1>3, <1>a DEF PollQueue, PollTarget, PollTransfer, IdleWorker
<1>4. CASE StaleClaimReview(w)
  BY <1>4, <1>2 DEF StaleClaimReview
<1>5. CASE LoginFails(w) \/ Refused(w) \/ Finish(w) \/ Crash(w)
  BY <1>5, <1>a, <1>c DEF LoginFails, Refused, Finish, Crash, Stop
<1>6. CASE ObserveFails(w) \/ RecordFails(w) \/ FinishFails(w)
  BY <1>6, <1>a, <1>b, <1>c DEF ObserveFails, RecordFails, FinishFails, Stop
<1>7. CASE Acquire(w)
  BY <1>7, <1>2, AcquireFacts DEF Acquire
<1>8. CASE LoadOperation(w)
  <2>1. [wk[w] EXCEPT !.pc = "observe"].op = wk[w].op /\ [wk[w] EXCEPT !.pc = "observe"].applied = wk[w].applied
    BY <1>0 DEF WorkerState
  <2>. QED
    BY <1>8, <2>1, <1>b, <1>c DEF LoadOperation
<1>9. CASE FirstObserve(w) \/ Reobserve(w)
  <2>. DEFINE l == [wk[w] EXCEPT !.seen = Snapshot(wk[w].op)]
  <2>1. wk[w].pc # "idle" /\ l \in WorkerState /\ l.op = wk[w].op /\ l.op \in Op /\ l.applied = wk[w].applied
    BY <1>9, <1>0, SnapshotType DEF FirstObserve, Reobserve, WorkerState
  <2>2. \A pc : [l EXCEPT !.pc = pc].op = l.op /\ [l EXCEPT !.pc = pc].applied = l.applied
    BY <2>1 DEF WorkerState
  <2>3. (\E pc : Go(w, [l EXCEPT !.pc = pc])) \/ Go(w, EnterClosed(l)) \/ Go(w, EnterOpen(l))
    BY <1>9 DEF FirstObserve, Reobserve
  <2>. HIDE DEF l
  <2>. QED
    BY <2>1, <2>2, <2>3, <1>b, EnterOpenType, EnterClosedType
<1>10. CASE RecordPreflight(w)
  <2>1. wk[w].pc # "idle" /\ (Go(w, EnterClosed(wk[w])) \/ Go(w, Failed(wk[w])))
    BY <1>10 DEF RecordPreflight
  <2>. QED
    BY <2>1, <1>0, <1>b, <1>c, EnterClosedType
<1>11. ASSUME NEW n \in Night, Put(w, n)
       PROVE  \A k \in wk'[w].applied : <<wk'[w].op, k>> \in puts'
  <2>. DEFINE m == [wk[w] EXCEPT !.todo = @ \ {n},
                      !.applied = IF wk[w].phase = "closed" THEN @ \cup {n} ELSE @,
                      !.pc = IF wk[w].todo = {n} THEN "reobserve" ELSE "write"]
  <2>1. m.op = wk[w].op /\ m.applied \subseteq wk[w].applied \cup {n}
    BY <1>0 DEF WorkerState
  <2>2. wk'[w] = m /\ puts' = puts \cup {<<wk[w].op, n>>} /\ wk[w].pc # "idle"
    BY <1>11, <1>a DEF Put
  <2>. HIDE DEF m
  <2>. QED
    BY <2>1, <2>2, <1>0
<1>12. ASSUME NEW n \in Night, PutUnknown(w, n) PROVE FALSE
  <2>. DEFINE m == [wk[w] EXCEPT !.todo = {}, !.unknown = TRUE, !.pc = "reobserve"]
  <2>1. m.op = wk[w].op /\ m.applied = wk[w].applied
    BY <1>0 DEF WorkerState
  <2>2. Go(w, m) /\ wk[w].pc # "idle"
    BY <1>12 DEF PutUnknown
  <2>. HIDE DEF m
  <2>. QED
    BY <2>1, <2>2, <1>b
<1>13. CASE Record(w)
  <2>. DEFINE m == [wk[w] EXCEPT !.pc = "finish", !.verified = (opState'[wk[w].op] = "sync_verified")]
  <2>1. m.op = wk[w].op /\ m.applied = wk[w].applied
    BY <1>0 DEF WorkerState
  <2>2. (Go(w, m) \/ Go(w, Failed(wk[w]))) /\ wk[w].pc # "idle"
    BY <1>13 DEF Record
  <2>. HIDE DEF m
  <2>. QED
    BY <2>1, <2>2, <1>b, <1>c
<1>. QED
  BY <1>3, <1>4, <1>5, <1>6, <1>7, <1>8, <1>9, <1>10, <1>11, <1>12, <1>13 DEF WorkerStep

LEMMA AppliedStep == TypeOK /\ AppliedPut /\ [Next]_vars => AppliedPut'
<1>. SUFFICES ASSUME TypeOK, AppliedPut, [Next]_vars PROVE AppliedPut'
  OBVIOUS
<1>1. CASE UNCHANGED vars
  BY <1>1 DEF vars, AppliedPut
<1>2. CASE Next
  <2>1. SUFFICES ASSUME NEW w \in Worker, wk'[w].pc # "idle"
                 PROVE  \A n \in wk'[w].applied : <<wk'[w].op, n>> \in puts'
    BY DEF AppliedPut
  <2>2. puts \subseteq puts'
    BY <1>2, PutsMove
  <2>. QED
    BY <1>2, <2>1, <2>2, OnlyActorMoves, ActorApplied DEF AppliedPut
<1>. QED
  BY <1>1, <1>2

\* Only a recorded readback verifies an operation.
LEMMA OnlyReadbackVerifies ==
  ASSUME TypeOK, Next, NEW o \in Op, opState[o] # "sync_verified", opState'[o] = "sync_verified"
  PROVE  \/ \E w \in Worker : Record(w) /\ wk[w].op = o /\ Accepted(o, wk[w].seen, wk[w].applied)
         \/ \E r \in Operator : RecoverRecord(r) /\ rd[r].op = o /\ Accepted(o, rd[r].seen, {})
<1>. USE DEF gateVars, opVars, orderVars
<1>0. opState \in [Op -> OpState]
  BY DEF TypeOK
<1>a. ASSUME NEW p, SettleAsReview(p) PROVE FALSE
  BY <1>a, <1>0 DEF SettleAsReview
<1>b. ASSUME NEW p, Enqueue(p) PROVE FALSE
  BY <1>b, <1>0 DEF Enqueue
<1>c. CASE UNCHANGED opState
  BY <1>c
<1>d. ASSUME NEW p, NEW seen, NEW applied, RecordReadback(p, seen, applied)
      PROVE  p = o /\ Accepted(o, seen, applied)
  BY <1>d, <1>0 DEF RecordReadback
<1>1. CASE Service
  <2>1. ASSUME NEW b \in Booking, CancelUnsettled(b) PROVE FALSE
    BY <2>1, <1>0 DEF CancelUnsettled
  <2>. QED
    BY <1>1, <1>b, <1>c, <2>1 DEF Service, CreateBooking, TakeNights, RequestClose, MoveBooking,
       CancelBooking, RequestRoomControl
<1>2. ASSUME NEW w \in Worker, WorkerStep(w) \/ Crash(w), ~Record(w) PROVE FALSE
  <2>1. CASE StaleClaimReview(w) \/ LoginFails(w) \/ RecordPreflight(w) \/ Finish(w)
    BY <2>1, <1>a, <1>c DEF StaleClaimReview, LoginFails, RecordPreflight, Finish
  <2>. QED
    BY <1>2, <1>c, <2>1 DEF WorkerStep, Crash, PollQueue, PollTarget, PollTransfer, Acquire,
       Refused, LoadOperation, FirstObserve, ObserveFails, Put, PutUnknown, Reobserve, RecordFails,
       FinishFails
<1>3. ASSUME NEW w \in Worker, Record(w)
      PROVE  wk[w].op = o /\ Accepted(o, wk[w].seen, wk[w].applied)
  BY <1>3, <1>d DEF Record
<1>4. CASE Channel
  BY <1>4, <1>c DEF Channel, OutsideChange, Land
<1>5. ASSUME NEW r \in Operator, OperatorStep(r)
      PROVE  RecoverRecord(r) /\ rd[r].op = o /\ Accepted(o, rd[r].seen, {})
  <2>1. CASE RecoverMark(r)
    BY <2>1, <1>a, <1>c DEF RecoverMark
  <2>2. CASE RecoverRecord(r)
    BY <2>2, <1>d DEF RecoverRecord
  <2>. QED
    BY <1>5, <1>c, <2>1, <2>2 DEF OperatorStep, StartRecover, RecoverLoad, RecoverObserve,
       RecoverClear, StartRelease, ReleaseObserve, Release, OperatorStops
<1>. QED
  BY <1>1, <1>2, <1>3, <1>4, <1>5 DEF Next

\* A close that only the service may claim (an OS or a LINE booking's) is verified only
\* after the service itself PUT every one of its nights, whoever runs the readback:
\* recordChannelReadback wants the worker's own evidence, and a recovery has none.
THEOREM OwnCloseProvenAlways == Spec => OwnCloseProven
<1>. DEFINE Proven == \A o \in Op :
       OwnCloseRequired(o) /\ opState[o] # "sync_verified" /\ opState'[o] = "sync_verified" =>
          \A n \in ClosedCells(o) : <<o, n>> \in puts
<1>1. Init => TypeOK /\ AppliedPut
  BY InitType DEF Init, AppliedPut, IdleWorker
<1>2. TypeOK /\ AppliedPut /\ [Next]_vars => TypeOK' /\ AppliedPut'
  BY StepType, AppliedStep
<1>3. TypeOK /\ AppliedPut /\ [Next]_vars => [Proven]_vars
  <2>. SUFFICES ASSUME TypeOK, AppliedPut, Next, NEW o \in Op, OwnCloseRequired(o),
                       opState[o] # "sync_verified", opState'[o] = "sync_verified"
                PROVE  \A n \in ClosedCells(o) : <<o, n>> \in puts
    OBVIOUS
  <2>1. ASSUME NEW w \in Worker, Record(w), wk[w].op = o, Accepted(o, wk[w].seen, wk[w].applied)
        PROVE  \A n \in ClosedCells(o) : <<o, n>> \in puts
    BY <2>1 DEF Record, Accepted, AppliedPut
  <2>2. ASSUME NEW r \in Operator, Accepted(o, rd[r].seen, {})
        PROVE  \A n \in ClosedCells(o) : <<o, n>> \in puts
    BY <2>2 DEF Accepted
  <2>. QED
    BY <2>1, <2>2, OnlyReadbackVerifies
<1>. QED
  BY <1>1, <1>2, <1>3, PTL DEF Spec, OwnCloseProven

(***************************************************************************)
(* Bookings and their operations.                                          *)
(***************************************************************************)
\* A booking that waits for the channel waits for its current operation, and an
\* operation still open is the one its booking waits for.
WaitsForOpen == \A b \in Booking : sync[b] \in {"pending", "review_required"} =>
  current[b] \in Op /\ Open(current[b]) /\ Job[current[b]].booking = b
OpenAwaited == \A o \in Op : Open(o) /\ ~ProviderOnly(o) =>
  /\ current[Job[o].booking] = o
  /\ sync[Job[o].booking] \in {"pending", "review_required"}

\* Two bookings never hold one night; each held night was closed by a booking's
\* operation; the nights of an open operation are held by nobody but its own booking.
StaysApart == \A b, c \in Booking : b # c => stays[b] \cap stays[c] = {}
StaysClosed == \A b \in Booking : \A n \in stays[b] :
  \E o \in Op : ~ProviderOnly(o) /\ n \in ClosedCells(o)
FencesKept == \A o \in Op : Open(o) /\ ~ProviderOnly(o) =>
  \A b \in Booking : \A n \in Cells(o) \cap stays[b] : b = Job[o].booking /\ n \in ClosedCells(o)

BookingInv == WaitsForOpen /\ OpenAwaited /\ StaysApart /\ StaysClosed /\ FencesKept

\* The two ways a worker or an operator changes what the service knows of an operation.
Reviews(o) ==
  /\ Open(o) /\ opState' = [opState EXCEPT ![o] = "review_required"]
  /\ \/ UNCHANGED sync
     \/ Job[o].booking # NoBooking /\ sync' = [sync EXCEPT ![Job[o].booking] = "review_required"]
  /\ UNCHANGED <<stays, current>>
Verifies(o) ==
  /\ Open(o) /\ opState' = [opState EXCEPT ![o] = "sync_verified"]
  /\ SetSync(Job[o].booking, "verified")
  /\ current' = current \/ current' = [current EXCEPT ![Job[o].booking] = NoOp]
  /\ UNCHANGED stays

LEMMA SettleReviews == ASSUME NEW o \in Op, Open(o), SettleAsReview(o), UNCHANGED <<stays, current>>
                       PROVE  Reviews(o)
BY DEF SettleAsReview, SetSync, Reviews

LEMMA ReadbackMoves ==
  ASSUME NEW o \in Op, opState[o] \in OpState, opState[o] # "absent", UNCHANGED stays,
         NEW seen, NEW applied, RecordReadback(o, seen, applied)
  PROVE  UNCHANGED <<opState, stays, current, sync>> \/ Reviews(o) \/ Verifies(o)
<1>1. CASE opState[o] = "sync_verified"
  BY <1>1 DEF RecordReadback
<1>2. CASE opState[o] # "sync_verified"
  <2>1. Open(o)
    BY <1>2 DEF Open, OpState
  <2>2. CASE Accepted(o, seen, applied)
    BY <1>2, <2>1, <2>2 DEF RecordReadback, Verifies
  <2>3. CASE ~Accepted(o, seen, applied)
    BY <1>2, <2>1, <2>3 DEF RecordReadback, Reviews, SetSync
  <2>. QED
    BY <2>2, <2>3
<1>. QED
  BY <1>1, <1>2

LEMMA OrderMoves ==
  ASSUME WriterInv, Next
  PROVE  \/ UNCHANGED <<opState, stays, current, sync>>
         \/ Service
         \/ \E o \in Op : Reviews(o) \/ Verifies(o)
<1>. USE DEF gateVars, opVars, orderVars
<1>0. /\ TypeOK /\ opState \in [Op -> OpState]
      /\ \A o \in Op : opState[o] = "sync_pending" => Open(o)
      /\ claim # NoClaim => claim.op \in Op
  BY DEF WriterInv, TypeOK, Open, Claim
<1>1. ASSUME NEW w \in Worker, WorkerStep(w) \/ Crash(w)
      PROVE  \/ UNCHANGED <<opState, stays, current, sync>>
             \/ \E o \in Op : Reviews(o) \/ Verifies(o)
  <2>0. wk[w].pc # "idle" => wk[w].op \in Op
    BY <1>0 DEF TypeOK
  <2>1. CASE StaleClaimReview(w)
    BY <2>1, <1>0, SettleReviews DEF StaleClaimReview
  <2>2. CASE LoginFails(w)
    BY <2>2, <2>0, <1>0, SettleReviews DEF LoginFails, Dispatchable
  <2>3. CASE RecordPreflight(w)
    BY <2>3, <2>0, <1>0, SettleReviews DEF RecordPreflight
  <2>4. CASE Finish(w)
    BY <2>4, <2>0, <1>0, SettleReviews DEF Finish
  <2>5. CASE Record(w)
    <3>1. Known(wk[w].op)
      BY <2>5 DEF Record, WriterInv, OneWriter, ClaimKnown, Busy, Dispatching, WorkerPc, HoldsClaim, ClaimActive
    <3>2. wk[w].op \in Op /\ RecordReadback(wk[w].op, wk[w].seen, wk[w].applied) /\ UNCHANGED stays
      BY <2>5, <2>0 DEF Record
    <3>. QED
      BY <3>1, <3>2, <1>0, ReadbackMoves DEF Known
  <2>6. CASE UNCHANGED <<opState, stays, current, sync>>
    BY <2>6
  <2>. QED
    BY <1>1, <2>1, <2>2, <2>3, <2>4, <2>5, <2>6 DEF WorkerStep, Crash, PollQueue, PollTarget, PollTransfer, Acquire,
       Refused, LoadOperation, FirstObserve, ObserveFails, Put, PutUnknown, Reobserve, RecordFails,
       FinishFails
<1>2. CASE Channel
  BY <1>2 DEF Channel, OutsideChange, Land
<1>3. ASSUME NEW r \in Operator, OperatorStep(r)
      PROVE  \/ UNCHANGED <<opState, stays, current, sync>>
             \/ \E o \in Op : Reviews(o) \/ Verifies(o)
  <2>0. rd[r].pc # "idle" => rd[r].op \in Op
    BY <1>0 DEF TypeOK
  <2>1. CASE RecoverMark(r)
    BY <2>1, <2>0, SettleReviews DEF RecoverMark
  <2>2. CASE RecoverRecord(r)
    <3>1. Known(rd[r].op)
      BY <2>2 DEF RecoverRecord, WriterInv, OperatorsKnown
    <3>2. rd[r].op \in Op /\ RecordReadback(rd[r].op, rd[r].seen, {}) /\ UNCHANGED stays
      BY <2>2, <2>0 DEF RecoverRecord
    <3>. QED
      BY <3>1, <3>2, <1>0, ReadbackMoves DEF Known
  <2>3. CASE UNCHANGED <<opState, stays, current, sync>>
    BY <2>3
  <2>. QED
    BY <1>3, <2>1, <2>2, <2>3 DEF OperatorStep, StartRecover, RecoverLoad, RecoverObserve,
       RecoverClear, StartRelease, ReleaseObserve, Release, OperatorStops
<1>. QED
  BY <1>1, <1>2, <1>3 DEF Next

LEMMA BookingInit == Init => BookingInv
BY DEF Init, BookingInv, WaitsForOpen, OpenAwaited, StaysApart, StaysClosed, FencesKept, Open

\* A worker or an operator that settles an operation keeps all of it.
LEMMA SettledBooking ==
  ASSUME TypeOK, BookingInv, NEW o \in Op, Reviews(o) \/ Verifies(o)
  PROVE  BookingInv' /\ UNCHANGED stays /\ \A p \in Op : Open(p)' => Open(p)
<1>. DEFINE b == Job[o].booking
<1>0. /\ opState \in [Op -> OpState] /\ sync \in [Booking -> SyncState]
      /\ current \in [Booking -> Op \cup {NoOp}] /\ NoOp \notin Op /\ NoBooking \notin Booking
      /\ b \in Booking \cup {NoBooking} /\ (b = NoBooking <=> ProviderOnly(o))
  BY JobAssumption, NameAssumption DEF TypeOK
<1>1. UNCHANGED stays /\ Open(o) /\ (b # NoBooking => current[b] = o /\ sync[b] \in {"pending", "review_required"})
  BY <1>0 DEF Reviews, Verifies, BookingInv, OpenAwaited
<1>2. \A p \in Op : p # o => opState'[p] = opState[p]
  BY <1>0 DEF Reviews, Verifies
<1>3. \A c \in Booking : c # b => sync'[c] = sync[c] /\ current'[c] = current[c]
  BY <1>0 DEF Reviews, Verifies, SetSync
<1>4. \A p \in Op : Open(p)' => Open(p)
  BY <1>1, <1>2 DEF Open
<1>5. /\ Reviews(o) => /\ opState'[o] = "review_required" /\ UNCHANGED current
                       /\ b # NoBooking => sync'[b] \in {"pending", "review_required"}
      /\ Verifies(o) => /\ opState'[o] = "sync_verified"
                        /\ b # NoBooking => sync'[b] = "verified"
  BY <1>0, <1>1 DEF Reviews, Verifies, SetSync
<1>. HIDE DEF b
<1>6. WaitsForOpen'
  <2>1. SUFFICES ASSUME NEW c \in Booking, sync'[c] \in {"pending", "review_required"}
                 PROVE  current'[c] \in Op /\ Open(current[c])' /\ Job[current'[c]].booking = c
    BY DEF WaitsForOpen
  <2>2. CASE c # b
    <3>1. /\ current'[c] = current[c] /\ current[c] \in Op /\ Open(current[c])
          /\ Job[current[c]].booking = c /\ current[c] # o
      BY <1>3, <2>1, <2>2 DEF BookingInv, WaitsForOpen, b
    <3>. QED
      BY <1>2, <3>1 DEF Open
  <2>3. CASE c = b
    <3>1. Reviews(o)
      BY <1>0, <1>5, <2>1, <2>3
    <3>. QED
      BY <1>0, <1>1, <1>5, <2>3, <3>1 DEF Open, b
  <2>. QED
    BY <2>2, <2>3
<1>7. OpenAwaited'
  <2>1. SUFFICES ASSUME NEW p \in Op, Open(p)', ~ProviderOnly(p)
                 PROVE  /\ current'[Job[p].booking] = p
                        /\ sync'[Job[p].booking] \in {"pending", "review_required"}
    BY DEF OpenAwaited, ProviderOnly
  <2>2. /\ current[Job[p].booking] = p /\ sync[Job[p].booking] \in {"pending", "review_required"}
        /\ Job[p].booking \in Booking
    BY <1>4, <2>1, JobAssumption DEF BookingInv, OpenAwaited, ProviderOnly
  <2>3. CASE p = o
    BY <1>5, <2>1, <2>2, <2>3, <1>0 DEF b, Open
  <2>4. CASE p # o
    BY <1>1, <1>3, <2>2, <2>4, <1>0
  <2>. QED
    BY <2>3, <2>4
<1>8. FencesKept' /\ StaysApart' /\ StaysClosed'
  BY <1>1, <1>4 DEF BookingInv, FencesKept, StaysApart, StaysClosed, ProviderOnly, Cells, ClosedCells, OpenCells
<1>. QED
  BY <1>1, <1>4, <1>6, <1>7, <1>8 DEF BookingInv

\* What admission leaves: nobody else holds these nights, and no open operation fences them.
LEMMA NoConflict ==
  ASSUME NEW b \in Booking, NEW N, ~HasConflict(N, b, NoOp)
  PROVE  /\ \A c \in Booking : c # b => stays[c] \cap N = {}
         /\ \A p \in Op : Open(p) /\ ~ProviderOnly(p) => Cells(p) \cap N = {}
BY NameAssumption DEF HasConflict, Fence

\* A booking that takes the nights N and enqueues the operation that makes it so.
LEMMA EnqueuedBooking ==
  ASSUME TypeOK, BookingInv, NEW o \in Op, ~ProviderOnly(o), Enqueue(o), NEW N \in SUBSET Night,
         sync[Job[o].booking] \notin {"pending", "review_required"},
         SetSync(Job[o].booking, "pending"),
         current' = [current EXCEPT ![Job[o].booking] = o],
         stays' = [stays EXCEPT ![Job[o].booking] = N],
         \A c \in Booking : c # Job[o].booking => stays[c] \cap N = {},
         \A p \in Op : Open(p) /\ ~ProviderOnly(p) => Cells(p) \cap N = {},
         N \subseteq stays[Job[o].booking] \cup ClosedCells(o),
         Cells(o) \subseteq stays[Job[o].booking] \cup N, OpenCells(o) \cap N = {}
  PROVE  BookingInv'
<1>. DEFINE b == Job[o].booking
<1>0. /\ opState \in [Op -> OpState] /\ sync \in [Booking -> SyncState]
      /\ current \in [Booking -> Op \cup {NoOp}] /\ stays \in [Booking -> SUBSET Night]
      /\ b \in Booking /\ NoBooking \notin Booking
  BY JobAssumption, NameAssumption DEF TypeOK, ProviderOnly
<1>1. /\ opState[o] = "absent" /\ opState'[o] = "sync_pending"
      /\ \A p \in Op : p # o => opState'[p] = opState[p]
  BY <1>0 DEF Enqueue
<1>2. /\ sync'[b] = "pending" /\ current'[b] = o /\ stays'[b] = N
      /\ \A c \in Booking : c # b => sync'[c] = sync[c] /\ current'[c] = current[c] /\ stays'[c] = stays[c]
  BY <1>0 DEF SetSync
<1>3. ~Open(o) /\ Open(o)' /\ \A p \in Op : p # o => (Open(p)' <=> Open(p))
  BY <1>1 DEF Open
<1>4. \A p \in Op : Open(p) /\ ~ProviderOnly(p) =>
        /\ Job[p].booking \in Booking /\ Job[p].booking # b
        /\ current[Job[p].booking] = p /\ sync[Job[p].booking] \in {"pending", "review_required"}
  BY JobAssumption DEF BookingInv, OpenAwaited, ProviderOnly
<1>5. \A c \in Booking : c # b => stays[c] \cap N = {} /\ stays[c] \cap Cells(o) = {}
  BY <1>0 DEF BookingInv, StaysApart
<1>. HIDE DEF b
<1>6. WaitsForOpen'
  BY <1>0, <1>2, <1>3 DEF BookingInv, WaitsForOpen, b
<1>7. OpenAwaited'
  BY <1>2, <1>3, <1>4 DEF OpenAwaited, ProviderOnly, b
<1>8. StaysApart'
  BY <1>2, <1>5 DEF BookingInv, StaysApart
<1>9. StaysClosed'
  <2>1. \A n \in N : \E p \in Op : ~ProviderOnly(p) /\ n \in ClosedCells(p)
    BY <1>0 DEF BookingInv, StaysClosed, b
  <2>. QED
    BY <1>2, <2>1 DEF BookingInv, StaysClosed, ProviderOnly, ClosedCells
<1>10. FencesKept'
  <2>1. SUFFICES ASSUME NEW p \in Op, Open(p)', ~ProviderOnly(p), NEW c \in Booking,
                        NEW n \in Cells(p) \cap stays'[c]
                 PROVE  c = Job[p].booking /\ n \in ClosedCells(p)
    BY DEF FencesKept, ProviderOnly, Cells, ClosedCells, OpenCells
  <2>2. CASE p = o
    <3>1. c = b
      BY <1>2, <1>5, <2>1, <2>2
    <3>. QED
      BY <1>2, <2>1, <2>2, <3>1, CellsAreNights DEF b
  <2>3. CASE p # o
    <3>1. Open(p) /\ c # b
      BY <1>2, <1>3, <2>1, <2>3
    <3>. QED
      BY <1>2, <2>1, <3>1 DEF BookingInv, FencesKept
  <2>. QED
    BY <2>2, <2>3
<1>. QED
  BY <1>6, <1>7, <1>8, <1>9, <1>10 DEF BookingInv

LEMMA ServiceBooking == ASSUME TypeOK, BookingInv, Service PROVE BookingInv'
<1>. USE DEF Bump
<1>0. /\ opState \in [Op -> OpState] /\ sync \in [Booking -> SyncState]
      /\ current \in [Booking -> Op \cup {NoOp}] /\ stays \in [Booking -> SUBSET Night]
  BY DEF TypeOK
<1>a. ASSUME NEW o \in Op, Job[o].kind # "room_control"
      PROVE  ~ProviderOnly(o) /\ Job[o].booking \in Booking
  BY <1>a, JobAssumption DEF ProviderOnly
<1>b. ASSUME NEW o \in Op, Job[o].kind \in {"create", "manual_close", "line_close"}
      PROVE  OpenCells(o) = {} /\ Cells(o) = ClosedCells(o) /\ Cells(o) \subseteq Night
  BY <1>b, JobAssumption, CellsAreNights
<1>1. ASSUME NEW o \in Op, CreateBooking(o) PROVE BookingInv'
  <2>1. /\ ~ProviderOnly(o) /\ Job[o].booking \in Booking
        /\ OpenCells(o) = {} /\ Cells(o) = ClosedCells(o) /\ Cells(o) \subseteq Night
    BY <1>1, <1>a, <1>b DEF CreateBooking
  <2>2. /\ sync[Job[o].booking] = "none" /\ Enqueue(o) /\ SetSync(Job[o].booking, "pending")
        /\ current' = [current EXCEPT ![Job[o].booking] = o]
        /\ stays' = [stays EXCEPT ![Job[o].booking] = Cells(o)]
    BY <1>1 DEF CreateBooking
  <2>3. /\ \A c \in Booking : c # Job[o].booking => stays[c] \cap Cells(o) = {}
        /\ \A p \in Op : Open(p) /\ ~ProviderOnly(p) => Cells(p) \cap Cells(o) = {}
    BY <1>1, <2>1, NoConflict DEF CreateBooking
  <2>4. Cells(o) \in SUBSET Night
    BY <2>1
  <2>. QED
    BY <2>1, <2>2, <2>3, <2>4, EnqueuedBooking
<1>2. ASSUME NEW o \in Op, TakeNights(o) PROVE BookingInv'
  <2>. DEFINE b == Job[o].booking
  <2>1. /\ ~ProviderOnly(o) /\ b \in Booking
        /\ OpenCells(o) = {} /\ Cells(o) = ClosedCells(o) /\ Cells(o) \subseteq Night
    BY <1>2, <1>a, <1>b DEF TakeNights
  <2>2. /\ sync[b] = "none" /\ sync'[b] \notin {"pending", "review_required"} /\ stays'[b] = Cells(o)
        /\ \A c \in Booking : c # b => sync'[c] = sync[c] /\ stays'[c] = stays[c]
        /\ UNCHANGED <<opState, current>>
    BY <1>2, <2>1, <1>0 DEF TakeNights, SetSync
  <2>3. /\ \A c \in Booking : c # b => stays[c] \cap Cells(o) = {}
        /\ \A p \in Op : Open(p) /\ ~ProviderOnly(p) => Cells(p) \cap Cells(o) = {}
    BY <1>2, <2>1, NoConflict DEF TakeNights
  <2>4. \A p \in Op : Open(p) /\ ~ProviderOnly(p) => Job[p].booking # b
    BY <2>2 DEF BookingInv, OpenAwaited
  <2>. HIDE DEF b
  <2>5. WaitsForOpen' /\ OpenAwaited'
    BY <2>1, <2>2, <2>4, JobAssumption DEF BookingInv, WaitsForOpen, OpenAwaited, Open, ProviderOnly
  <2>6. StaysApart'
    BY <2>2, <2>3 DEF BookingInv, StaysApart
  <2>7. StaysClosed'
    BY <2>1, <2>2 DEF BookingInv, StaysClosed, ProviderOnly, ClosedCells
  <2>8. FencesKept'
    BY <2>2, <2>3 DEF BookingInv, FencesKept, Open, ProviderOnly, Cells, ClosedCells, OpenCells
  <2>. QED
    BY <2>5, <2>6, <2>7, <2>8 DEF BookingInv
<1>3. ASSUME NEW o \in Op, RequestClose(o) PROVE BookingInv'
  <2>1. /\ ~ProviderOnly(o) /\ Job[o].booking \in Booking
        /\ OpenCells(o) = {} /\ Cells(o) = ClosedCells(o) /\ Cells(o) \subseteq Night
    BY <1>3, <1>a, <1>b DEF RequestClose
  <2>2. /\ sync[Job[o].booking] \in {"awaiting_manual_sync", "action_required"}
        /\ Enqueue(o) /\ SetSync(Job[o].booking, "pending")
        /\ current' = [current EXCEPT ![Job[o].booking] = o]
        /\ stays' = [stays EXCEPT ![Job[o].booking] = Cells(o)]
    BY <1>3, <2>1, <1>0 DEF RequestClose
  <2>3. /\ \A c \in Booking : c # Job[o].booking => stays[c] \cap Cells(o) = {}
        /\ \A p \in Op : Open(p) /\ ~ProviderOnly(p) => Cells(p) \cap Cells(o) = {}
    BY <1>3, <2>1, NoConflict DEF RequestClose
  <2>4. Cells(o) \in SUBSET Night
    BY <2>1
  <2>. QED
    BY <2>1, <2>2, <2>3, <2>4, EnqueuedBooking
<1>4. ASSUME NEW o \in Op, MoveBooking(o) PROVE BookingInv'
  <2>. DEFINE N == (stays[Job[o].booking] \cup ClosedCells(o)) \ OpenCells(o)
  <2>1. /\ ~ProviderOnly(o) /\ Job[o].booking \in Booking /\ N \in SUBSET Night
        /\ Cells(o) = ClosedCells(o) \cup OpenCells(o) /\ OpenCells(o) \cap ClosedCells(o) = {}
    BY <1>4, <1>a, <1>0, CellsAreNights DEF MoveBooking, OpenCells, ClosedCells
  <2>2. stays' = [stays EXCEPT ![Job[o].booking] = N] /\ ~HasConflict(N, Job[o].booking, NoOp)
    BY <1>4, <2>1, <1>0 DEF MoveBooking
  <2>3. Cells(o) \subseteq stays[Job[o].booking] \cup N /\ N \subseteq stays[Job[o].booking] \cup ClosedCells(o)
        /\ OpenCells(o) \cap N = {}
    BY <1>4, <2>1 DEF MoveBooking
  <2>. HIDE DEF N
  <2>. QED
    BY <1>4, <2>1, <2>2, <2>3, NoConflict, EnqueuedBooking DEF MoveBooking
<1>5. ASSUME NEW o \in Op, CancelBooking(o) PROVE BookingInv'
  <2>1. ~ProviderOnly(o) /\ Job[o].booking \in Booking
    BY <1>5, <1>a DEF CancelBooking
  <2>2. /\ sync[Job[o].booking] \in {"verified", "action_required"}
        /\ Enqueue(o) /\ SetSync(Job[o].booking, "pending")
        /\ current' = [current EXCEPT ![Job[o].booking] = o]
        /\ stays' = [stays EXCEPT ![Job[o].booking] = {}]
        /\ Cells(o) \subseteq stays[Job[o].booking]
    BY <1>5 DEF CancelBooking
  <2>. DEFINE N == {}
  <2>3. /\ N \in SUBSET Night /\ stays' = [stays EXCEPT ![Job[o].booking] = N]
        /\ N \subseteq stays[Job[o].booking] \cup ClosedCells(o) /\ OpenCells(o) \cap N = {}
        /\ Cells(o) \subseteq stays[Job[o].booking] \cup N
        /\ \A c \in Booking : stays[c] \cap N = {}
        /\ \A p \in Op : Cells(p) \cap N = {}
    BY <2>2
  <2>4. sync[Job[o].booking] \notin {"pending", "review_required"}
    BY <2>2
  <2>. HIDE DEF N
  <2>. QED
    BY <2>1, <2>2, <2>3, <2>4, EnqueuedBooking
<1>6. ASSUME NEW o \in Op, RequestRoomControl(o) PROVE BookingInv'
  <2>1. /\ ProviderOnly(o) /\ UNCHANGED <<stays, current, sync>>
        /\ opState[o] = "absent" /\ \A p \in Op : p # o => opState'[p] = opState[p]
    BY <1>6, <1>0 DEF RequestRoomControl, Enqueue
  <2>2. \A p \in Op : ~ProviderOnly(p) => (Open(p)' <=> Open(p))
    BY <2>1 DEF Open
  <2>3. \A b \in Booking : current[b] \in Op /\ Open(current[b]) => Open(current[b])'
    BY <2>1 DEF Open
  <2>. QED
    BY <2>1, <2>2, <2>3 DEF BookingInv, WaitsForOpen, OpenAwaited, StaysApart, StaysClosed, FencesKept,
       ProviderOnly, Cells, ClosedCells, OpenCells
<1>7. ASSUME NEW b \in Booking, CancelUnsettled(b) PROVE BookingInv'
  <2>1. /\ stays'[b] = {} /\ \A c \in Booking : c # b => stays'[c] = stays[c] /\ sync'[c] = sync[c]
        /\ UNCHANGED current /\ b # NoBooking
    BY <1>7, <1>0, NameAssumption DEF CancelUnsettled, SetSync
  <2>2. \/ UNCHANGED opState /\ sync[b] = "awaiting_manual_sync" /\ sync'[b] = "not_required"
        \/ /\ sync[b] \in {"pending", "review_required"} /\ sync'[b] = "review_required"
           /\ opState' = [opState EXCEPT ![current[b]] = "review_required"]
           /\ current[b] \in Op /\ Open(current[b])
    BY <1>7, <2>1, <1>0 DEF CancelUnsettled, SetSync, BookingInv, WaitsForOpen
  <2>3. \A p \in Op : Open(p)' <=> Open(p)
    BY <2>2, <1>0 DEF Open
  <2>4. \A c \in Booking : current[c] \in Op /\ Open(current[c]) => Open(current[c])'
    BY <2>1, <2>3 DEF Open
  <2>5. WaitsForOpen'
    BY <2>1, <2>2, <2>4 DEF BookingInv, WaitsForOpen
  <2>6. OpenAwaited'
    BY <2>1, <2>2, <2>3, JobAssumption DEF BookingInv, OpenAwaited, ProviderOnly
  <2>7. StaysApart' /\ StaysClosed' /\ FencesKept'
    BY <2>1, <2>3 DEF BookingInv, StaysApart, StaysClosed, FencesKept, ProviderOnly, Cells, ClosedCells, OpenCells
  <2>. QED
    BY <2>5, <2>6, <2>7 DEF BookingInv
<1>. QED
  BY <1>1, <1>2, <1>3, <1>4, <1>5, <1>6, <1>7 DEF Service

LEMMA BookingStep == WriterInv /\ BookingInv /\ [Next]_vars => BookingInv'
<1>. SUFFICES ASSUME WriterInv, BookingInv, [Next]_vars PROVE BookingInv'
  OBVIOUS
<1>1. CASE UNCHANGED <<opState, stays, current, sync>>
  BY <1>1 DEF BookingInv, WaitsForOpen, OpenAwaited, StaysApart, StaysClosed, FencesKept, Open,
     ProviderOnly, Cells, ClosedCells, OpenCells
<1>2. CASE UNCHANGED vars
  BY <1>1, <1>2 DEF vars
<1>. QED
  BY <1>1, <1>2, OrderMoves, ServiceBooking, SettledBooking DEF WriterInv

\* A settled operation is never reopened.
LEMMA SettledStays ==
  ASSUME WriterInv, BookingInv, Next, NEW o \in Op, ~Open(o), opState[o] # "absent"
  PROVE  ~Open(o)'
<1>0. TypeOK /\ opState \in [Op -> OpState] /\ opState[o] = "sync_verified"
  BY DEF WriterInv, TypeOK, Open, OpState
<1>1. CASE Service
  <2>1. ASSUME NEW p \in Op, Enqueue(p) PROVE ~Open(o)'
    BY <2>1, <1>0 DEF Enqueue, Open
  <2>2. ASSUME NEW b \in Booking, CancelUnsettled(b) PROVE ~Open(o)'
    BY <2>2, <1>0 DEF CancelUnsettled, Open, BookingInv, WaitsForOpen
  <2>3. ASSUME NEW p \in Op, TakeNights(p) PROVE ~Open(o)'
    BY <2>3 DEF TakeNights, Open
  <2>. QED
    BY <1>1, <2>1, <2>2, <2>3 DEF Service, CreateBooking, RequestClose, MoveBooking, CancelBooking,
       RequestRoomControl
<1>2. CASE UNCHANGED opState
  BY <1>2 DEF Open
<1>. QED
  BY <1>0, <1>1, <1>2, OrderMoves, SettledBooking

(***************************************************************************)
(* What the channel holds, when only the service changes it.               *)
(***************************************************************************)
\* The claim or a review hold covers p.
Guarded(p) == p \in holds \/ (claim # NoClaim /\ claim.op = p)
\* No write of these cells is still under way.
Quiet(o, late) == \A n \in Cells(o), phase \in Wish : <<n, phase>> \notin late
Agrees(o, seen, now) == \A n \in Cells(o) : seen[n] = now[n]
\* A readback that shows the operation done is still true, and stays true.
Confirms(o, seen, now, late) == AllMatch(o, seen) => Quiet(o, late) /\ Agrees(o, seen, now)

PlainStock == stock \in [Night -> {"open", "shut"}]

\* A write still under way would change its night, and belongs to an open operation
\* that the claim or a review hold covers.
LateWrites == \A n \in Night, phase \in Wish : <<n, phase>> \in inflight =>
  /\ stock[n] # Written(phase)
  /\ \E p \in Op : Guarded(p) /\ Open(p) /\ Job[p].wish[n] = phase

\* What local state l of a worker knows of the channel.
SeesFor(l, now, late) ==
  /\ l.pc \in {"claimed", "observe", "preflight", "write"} => Quiet(l.op, late)
  /\ l.pc = "reobserve" /\ ~l.unknown => Quiet(l.op, late)
  /\ l.pc = "preflight" => Agrees(l.op, l.seen, now)
  /\ l.pc = "write" => \A n \in l.todo : now[n] # Written(l.phase)
  /\ l.pc = "write" /\ l.phase = "open" => \A m \in ClosedCells(l.op) : now[m] = "shut"
  /\ l.pc = "record" => Confirms(l.op, l.seen, now, late)
WorkersSee == \A w \in Worker : SeesFor(wk[w], stock, inflight)
WorkersOpen == \A w \in Worker : Busy(w) /\ wk[w].pc # "finish" => Open(wk[w].op)

OnClaim(r) == rd[r].pc # "idle" /\ claim # NoClaim /\ claim.op = rd[r].op
SameHolder == \A r \in Operator : OnClaim(r) => claim.holder = rd[r].holder

\* An operator releases a reviewed close only when nothing of it is under way.
ReleaseInv == \A r \in Operator : OnClaim(r) /\ rd[r].pc \in {"inspect", "release"} =>
  /\ ~ClaimActive /\ ManualInitial(rd[r].op)
  /\ rd[r].pc = "release" => Quiet(rd[r].op, inflight)

\* An operation under recovery stays covered until it is verified.
Recovering(r) == /\ rd[r].pc \in {"load", "mark", "observe", "record"}
                 /\ Open(rd[r].op) /\ ~ManualInitial(rd[r].op)
RecoverInv == \A r \in Operator : Recovering(r) =>
  /\ Guarded(rd[r].op)
  /\ rd[r].pc = "record" => Confirms(rd[r].op, rd[r].seen, stock, inflight)

StockInv == PlainStock /\ LateWrites /\ WorkersSee /\ WorkersOpen /\ SameHolder /\ ReleaseInv /\ RecoverInv
ChannelInv == FreshInv /\ ScopesDisjoint /\ BookingInv /\ StockInv

LEMMA CellWish == ASSUME NEW o \in Op, NEW n
                  PROVE  n \in Cells(o) <=> n \in Night /\ Job[o].wish[n] \in Wish
BY DEF Cells, ClosedCells, OpenCells, Wish

\* Where nobody else writes, a night matches a wish exactly when the wish was written.
LEMMA MatchIsWritten ==
  ASSUME NEW o \in Op, NEW n \in Cells(o), NEW s \in {"open", "shut"}
  PROVE  Matches(o, n, s) <=> s = Written(Job[o].wish[n])
BY CellWish DEF Matches, Written, Wish

LEMMA OneScope ==
  ASSUME ScopesDisjoint, NEW p, NEW o, Guarded(p), Guarded(o), NEW n \in Cells(p) \cap Cells(o)
  PROVE  p = o
BY DEF ScopesDisjoint, Guarded

\* A write still under way on the cells of a covered operation is its own, and unmet.
LEMMA LateIsUnmet ==
  ASSUME PlainStock, LateWrites, ScopesDisjoint, NEW o \in Op, Guarded(o),
         NEW n \in Cells(o), NEW phase \in Wish, <<n, phase>> \in inflight
  PROVE  Job[o].wish[n] = phase /\ stock[n] # Written(phase) /\ ~Matches(o, n, stock[n])
<1>1. n \in Night /\ stock[n] \in {"open", "shut"}
  BY CellWish DEF PlainStock
<1>2. PICK p \in Op : Guarded(p) /\ Job[p].wish[n] = phase
  BY <1>1 DEF LateWrites
<1>3. p = o
  BY <1>1, <1>2, CellWish, OneScope
<1>. QED
  BY <1>1, <1>2, <1>3, MatchIsWritten DEF LateWrites

LEMMA SnapshotConfirms ==
  ASSUME PlainStock, LateWrites, ScopesDisjoint, NEW o \in Op, Guarded(o)
  PROVE  Agrees(o, Snapshot(o), stock) /\ Confirms(o, Snapshot(o), stock, inflight)
<1>1. \A n \in Cells(o) : Snapshot(o)[n] = stock[n]
  BY CellsAreNights DEF Snapshot
<1>. QED
  BY <1>1, LateIsUnmet DEF Agrees, Confirms, AllMatch, Quiet

\* From a true look at quiet cells the worker goes on to writes that change their night,
\* and opens a night only when the ones to close are shut.
LEMMA EnterOpenSees ==
  ASSUME NEW l \in WorkerState, l.op \in Op, PlainStock, Agrees(l.op, l.seen, stock),
         Quiet(l.op, inflight), Unsatisfied(l.op, "closed", l.seen) = {}
  PROVE  SeesFor(EnterOpen(l), stock, inflight)
<1>. DEFINE m == [l EXCEPT !.pc = "write", !.phase = "open", !.todo = Unsatisfied(l.op, "open", l.seen)]
            d == [l EXCEPT !.pc = "record"]
<1>0. \A n \in Cells(l.op) : l.seen[n] = stock[n] /\ stock[n] \in {"open", "shut"}
  BY CellsAreNights DEF Agrees, PlainStock
<1>1. /\ m.pc = "write" /\ m.phase = "open" /\ m.op = l.op
      /\ m.todo = Unsatisfied(l.op, "open", l.seen)
  BY DEF WorkerState
<1>2. d.pc = "record" /\ d.op = l.op /\ d.seen = l.seen
  BY DEF WorkerState
<1>. HIDE DEF m, d
<1>3. \A n \in m.todo : stock[n] # Written("open")
  BY <1>0, <1>1, MatchIsWritten DEF Unsatisfied
<1>4. \A n \in ClosedCells(l.op) : stock[n] = "shut"
  <2>1. SUFFICES ASSUME NEW n \in ClosedCells(l.op) PROVE stock[n] = "shut"
    OBVIOUS
  <2>2. n \in Cells(l.op) /\ Job[l.op].wish[n] = "closed"
    BY DEF Cells, ClosedCells
  <2>3. Matches(l.op, n, stock[n])
    BY <1>0, <2>2 DEF Unsatisfied
  <2>. QED
    BY <1>0, <2>2, <2>3, MatchIsWritten DEF Written
<1>5. SeesFor(m, stock, inflight)
  BY <1>1, <1>3, <1>4 DEF SeesFor
<1>6. SeesFor(d, stock, inflight)
  BY <1>2 DEF SeesFor, Confirms
<1>. QED
  BY <1>5, <1>6 DEF EnterOpen, m, d

LEMMA EnterClosedSees ==
  ASSUME NEW l \in WorkerState, l.op \in Op, PlainStock, Agrees(l.op, l.seen, stock),
         Quiet(l.op, inflight)
  PROVE  SeesFor(EnterClosed(l), stock, inflight)
<1>. DEFINE m == [l EXCEPT !.pc = "write", !.phase = "closed", !.todo = Unsatisfied(l.op, "closed", l.seen)]
<1>0. \A n \in Cells(l.op) : l.seen[n] = stock[n] /\ stock[n] \in {"open", "shut"}
  BY CellsAreNights DEF Agrees, PlainStock
<1>1. /\ m.pc = "write" /\ m.phase = "closed" /\ m.op = l.op
      /\ m.todo = Unsatisfied(l.op, "closed", l.seen)
  BY DEF WorkerState
<1>. HIDE DEF m
<1>2. \A n \in m.todo : stock[n] # Written("closed")
  BY <1>0, <1>1, MatchIsWritten DEF Unsatisfied
<1>3. SeesFor(m, stock, inflight)
  BY <1>1, <1>2 DEF SeesFor
<1>. QED
  BY <1>3, EnterOpenSees DEF EnterClosed, m

(***************************************************************************)
(* How a step moves the channel, the operators and the cover.              *)
(***************************************************************************)
\* A write of worker w on night n, whatever becomes of it.
Writes(w, n) == Put(w, n) \/ PutUnknown(w, n)
LEMMA WriteFacts ==
  ASSUME FreshInv, NEW w \in Worker, NEW n \in Night, Writes(w, n)
  PROVE  /\ wk[w].pc = "write" /\ n \in wk[w].todo /\ wk[w].op \in Op /\ wk[w].phase \in Wish
         /\ Busy(w) /\ claim.op = wk[w].op /\ Guarded(wk[w].op) /\ ClaimActive
         /\ Job[wk[w].op].wish[n] = wk[w].phase /\ n \in Cells(wk[w].op)
         /\ \/ inflight' = inflight
            \/ inflight' = inflight \cup {<<n, wk[w].phase>>} /\ stock' = stock
         /\ \A m \in Night : stock'[m] = stock[m] \/ (m = n /\ stock'[m] = Written(wk[w].phase))
         /\ puts' = puts \cup {<<wk[w].op, n>>}
         /\ UNCHANGED <<gateVars, rd>>
<1>0. TypeOK /\ wk[w] \in WorkerState /\ stock \in [Night -> Stock]
  BY DEF FreshInv, WriterInv, TypeOK
<1>1. wk[w].pc = "write" /\ n \in wk[w].todo /\ Busy(w)
  BY DEF Writes, Put, PutUnknown, Busy, Dispatching, WorkerPc
<1>2. wk[w].op \in Op /\ wk[w].phase \in Wish /\ HoldsClaim(w)
  BY <1>0, <1>1 DEF TypeOK, WorkerState, FreshInv, WriterInv, OneWriter
<1>3. Job[wk[w].op].wish[n] = wk[w].phase
  BY <1>1 DEF FreshInv, Fresh, FreshFor
<1>4. /\ \/ inflight' = inflight
         \/ inflight' = inflight \cup {<<n, wk[w].phase>>} /\ stock' = stock
      /\ \A m \in Night : stock'[m] = stock[m] \/ (m = n /\ stock'[m] = Written(wk[w].phase))
      /\ puts' = puts \cup {<<wk[w].op, n>>} /\ UNCHANGED <<gateVars, rd>>
  BY <1>0 DEF Writes, Put, PutUnknown
<1>. QED
  BY <1>1, <1>2, <1>3, <1>4, CellWish DEF HoldsClaim, ClaimActive, Guarded

LEMMA ChannelMoves ==
  ASSUME Next, "outside" \notin Faults
  PROVE  \/ UNCHANGED <<stock, inflight>>
         \/ \E w \in Worker, n \in Night : Writes(w, n)
         \/ \E n \in Night, phase \in Wish : Land(n, phase)
<1>. USE DEF channelVars
<1>1. CASE Service
  BY <1>1 DEF Service, CreateBooking, TakeNights, RequestClose, MoveBooking,
     CancelBooking, RequestRoomControl, CancelUnsettled, Enqueue
<1>2. ASSUME NEW w \in Worker, WorkerStep(w) \/ Crash(w)
      PROVE  UNCHANGED <<stock, inflight>> \/ \E n \in Night : Writes(w, n)
  BY <1>2 DEF WorkerStep, Crash, PollQueue, PollTarget, PollTransfer, StaleClaimReview, LoginFails,
     Acquire, Refused, LoadOperation, FirstObserve, ObserveFails, RecordPreflight,
     Reobserve, Record, RecordFails, Finish, FinishFails, Writes
<1>3. CASE Channel
  BY <1>3 DEF Channel, OutsideChange
<1>4. ASSUME NEW r \in Operator, OperatorStep(r) PROVE UNCHANGED <<stock, inflight>>
  BY <1>4 DEF OperatorStep, StartRecover, RecoverLoad, RecoverMark, RecoverObserve,
     RecoverRecord, RecoverClear, StartRelease, ReleaseObserve, Release, OperatorStops
<1>. QED
  BY <1>1, <1>2, <1>3, <1>4 DEF Next

LEMMA OnlyOperatorMoves ==
  ASSUME TypeOK, Next, NEW q \in Operator
  PROVE  OperatorStep(q) \/ rd'[q] = rd[q]
<1>0. rd \in [Operator -> OperatorState]
  BY DEF TypeOK
<1>1. CASE Service
  BY <1>1 DEF Service, CreateBooking, TakeNights, RequestClose, MoveBooking,
     CancelBooking, RequestRoomControl, CancelUnsettled, Enqueue
<1>2. ASSUME NEW w \in Worker, WorkerStep(w) \/ Crash(w) PROVE UNCHANGED rd
  BY <1>2 DEF WorkerStep, Crash, PollQueue, PollTarget, PollTransfer, StaleClaimReview, LoginFails,
     Acquire, Refused, LoadOperation, FirstObserve, ObserveFails, RecordPreflight, Put, PutUnknown,
     Reobserve, Record, RecordFails, Finish, FinishFails
<1>3. CASE Channel
  BY <1>3 DEF Channel, OutsideChange, Land
<1>4. ASSUME NEW r \in Operator, OperatorStep(r), r # q PROVE rd'[q] = rd[q]
  <2>1. \E l : Answer(r, l)
    BY <1>4 DEF OperatorStep, StartRecover, RecoverLoad, RecoverMark, RecoverObserve, RecoverRecord,
       RecoverClear, StartRelease, ReleaseObserve, Release, OperatorStops, Abandon
  <2>. QED
    BY <1>0, <1>4, <2>1 DEF Answer
<1>. QED
  BY <1>1, <1>2, <1>3, <1>4 DEF Next

LEMMA OperatorStepFrame ==
  ASSUME NEW r \in Operator, OperatorStep(r)
  PROVE  UNCHANGED <<stock, inflight, puts, wk, holds>>
BY DEF OperatorStep, StartRecover, RecoverLoad, RecoverMark, RecoverObserve, RecoverRecord,
   RecoverClear, StartRelease, ReleaseObserve, Release, OperatorStops, gateVars, channelVars

\* The claim is given up only on a verified operation, or by the release of a close.
LEMMA ClaimFreed ==
  ASSUME WriterInv, Next, claim # NoClaim, claim' = NoClaim
  PROVE  \/ opState[claim.op] = "sync_verified"
         \/ \E r \in Operator : /\ Release(r) /\ rd[r].op = claim.op /\ ManualInitial(claim.op)
<1>. USE DEF gateVars, opVars
<1>0. TypeOK /\ NoClaim \notin Claim /\ claim \in Claim
  BY NameAssumption DEF WriterInv, TypeOK
<1>1. CASE Service
  BY <1>1 DEF Service, CreateBooking, TakeNights, RequestClose, MoveBooking,
     CancelBooking, RequestRoomControl, CancelUnsettled, Enqueue
<1>2. ASSUME NEW w \in Worker, WorkerStep(w) \/ Crash(w) PROVE opState[claim.op] = "sync_verified"
  <2>1. CASE Acquire(w)
    BY <2>1, <1>0, AcquireFacts
  <2>2. CASE Finish(w)
    <3>1. [claim EXCEPT !.state = "review_required", !.settled = TRUE] \in Claim
      BY <1>0 DEF Claim
    <3>. QED
      BY <2>2, <3>1, <1>0 DEF Finish, HasVerified, HoldsClaim
  <2>. QED
    BY <1>2, <2>1, <2>2 DEF WorkerStep, Crash, PollQueue, PollTarget, PollTransfer, StaleClaimReview,
       LoginFails, Refused, LoadOperation, FirstObserve, ObserveFails, RecordPreflight, Put,
       PutUnknown, Reobserve, Record, RecordFails, FinishFails
<1>3. CASE Channel
  BY <1>3 DEF Channel, OutsideChange, Land
<1>4. ASSUME NEW r \in Operator, OperatorStep(r)
      PROVE  \/ opState[claim.op] = "sync_verified"
             \/ Release(r) /\ rd[r].op = claim.op /\ ManualInitial(claim.op)
  <2>1. CASE RecoverMark(r)
    <3>1. [claim EXCEPT !.state = "review_required"] \in Claim
      BY <1>0 DEF Claim
    <3>. QED
      BY <2>1, <3>1, <1>0 DEF RecoverMark
  <2>2. CASE RecoverClear(r)
    BY <2>2 DEF RecoverClear, ClaimUnmoved
  <2>3. CASE Release(r)
    BY <2>3 DEF Release, ClaimUnmoved, Releasable
  <2>. QED
    BY <1>4, <2>1, <2>2, <2>3 DEF OperatorStep, StartRecover, RecoverLoad, RecoverObserve,
       RecoverRecord, StartRelease, ReleaseObserve, OperatorStops
<1>. QED
  BY <1>1, <1>2, <1>3, <1>4 DEF Next

\* The cover of an open operation is lost only by that release.
LEMMA GuardedStays ==
  ASSUME WriterInv, Next, NEW p \in Op, Guarded(p), Open(p)
  PROVE  \/ Guarded(p)'
         \/ \E r \in Operator : Release(r) /\ rd[r].op = p /\ ManualInitial(p) /\ claim # NoClaim /\ claim.op = p
<1>0. TypeOK /\ claim \in Claim \cup {NoClaim}
  BY DEF WriterInv, TypeOK
<1>1. ASSUME NEW w \in Worker, Acquire(w) PROVE Guarded(p)'
  <2>1. holds' = holds \cup UnderReviewClaim /\ ~ClaimActive
    BY <1>0, <1>1, AcquireFacts DEF Acquire
  <2>. QED
    BY <2>1, <1>0 DEF Guarded, UnderReviewClaim, ClaimActive, Claim
<1>2. CASE UNCHANGED holds /\ UNCHANGED claim
  BY <1>2 DEF Guarded
<1>3. CASE UNCHANGED holds /\ ClaimLeft
  <2>1. CASE claim' = NoClaim
    <3>1. claim # NoClaim /\ (p \in holds' \/ claim.op = p)
      BY <1>3 DEF Guarded, ClaimLeft
    <3>2. CASE p \in holds'
      BY <3>2 DEF Guarded
    <3>3. CASE claim.op = p
      BY <2>1, <3>1, <3>3, ClaimFreed DEF Open
    <3>. QED
      BY <3>1, <3>2, <3>3
  <2>2. CASE claim' # NoClaim
    BY <1>3, <2>2 DEF Guarded, ClaimLeft
  <2>. QED
    BY <2>1, <2>2
<1>. QED
  BY <1>1, <1>2, <1>3, ClaimMoves

\* The readback that verifies an operation is true of the channel, and nothing of the
\* operation is still under way.
LEMMA VerifiedTruly ==
  ASSUME FreshInv, StockInv, Next, NEW o \in Op,
         opState[o] # "sync_verified", opState'[o] = "sync_verified"
  PROVE  Quiet(o, inflight) /\ \A n \in Cells(o) : Matches(o, n, stock[n])
<1>0. TypeOK /\ opState[o] \in OpState
  BY DEF FreshInv, WriterInv, TypeOK
<1>1. ASSUME NEW seen, AllMatch(o, seen), Confirms(o, seen, stock, inflight)
      PROVE  Quiet(o, inflight) /\ \A n \in Cells(o) : Matches(o, n, stock[n])
  BY <1>1 DEF Confirms, Agrees, AllMatch
<1>2. ASSUME NEW w \in Worker, Record(w), wk[w].op = o, Accepted(o, wk[w].seen, wk[w].applied)
      PROVE  AllMatch(o, wk[w].seen) /\ Confirms(o, wk[w].seen, stock, inflight)
  BY <1>2 DEF Record, Accepted, AllMatch, StockInv, WorkersSee, SeesFor
<1>3. ASSUME NEW r \in Operator, RecoverRecord(r), rd[r].op = o, Accepted(o, rd[r].seen, {})
      PROVE  AllMatch(o, rd[r].seen) /\ Confirms(o, rd[r].seen, stock, inflight)
  <2>1. ~OwnCloseRequired(o)
    BY <1>3, JobAssumption, CellsAreNights DEF Accepted, OwnCloseRequired
  <2>2. Known(o) /\ rd[r].pc = "record"
    BY <1>3 DEF RecoverRecord, FreshInv, WriterInv, OperatorsKnown
  <2>3. Recovering(r)
    BY <1>0, <1>3, <2>1, <2>2 DEF Recovering, Open, OpState, Known, OwnCloseRequired, ManualInitial
  <2>. QED
    BY <1>3, <2>2, <2>3 DEF StockInv, RecoverInv, Accepted, AllMatch
<1>. QED
  BY <1>0, <1>1, <1>2, <1>3, OnlyReadbackVerifies

LEMMA OpenStays ==
  ASSUME FreshInv, StockInv, Next, NEW p \in Op, Open(p), ~Quiet(p, inflight)
  PROVE  Open(p)'
<1>1. TypeOK /\ OpMoves(p) /\ opState'[p] # "sync_verified"
  BY OpsMove, VerifiedTruly DEF FreshInv, WriterInv, Open
<1>. QED
  BY <1>1 DEF OpMoves, Open

LEMMA LateStep ==
  ASSUME FreshInv, StockInv, Next, "outside" \notin Faults
  PROVE  PlainStock' /\ LateWrites'
<1>0. TypeOK /\ TypeOK' /\ WriterInv
  BY StepType DEF FreshInv, WriterInv
<1>1. PlainStock'
  <2>0. stock' \in [Night -> Stock] /\ \A n \in Night : stock[n] \in {"open", "shut"}
    BY <1>0 DEF TypeOK, StockInv, PlainStock
  <2>1. SUFFICES ASSUME NEW n \in Night PROVE stock'[n] \in {"open", "shut"}
    BY <2>0 DEF PlainStock
  <2>2. ASSUME NEW w \in Worker, NEW m \in Night, Writes(w, m) PROVE stock'[n] \in {"open", "shut"}
    BY <2>0, <2>2, WriteFacts DEF Written
  <2>3. ASSUME NEW m \in Night, NEW phase \in Wish, Land(m, phase) PROVE stock'[n] \in {"open", "shut"}
    BY <2>0, <2>3 DEF Land, Written
  <2>. QED
    BY <2>0, <2>2, <2>3, ChannelMoves
\* A covered open operation with a write under way stays both.
<1>2. ASSUME NEW p \in Op, Guarded(p), Open(p), ~Quiet(p, inflight) PROVE Guarded(p)' /\ Open(p)'
  <2>1. ASSUME NEW r \in Operator, Release(r), rd[r].op = p, claim # NoClaim, claim.op = p PROVE FALSE
    BY <1>2, <2>1 DEF Release, StockInv, ReleaseInv, OnClaim
  <2>. QED
    BY <1>0, <1>2, <2>1, GuardedStays, OpenStays
<1>3. LateWrites'
  <2>1. SUFFICES ASSUME NEW n \in Night, NEW phase \in Wish, <<n, phase>> \in inflight'
                 PROVE  /\ stock'[n] # Written(phase)
                        /\ \E p \in Op : Guarded(p)' /\ Open(p)' /\ Job[p].wish[n] = phase
    BY DEF LateWrites, Written
  <2>2. CASE <<n, phase>> \in inflight
    <3>1. PICK p \in Op : Guarded(p) /\ Open(p) /\ Job[p].wish[n] = phase
      BY <2>2 DEF StockInv, LateWrites
    <3>2. ~Quiet(p, inflight)
      BY <2>2, <3>1, CellWish DEF Quiet
    <3>3. stock[n] # Written(phase) /\ stock[n] \in {"open", "shut"}
      BY <2>2 DEF StockInv, LateWrites, PlainStock
    <3>4. stock'[n] # Written(phase)
      <4>1. ASSUME NEW w \in Worker, NEW m \in Night, Writes(w, m) PROVE stock'[n] = stock[n]
        <5>1. Quiet(wk[w].op, inflight) /\ m \in Cells(wk[w].op)
          BY <4>1, WriteFacts DEF StockInv, WorkersSee, SeesFor
        <5>2. m # n
          BY <2>2, <5>1 DEF Quiet
        <5>. QED
          BY <4>1, <5>2, WriteFacts
      <4>2. ASSUME NEW m \in Night, NEW wish \in Wish, Land(m, wish) PROVE stock'[n] = stock[n]
        <5>1. m = n => wish = phase
          <6>1. stock[m] # Written(wish)
            BY <4>2 DEF Land, StockInv, LateWrites
          <6>. QED
            BY <3>3, <6>1 DEF Written, Wish
        <5>2. m # n
          BY <4>2, <2>1, <5>1 DEF Land
        <5>. QED
          BY <4>2, <5>2, <1>0 DEF Land, TypeOK
      <4>. QED
        BY <3>3, <4>1, <4>2, ChannelMoves
    <3>. QED
      BY <1>2, <3>1, <3>2, <3>4
  <2>3. CASE <<n, phase>> \notin inflight
    <3>1. PICK w \in Worker, m \in Night : Writes(w, m)
      BY <2>1, <2>3, ChannelMoves DEF Land
    <3>2. /\ m = n /\ phase = wk[w].phase /\ stock' = stock
          /\ UNCHANGED <<opState, claim, holds>>
      BY <2>1, <2>3, <3>1, WriteFacts DEF gateVars, opVars
    <3>3. stock[n] # Written(phase) /\ Guarded(wk[w].op) /\ Job[wk[w].op].wish[n] = phase
      BY <3>1, <3>2, WriteFacts DEF StockInv, WorkersSee, SeesFor
    <3>4. Open(wk[w].op) /\ wk[w].op \in Op
      BY <3>1, WriteFacts DEF StockInv, WorkersOpen
    <3>. QED
      BY <3>2, <3>3, <3>4 DEF Guarded, Open
  <2>. QED
    BY <2>2, <2>3
<1>. QED
  BY <1>1, <1>3

\* A worker that has failed or recorded goes on to nothing but its settlement.
LEMMA FinishEnds ==
  ASSUME TypeOK, NEW w \in Worker, wk[w].pc = "finish", WorkerStep(w) \/ Crash(w)
  PROVE  wk'[w].pc \in {"idle", "finish"}
<1>0. wk \in [Worker -> WorkerState] /\ Failed(wk[w]).pc = "finish" /\ IdleWorker.pc = "idle"
  BY FailedType, IdleWorkerType DEF TypeOK
<1>1. CASE Finish(w) \/ Crash(w)
  BY <1>0, <1>1 DEF Finish, Crash, Stop, Go
<1>2. CASE FinishFails(w)
  BY <1>0, <1>2 DEF FinishFails, Stop, Go
<1>3. CASE StaleClaimReview(w)
  BY <1>3 DEF StaleClaimReview
<1>. QED
  BY <1>1, <1>2, <1>3 DEF WorkerStep, PollQueue, PollTarget, PollTransfer, LoginFails, Acquire,
     Refused, LoadOperation, FirstObserve, ObserveFails, RecordPreflight, Put, PutUnknown,
     Reobserve, Record, RecordFails

\* Nobody recovers the operation of a worker that is still at it.
LEMMA NotRecovered ==
  ASSUME WriterInv, SameHolder, NEW w \in Worker, Busy(w), NEW r \in Operator,
         rd[r].pc # "idle", rd[r].op = wk[w].op
  PROVE  FALSE
<1>1. ClaimActive /\ claim # NoClaim /\ claim.holder = w /\ claim.op = wk[w].op
  BY DEF WriterInv, OneWriter, HoldsClaim, ClaimActive
<1>2. claim.holder = rd[r].holder
  BY <1>1 DEF SameHolder, OnClaim
<1>. QED
  BY <1>1, <1>2 DEF WriterInv, OperatorsWait, ClaimUnmoved

LEMMA WorkersOpenStep == ASSUME FreshInv, StockInv, Next PROVE WorkersOpen'
<1>0. TypeOK /\ TypeOK' /\ WriterInv /\ opState \in [Op -> OpState]
  BY StepType DEF FreshInv, WriterInv, TypeOK
<1>1. SUFFICES ASSUME NEW v \in Worker, Busy(v)', wk'[v].pc # "finish" PROVE Open(wk[v].op)'
  BY DEF WorkersOpen
<1>2. CASE Acquire(v)
  BY <1>0, <1>2, AcquireFacts DEF Open
<1>3. CASE Busy(v) /\ wk'[v].op = wk[v].op
  <2>1. wk[v].pc # "finish"
    BY <1>0, <1>1, OnlyActorMoves, FinishEnds DEF Busy, Dispatching
  <2>2. Open(wk[v].op) /\ wk[v].op \in Op
    BY <1>0, <1>3, <2>1 DEF StockInv, WorkersOpen, TypeOK, Busy, Dispatching
  <2>3. ASSUME opState'[wk[v].op] = "sync_verified" PROVE FALSE
    <3>1. ASSUME NEW w \in Worker, Record(w), wk[w].op = wk[v].op PROVE FALSE
      <4>1. Busy(w)
        BY <3>1 DEF Record, Busy, Dispatching, WorkerPc
      <4>2. w = v
        BY <1>0, <1>3, <4>1 DEF WriterInv, OneWriter, HoldsClaim
      <4>3. Record(v) /\ wk[v] \in WorkerState
        BY <1>0, <3>1, <4>2 DEF TypeOK
      <4>4. [wk[v] EXCEPT !.pc = "finish", !.verified = (opState'[wk[v].op] = "sync_verified")].pc = "finish"
            /\ Failed(wk[v]).pc = "finish"
        BY <4>3, FailedType DEF WorkerState
      <4>. QED
        BY <1>0, <1>1, <4>3, <4>4 DEF Record, Go, TypeOK
    <3>2. ASSUME NEW r \in Operator, RecoverRecord(r), rd[r].op = wk[v].op PROVE FALSE
      BY <1>0, <1>3, <3>2, NotRecovered DEF RecoverRecord, StockInv
    <3>. QED
      BY <1>0, <2>2, <2>3, <3>1, <3>2, OnlyReadbackVerifies DEF Open
  <2>. QED
    BY <1>0, <1>3, <2>2, <2>3, OpsMove DEF OpMoves, Open
<1>. QED
  BY <1>0, <1>1, <1>2, <1>3, WorkersMove

LEMMA SameHolderStep == ASSUME WriterInv, SameHolder, Next PROVE SameHolder'
<1>0. TypeOK
  BY DEF WriterInv
<1>1. SUFFICES ASSUME NEW r \in Operator, rd'[r].pc # "idle", claim' # NoClaim, claim'.op = rd'[r].op
               PROVE  claim'.holder = rd'[r].holder
  BY DEF SameHolder, OnClaim
<1>2. CASE StartsOnClaim(r)
  BY <1>2 DEF StartsOnClaim
<1>3. CASE rd[r].pc # "idle" /\ rd'[r].op = rd[r].op /\ rd'[r].holder = rd[r].holder
  <2>1. ASSUME NEW w \in Worker, Acquire(w) PROVE FALSE
    <3>1. opState[wk[w].op] = "sync_pending" /\ ~ClaimActive /\ claim'.op = wk[w].op
      BY <1>0, <2>1, AcquireFacts
    <3>. QED
      BY <1>1, <1>3, <3>1 DEF WriterInv, OperatorsKnown, Known
  <2>. QED
    BY <1>1, <1>3, <2>1, ClaimMoves DEF ClaimLeft, SameHolder, OnClaim
<1>. QED
  BY <1>0, <1>1, <1>2, <1>3, OperatorsMove

\* An operator still at a claim finds it as it was, or left for review.
LEMMA StillOnClaim ==
  ASSUME WriterInv, Next, NEW r \in Operator, rd'[r] = rd[r], OnClaim(r)'
  PROVE  OnClaim(r) /\ (UNCHANGED claim \/ claim'.state = "review_required")
<1>0. TypeOK
  BY DEF WriterInv
<1>1. ASSUME NEW w \in Worker, Acquire(w) PROVE FALSE
  <2>1. opState[wk[w].op] = "sync_pending" /\ ~ClaimActive /\ claim'.op = wk[w].op
    BY <1>0, <1>1, AcquireFacts
  <2>. QED
    BY <2>1 DEF OnClaim, WriterInv, OperatorsKnown, Known
<1>. QED
  BY <1>1, ClaimMoves DEF OnClaim, ClaimLeft

LEMMA ReleaseStep ==
  ASSUME FreshInv, ScopesDisjoint, StockInv, Next, "outside" \notin Faults
  PROVE  ReleaseInv'
<1>0. TypeOK /\ WriterInv /\ rd \in [Operator -> OperatorState]
  BY DEF FreshInv, WriterInv, TypeOK
<1>1. SUFFICES ASSUME NEW r \in Operator, OnClaim(r)', rd'[r].pc \in {"inspect", "release"}
               PROVE  /\ ~ClaimActive' /\ ManualInitial(rd'[r].op)
                      /\ rd'[r].pc = "release" => Quiet(rd'[r].op, inflight')
  BY DEF ReleaseInv, ManualInitial, Quiet, Cells, ClosedCells, OpenCells
<1>2. CASE rd'[r] = rd[r]
  <2>1. OnClaim(r) /\ ~ClaimActive /\ ManualInitial(rd[r].op)
        /\ (rd[r].pc = "release" => Quiet(rd[r].op, inflight))
    BY <1>0, <1>1, <1>2, StillOnClaim DEF StockInv, ReleaseInv
  <2>2. ~ClaimActive'
    BY <1>0, <1>1, <1>2, <2>1, StillOnClaim DEF ClaimActive
  <2>3. inflight' \subseteq inflight
    <3>1. ASSUME NEW w \in Worker, NEW m \in Night, Writes(w, m) PROVE FALSE
      BY <2>1, <3>1, WriteFacts
    <3>. QED
      BY <3>1, ChannelMoves DEF Land
  <2>. QED
    BY <1>2, <2>1, <2>2, <2>3 DEF Quiet
<1>3. CASE OperatorStep(r)
  <2>0. UNCHANGED <<stock, inflight>> /\ IdleOperator.pc = "idle"
    BY <1>3, OperatorStepFrame, IdleOperatorType
  <2>1. CASE StartRelease(r)
    <3>1. rd'[r].pc = "inspect" /\ rd'[r].op = claim.op /\ UNCHANGED claim
      BY <1>0, <2>1 DEF StartRelease, Answer, IdleOperator
    <3>2. ManualInitial(claim.op) /\ ~ClaimActive
      BY <2>1 DEF StartRelease, Releasable, UnderReviewClaim, ClaimActive
    <3>. QED
      BY <3>1, <3>2 DEF ClaimActive
  <2>2. CASE ReleaseObserve(r)
    <3>1. /\ UNCHANGED claim /\ rd[r].pc = "inspect" /\ rd[r].op \in Op
          /\ rd'[r] = [rd[r] EXCEPT !.pc = "release"]
          /\ \A n \in Cells(rd[r].op) : stock[n] \notin {"open", "surplus"}
      BY <1>0, <1>1, <2>0, <2>2 DEF ReleaseObserve, Abandon, Answer, TypeOK
    <3>2. rd'[r].op = rd[r].op /\ rd'[r].pc = "release" /\ rd[r].pc # "idle"
      BY <1>0, <3>1 DEF OperatorState
    <3>3. OnClaim(r)
      BY <1>1, <3>1, <3>2 DEF OnClaim
    <3>4. ~ClaimActive /\ ManualInitial(rd[r].op) /\ Guarded(rd[r].op)
      BY <3>1, <3>3 DEF StockInv, ReleaseInv, OnClaim, Guarded
    <3>5. OpenCells(rd[r].op) = {}
      BY <3>1, <3>4, JobAssumption DEF ManualInitial
    <3>6. Quiet(rd[r].op, inflight)
      <4>1. SUFFICES ASSUME NEW n \in Cells(rd[r].op), NEW phase \in Wish, <<n, phase>> \in inflight
                     PROVE  FALSE
        BY DEF Quiet
      <4>2. Job[rd[r].op].wish[n] = phase /\ stock[n] # Written(phase)
        BY <3>1, <3>4, <4>1, LateIsUnmet DEF StockInv
      <4>3. n \in Night /\ phase = "closed"
        BY <3>1, <3>5, <4>2, CellWish DEF OpenCells, Wish
      <4>. QED
        BY <3>1, <4>2, <4>3 DEF StockInv, PlainStock, Written
    <3>. QED
      BY <2>0, <3>1, <3>2, <3>4, <3>6 DEF ClaimActive
  <2>3. ASSUME NEW l, Answer(r, l), l.pc \notin {"inspect", "release"} PROVE FALSE
    BY <1>0, <1>1, <2>3 DEF Answer
  <2>4. CASE StartRecover(r)
    BY <2>3, <2>4 DEF StartRecover, IdleOperator
  <2>5. CASE RecoverLoad(r) \/ RecoverObserve(r) \/ RecoverRecord(r)
    <3>1. rd'[r].pc \in {"mark", "observe", "record", "clear", "idle"}
      <4>1. rd[r] \in OperatorState
        BY <1>0
      <4>2. CASE RecoverLoad(r)
        BY <1>0, <4>1, <4>2 DEF RecoverLoad, Answer, OperatorState
      <4>3. CASE RecoverObserve(r)
        BY <1>0, <2>0, <4>1, <4>3 DEF RecoverObserve, Abandon, Answer, OperatorState
      <4>4. CASE RecoverRecord(r)
        BY <1>0, <2>0, <4>1, <4>4 DEF RecoverRecord, Abandon, Answer, OperatorState
      <4>. QED
        BY <2>5, <4>2, <4>3, <4>4
    <3>. QED
      BY <1>1, <3>1
  <2>6. CASE RecoverMark(r) \/ RecoverClear(r) \/ Release(r) \/ OperatorStops(r)
    BY <2>0, <2>3, <2>6 DEF RecoverMark, RecoverClear, Release, OperatorStops, Abandon
  <2>. QED
    BY <1>3, <2>1, <2>2, <2>4, <2>5, <2>6 DEF OperatorStep
<1>. QED
  BY <1>0, <1>2, <1>3, OnlyOperatorMoves

\* Quiet cells that no worker writes stay quiet and as they are.
LEMMA CellsHold ==
  ASSUME FreshInv, Next, "outside" \notin Faults, NEW o \in Op, Quiet(o, inflight),
         \A w \in Worker, n \in Night : Writes(w, n) => n \notin Cells(o)
  PROVE  Quiet(o, inflight') /\ \A n \in Cells(o) : stock'[n] = stock[n]
<1>0. stock \in [Night -> Stock] /\ Cells(o) \subseteq Night
  BY CellsAreNights DEF FreshInv, WriterInv, TypeOK
<1>1. ASSUME NEW w \in Worker, NEW n \in Night, Writes(w, n)
      PROVE  Quiet(o, inflight') /\ \A m \in Cells(o) : stock'[m] = stock[m]
  <2>1. n \notin Cells(o)
    BY <1>1
  <2>. QED
    BY <1>0, <1>1, <2>1, WriteFacts DEF Quiet
<1>2. ASSUME NEW n \in Night, NEW phase \in Wish, Land(n, phase)
      PROVE  Quiet(o, inflight') /\ \A m \in Cells(o) : stock'[m] = stock[m]
  BY <1>0, <1>2 DEF Land, Quiet
<1>. QED
  BY <1>1, <1>2, ChannelMoves

LEMMA RecoverStep ==
  ASSUME FreshInv, ScopesDisjoint, BookingInv, StockInv, Next, "outside" \notin Faults
  PROVE  RecoverInv'
<1>0. TypeOK /\ WriterInv /\ rd \in [Operator -> OperatorState] /\ opState \in [Op -> OpState]
  BY DEF FreshInv, WriterInv, TypeOK
<1>1. SUFFICES ASSUME NEW r \in Operator, rd'[r].pc \in {"load", "mark", "observe", "record"},
                      Open(rd[r].op)', ~ManualInitial(rd'[r].op)
               PROVE  /\ Guarded(rd[r].op)'
                      /\ rd'[r].pc = "record" => Confirms(rd'[r].op, rd'[r].seen, stock', inflight')
  BY DEF RecoverInv, Recovering, ManualInitial, Confirms, AllMatch, Matches, ProviderOnly, Quiet, Agrees,
     Cells, ClosedCells, OpenCells
\* As long as the operator works on an open operation, it stays covered.
<1>2. ASSUME rd[r].pc \in {"load", "mark", "observe", "record"}, rd'[r].op = rd[r].op
      PROVE  rd[r].op \in Op /\ Recovering(r) /\ Guarded(rd[r].op) /\ Guarded(rd[r].op)'
  <2>1. rd[r].op \in Op /\ opState[rd[r].op] # "absent"
    BY <1>0, <1>2 DEF TypeOK, WriterInv, OperatorsKnown, Known
  <2>2. Open(rd[r].op)
    <3>1. PICK p \in Op : p = rd[r].op
      BY <2>1
    <3>2. Open(p)'
      BY <1>1, <1>2, <3>1 DEF Open
    <3>. QED
      BY <1>0, <2>1, <3>1, <3>2, SettledStays
  <2>3. Recovering(r) /\ Guarded(rd[r].op)
    BY <1>1, <1>2, <2>2 DEF Recovering, StockInv, RecoverInv, ManualInitial
  <2>4. Guarded(rd[r].op)'
    <3>1. PICK p \in Op : p = rd[r].op
      BY <2>1
    <3>2. Guarded(p)'
      BY <1>0, <1>1, <1>2, <2>2, <2>3, <3>1, GuardedStays
    <3>. QED
      BY <1>2, <3>1, <3>2 DEF Guarded
  <2>. QED
    BY <2>1, <2>3, <2>4
<1>3. CASE rd'[r] = rd[r]
  <2>1. rd[r].op \in Op /\ Recovering(r) /\ Guarded(rd[r].op) /\ Guarded(rd[r].op)'
    BY <1>1, <1>2, <1>3
  <2>2. SUFFICES ASSUME rd[r].pc = "record", AllMatch(rd[r].op, rd[r].seen)
                 PROVE  Quiet(rd[r].op, inflight') /\ Agrees(rd[r].op, rd[r].seen, stock')
    BY <1>3, <2>1 DEF Confirms
  <2>3. Quiet(rd[r].op, inflight) /\ Agrees(rd[r].op, rd[r].seen, stock)
    BY <2>1, <2>2 DEF StockInv, RecoverInv, Confirms
  <2>4. ASSUME NEW w \in Worker, NEW n \in Night, Writes(w, n), n \in Cells(rd[r].op) PROVE FALSE
    <3>1. Busy(w) /\ wk[w].op = rd[r].op
      BY <2>1, <2>4, WriteFacts, OneScope
    <3>. QED
      BY <1>0, <2>2, <3>1, NotRecovered DEF StockInv
  <2>. QED
    BY <2>1, <2>3, <2>4, CellsHold DEF Agrees
<1>4. CASE OperatorStep(r)
  <2>0. UNCHANGED <<stock, inflight, holds>> /\ IdleOperator.pc = "idle"
    BY <1>4, OperatorStepFrame, IdleOperatorType
  <2>a. rd[r] \in OperatorState
    BY <1>0
  <2>1. CASE StartRecover(r)
    <3>1. rd'[r].pc = "load" /\ rd'[r].op = claim.op /\ UNCHANGED claim /\ claim # NoClaim
      BY <1>0, <2>1 DEF StartRecover, Answer, IdleOperator, gateVars
    <3>. QED
      BY <3>1 DEF Guarded
  <2>2. CASE RecoverLoad(r)
    <3>1. rd[r].pc = "load" /\ rd'[r].op = rd[r].op /\ rd'[r].pc # "record"
      BY <1>0, <2>a, <2>2 DEF RecoverLoad, Answer, OperatorState
    <3>. QED
      BY <1>2, <3>1
  <2>3. ASSUME NEW l, Answer(r, l), l.pc \notin {"load", "mark", "observe", "record"} PROVE FALSE
    BY <1>0, <1>1, <2>3 DEF Answer
  <2>4. CASE RecoverObserve(r)
    <3>. DEFINE m(pc) == [rd[r] EXCEPT !.seen = Snapshot(rd[r].op), !.pc = pc]
    <3>1. \A pc : m(pc).pc = pc /\ m(pc).op = rd[r].op /\ m(pc).seen = Snapshot(rd[r].op)
      BY <2>a DEF OperatorState
    <3>2. rd[r].pc = "observe" /\ (Answer(r, m("record")) \/ Answer(r, m("clear")) \/ Answer(r, IdleOperator))
      BY <2>4 DEF RecoverObserve, Abandon
    <3>. HIDE DEF m
    <3>3. Answer(r, m("record"))
      BY <2>0, <2>3, <3>1, <3>2
    <3>4. rd'[r].op = rd[r].op /\ rd'[r].seen = Snapshot(rd[r].op)
      BY <1>0, <3>1, <3>3 DEF Answer
    <3>5. rd[r].op \in Op /\ Guarded(rd[r].op) /\ Guarded(rd[r].op)'
      BY <1>2, <3>2, <3>4
    <3>6. Confirms(rd[r].op, Snapshot(rd[r].op), stock, inflight)
      BY <3>5, SnapshotConfirms DEF StockInv
    <3>. QED
      BY <2>0, <3>4, <3>5, <3>6
  <2>5. CASE RecoverRecord(r)
    <3>1. [rd[r] EXCEPT !.pc = "clear"].pc = "clear"
      BY <2>a DEF OperatorState
    <3>. QED
      BY <2>0, <2>3, <2>5, <3>1 DEF RecoverRecord, Abandon
  <2>6. CASE StartRelease(r)
    BY <2>3, <2>6 DEF StartRelease, IdleOperator
  <2>7. CASE ReleaseObserve(r)
    <3>1. [rd[r] EXCEPT !.pc = "release"].pc = "release"
      BY <2>a DEF OperatorState
    <3>. QED
      BY <2>0, <2>3, <2>7, <3>1 DEF ReleaseObserve, Abandon
  <2>8. CASE RecoverMark(r) \/ RecoverClear(r) \/ Release(r) \/ OperatorStops(r)
    BY <2>0, <2>3, <2>8 DEF RecoverMark, RecoverClear, Release, OperatorStops, Abandon
  <2>. QED
    BY <1>4, <2>1, <2>2, <2>4, <2>5, <2>6, <2>7, <2>8 DEF OperatorStep
<1>. QED
  BY <1>0, <1>3, <1>4, OnlyOperatorMoves

\* The acting worker still knows what the channel holds.
LEMMA ActorSees ==
  ASSUME FreshInv, ScopesDisjoint, StockInv, NEW w \in Worker, WorkerStep(w) \/ Crash(w)
  PROVE  SeesFor(wk'[w], stock', inflight')
<1>. USE DEF gateVars, channelVars
<1>0. /\ wk[w] \in WorkerState /\ (wk[w].pc # "idle" => wk[w].op \in Op)
      /\ wk \in [Worker -> WorkerState] /\ TypeOK /\ SeesFor(wk[w], stock, inflight)
      /\ PlainStock /\ LateWrites
  BY DEF FreshInv, WriterInv, TypeOK, StockInv, WorkersSee
<1>a. ASSUME NEW l, Go(w, l) PROVE wk'[w] = l
  BY <1>0, <1>a DEF Go
<1>b. ASSUME NEW l, Go(w, l), l.pc \in {"idle", "ready", "finish"}
      PROVE  SeesFor(wk'[w], stock', inflight')
  BY <1>a, <1>b DEF SeesFor
<1>c. IdleWorker.pc = "idle" /\ Failed(wk[w]).pc = "finish"
  BY <1>0, IdleWorkerType, FailedType
<1>d. Busy(w) => Guarded(wk[w].op) /\ wk[w].op \in Op
  BY <1>0 DEF FreshInv, WriterInv, OneWriter, HoldsClaim, ClaimActive, Guarded, Busy, Dispatching
<1>1. ASSUME NEW o \in Op, PollQueue(w, o) \/ PollTarget(w, o) \/ PollTransfer(w, o)
      PROVE  SeesFor(wk'[w], stock', inflight')
  BY <1>1, <1>b DEF PollQueue, PollTarget, PollTransfer, IdleWorker
<1>2. CASE StaleClaimReview(w)
  BY <1>2, <1>0 DEF StaleClaimReview
<1>3. CASE LoginFails(w) \/ Refused(w) \/ Finish(w) \/ Crash(w) \/ FinishFails(w)
           \/ ObserveFails(w) \/ RecordFails(w)
  BY <1>3, <1>b, <1>c DEF LoginFails, Refused, Finish, Crash, FinishFails, ObserveFails, RecordFails, Stop
<1>4. CASE Acquire(w)
  <2>1. wk'[w].pc = "claimed" /\ wk'[w].op = wk[w].op /\ wk[w].op \in Op /\ UNCHANGED <<stock, inflight>>
    BY <1>4, <1>0, AcquireFacts DEF Acquire
  <2>2. ~ClaimActive /\ \A h \in holds \cup UnderReviewClaim : Cells(h) \cap Cells(wk[w].op) = {}
    BY <1>4 DEF Acquire, Admitted, ReviewBlocked, ReviewOverlap
  <2>3. \A p \in Op : Guarded(p) => p \in holds \cup UnderReviewClaim
    BY <1>0, <2>2 DEF Guarded, UnderReviewClaim, ClaimActive, TypeOK, Claim
  <2>4. Quiet(wk[w].op, inflight)
    <3>1. SUFFICES ASSUME NEW n \in Cells(wk[w].op), NEW phase \in Wish, <<n, phase>> \in inflight
                   PROVE  FALSE
      BY DEF Quiet
    <3>2. n \in Night
      BY <2>1, CellWish
    <3>3. PICK p \in Op : Guarded(p) /\ Job[p].wish[n] = phase
      BY <1>0, <3>1, <3>2 DEF LateWrites
    <3>. QED
      BY <2>2, <2>3, <3>2, <3>3, CellWish
  <2>. QED
    BY <2>1, <2>4 DEF SeesFor
<1>5. CASE LoadOperation(w)
  <2>. DEFINE m == [wk[w] EXCEPT !.pc = "observe"]
  <2>1. m.pc = "observe" /\ m.op = wk[w].op
    BY <1>0 DEF WorkerState
  <2>2. (Go(w, m) \/ Go(w, Failed(wk[w]))) /\ wk[w].pc = "claimed" /\ UNCHANGED <<stock, inflight>>
    BY <1>5 DEF LoadOperation
  <2>. HIDE DEF m
  <2>3. SeesFor(m, stock, inflight)
    BY <1>0, <2>1, <2>2 DEF SeesFor
  <2>. QED
    BY <2>2, <2>3, <1>a, <1>b, <1>c
<1>6. CASE FirstObserve(w)
  <2>. DEFINE l == [wk[w] EXCEPT !.seen = Snapshot(wk[w].op)]
              m == [l EXCEPT !.pc = "preflight"]
  <2>1. l \in WorkerState /\ l.op = wk[w].op /\ l.op \in Op /\ l.seen = Snapshot(wk[w].op)
    BY <1>6, <1>0, SnapshotType DEF FirstObserve, WorkerState
  <2>2. m.op = l.op /\ m.pc = "preflight" /\ m.seen = l.seen
    BY <2>1 DEF WorkerState
  <2>3. (Go(w, m) \/ Go(w, EnterClosed(l))) /\ UNCHANGED <<stock, inflight>> /\ wk[w].pc = "observe"
    BY <1>6 DEF FirstObserve
  <2>. HIDE DEF l, m
  <2>4. Quiet(l.op, inflight)
    BY <1>0, <2>1, <2>3 DEF SeesFor
  <2>5. Agrees(l.op, l.seen, stock)
    BY <1>0, <1>d, <2>1, <2>3, SnapshotConfirms DEF Busy, Dispatching, WorkerPc
  <2>6. SeesFor(m, stock, inflight)
    BY <2>2, <2>4, <2>5 DEF SeesFor
  <2>7. SeesFor(EnterClosed(l), stock, inflight)
    BY <1>0, <2>1, <2>4, <2>5, EnterClosedSees
  <2>. QED
    BY <2>3, <2>6, <2>7, <1>a
<1>7. CASE RecordPreflight(w)
  <2>1. (Go(w, EnterClosed(wk[w])) \/ Go(w, Failed(wk[w]))) /\ UNCHANGED <<stock, inflight>>
        /\ wk[w].pc = "preflight"
    BY <1>7 DEF RecordPreflight
  <2>2. SeesFor(EnterClosed(wk[w]), stock, inflight)
    BY <1>0, <2>1, EnterClosedSees DEF SeesFor
  <2>. QED
    BY <2>1, <2>2, <1>a, <1>b, <1>c
<1>8. ASSUME NEW n \in Night, Put(w, n) PROVE SeesFor(wk'[w], stock', inflight')
  <2>. DEFINE l == wk[w]
              m == [wk[w] EXCEPT !.todo = @ \ {n},
                      !.applied = IF wk[w].phase = "closed" THEN @ \cup {n} ELSE @,
                      !.pc = IF wk[w].todo = {n} THEN "reobserve" ELSE "write"]
  <2>1. /\ m.op = l.op /\ m.todo = l.todo \ {n} /\ m.phase = l.phase
        /\ m.pc \in {"write", "reobserve"}
    BY <1>8, <1>0 DEF WorkerState
  <2>2. /\ wk'[w] = m /\ stock' = [stock EXCEPT ![n] = Written(l.phase)] /\ inflight' = inflight
        /\ l.pc = "write" /\ n \in l.todo
    BY <1>8, <1>a DEF Put
  <2>3. Job[l.op].wish[n] = l.phase
    BY <1>8, WriteFacts DEF Writes
  <2>. HIDE DEF m
  <2>4. Quiet(l.op, inflight) /\ \A k \in l.todo : stock[k] # Written(l.phase)
    BY <1>0, <2>2 DEF SeesFor
  <2>5. \A k \in m.todo : stock'[k] # Written(l.phase)
    <3>1. l.todo \subseteq Night /\ DOMAIN stock = Night
      BY <1>0 DEF WorkerState, PlainStock
    <3>. QED
      BY <2>1, <2>2, <2>4, <3>1
  <2>6. l.phase = "open" => \A k \in ClosedCells(l.op) : stock'[k] = "shut"
    <3>1. SUFFICES ASSUME l.phase = "open", NEW k \in ClosedCells(l.op) PROVE stock'[k] = "shut"
      OBVIOUS
    <3>2. k # n /\ k \in Night
      BY <2>3, <3>1 DEF ClosedCells
    <3>3. stock[k] = "shut"
      BY <1>0, <2>2, <3>1 DEF SeesFor
    <3>. QED
      BY <1>0, <2>2, <3>2, <3>3 DEF PlainStock
  <2>. QED
    BY <2>1, <2>2, <2>4, <2>5, <2>6 DEF SeesFor
<1>9. ASSUME NEW n \in Night, PutUnknown(w, n) PROVE SeesFor(wk'[w], stock', inflight')
  <2>. DEFINE m == [wk[w] EXCEPT !.todo = {}, !.unknown = TRUE, !.pc = "reobserve"]
  <2>1. m.pc = "reobserve" /\ m.unknown = TRUE
    BY <1>0 DEF WorkerState
  <2>2. wk'[w] = m
    BY <1>9, <1>a DEF PutUnknown
  <2>. HIDE DEF m
  <2>. QED
    BY <2>1, <2>2 DEF SeesFor
<1>10. CASE Reobserve(w)
  <2>. DEFINE l == [wk[w] EXCEPT !.seen = Snapshot(wk[w].op)]
              m == [l EXCEPT !.pc = "record"]
  <2>1. /\ l \in WorkerState /\ l.op = wk[w].op /\ l.op \in Op /\ l.unknown = wk[w].unknown
        /\ l.seen = Snapshot(wk[w].op)
    BY <1>10, <1>0, SnapshotType DEF Reobserve, WorkerState
  <2>2. m.pc = "record" /\ m.op = l.op /\ m.seen = l.seen
    BY <2>1 DEF WorkerState
  <2>3. /\ UNCHANGED <<stock, inflight>> /\ wk[w].pc = "reobserve"
        /\ \/ Go(w, m)
           \/ Go(w, EnterOpen(l)) /\ ~l.unknown /\ Unsatisfied(l.op, "closed", l.seen) = {}
    BY <1>10 DEF Reobserve
  <2>. HIDE DEF l, m
  <2>4. Agrees(l.op, l.seen, stock) /\ Confirms(l.op, l.seen, stock, inflight)
    BY <1>0, <1>d, <2>1, <2>3, SnapshotConfirms DEF Busy, Dispatching, WorkerPc
  <2>5. SeesFor(m, stock, inflight)
    BY <2>2, <2>4 DEF SeesFor
  <2>6. ~l.unknown => Quiet(l.op, inflight)
    BY <1>0, <2>1, <2>3 DEF SeesFor
  <2>7. ~l.unknown /\ Unsatisfied(l.op, "closed", l.seen) = {} => SeesFor(EnterOpen(l), stock, inflight)
    BY <1>0, <2>1, <2>4, <2>6, EnterOpenSees
  <2>. QED
    BY <2>3, <2>5, <2>7, <1>a
<1>11. CASE Record(w)
  <2>. DEFINE m == [wk[w] EXCEPT !.pc = "finish", !.verified = (opState'[wk[w].op] = "sync_verified")]
  <2>1. m.pc = "finish"
    BY <1>0 DEF WorkerState
  <2>2. Go(w, m) \/ Go(w, Failed(wk[w]))
    BY <1>11 DEF Record
  <2>. HIDE DEF m
  <2>. QED
    BY <2>1, <2>2, <1>b, <1>c
<1>. QED
  BY <1>1, <1>2, <1>3, <1>4, <1>5, <1>6, <1>7, <1>8, <1>9, <1>10, <1>11 DEF WorkerStep

LEMMA WorkersSeeStep ==
  ASSUME FreshInv, ScopesDisjoint, StockInv, Next, "outside" \notin Faults
  PROVE  WorkersSee'
<1>0. TypeOK /\ WriterInv
  BY DEF FreshInv, WriterInv
<1>1. SUFFICES ASSUME NEW v \in Worker PROVE SeesFor(wk'[v], stock', inflight')
  BY DEF WorkersSee, SeesFor, Confirms, AllMatch, Matches, ProviderOnly, Quiet, Agrees, Written,
     Cells, ClosedCells, OpenCells
<1>2. CASE WorkerStep(v) \/ Crash(v)
  BY <1>2, ActorSees
<1>3. CASE ~WorkerStep(v) /\ ~Crash(v)
  <2>. DEFINE l == wk[v]
  <2>1. wk'[v] = l /\ SeesFor(l, stock, inflight) /\ l \in WorkerState
    BY <1>0, <1>3, OnlyActorMoves DEF StockInv, WorkersSee, TypeOK
  <2>2. CASE ~Busy(v)
    BY <2>1, <2>2 DEF SeesFor, Busy, Dispatching, WorkerPc
  <2>3. CASE Busy(v)
    <3>1. ASSUME NEW w \in Worker, NEW n \in Night, Writes(w, n) PROVE FALSE
      <4>1. w = v
        BY <1>0, <2>3, <3>1, WriteFacts DEF WriterInv, OneWriter, HoldsClaim
      <4>. QED
        BY <1>3, <3>1, <4>1 DEF Writes, WorkerStep
    <3>2. l.op \in Op
      BY <1>0, <2>3 DEF TypeOK, Busy, Dispatching
    <3>3. Quiet(l.op, inflight) => Quiet(l.op, inflight') /\ \A n \in Cells(l.op) : stock'[n] = stock[n]
      BY <3>1, <3>2, CellsHold
    <3>4. l.pc = "write" => \A n \in l.todo : n \in Cells(l.op)
      <4>1. l.pc = "write" => \A n \in l.todo : Job[l.op].wish[n] = l.phase
        BY DEF FreshInv, Fresh, FreshFor
      <4>2. l.todo \subseteq Night /\ l.phase \in Wish
        BY <2>1 DEF WorkerState
      <4>. QED
        BY <3>2, <4>1, <4>2, CellWish
    <3>5. ClosedCells(l.op) \subseteq Cells(l.op)
      BY DEF Cells
    <3>. HIDE DEF l
    <3>6. Confirms(l.op, l.seen, stock, inflight) => Confirms(l.op, l.seen, stock', inflight')
      BY <3>3 DEF Confirms, Agrees
    <3>. QED
      BY <2>1, <3>3, <3>4, <3>5, <3>6 DEF SeesFor, Agrees
  <2>. QED
    BY <2>2, <2>3
<1>. QED
  BY <1>2, <1>3

LEMMA ChannelInit == Init => ChannelInv
<1>. SUFFICES ASSUME Init PROVE ChannelInv
  OBVIOUS
<1>1. FreshInv
  BY WriterInit DEF Init, FreshInv, PutsKnown, Fresh, FreshFor, IdleWorker
<1>2. PlainStock /\ LateWrites
  BY DEF Init, PlainStock, LateWrites
<1>3. WorkersSee /\ WorkersOpen
  BY DEF Init, WorkersSee, SeesFor, WorkersOpen, Busy, Dispatching, IdleWorker
<1>4. SameHolder /\ ReleaseInv /\ RecoverInv
  BY DEF Init, SameHolder, ReleaseInv, RecoverInv, OnClaim, Recovering, IdleOperator
<1>. QED
  BY <1>1, <1>2, <1>3, <1>4, ScopesInit, BookingInit DEF ChannelInv, StockInv

LEMMA ChannelStep == ASSUME "outside" \notin Faults PROVE ChannelInv /\ [Next]_vars => ChannelInv'
<1>. SUFFICES ASSUME ChannelInv, [Next]_vars PROVE ChannelInv'
  OBVIOUS
<1>0. FreshInv /\ WriterInv /\ ScopesDisjoint /\ BookingInv /\ StockInv
  BY DEF ChannelInv, FreshInv
<1>1. FreshInv' /\ ScopesDisjoint' /\ BookingInv'
  BY <1>0, FreshStep, ScopesStep, BookingStep
<1>2. CASE UNCHANGED vars
  <2>1. PlainStock' /\ LateWrites' /\ WorkersSee'
    BY <1>0, <1>2 DEF StockInv, vars, PlainStock, LateWrites, Guarded, Open, Written, WorkersSee,
       SeesFor, Confirms, AllMatch, Matches, ProviderOnly, Quiet, Agrees, Cells, ClosedCells, OpenCells
  <2>2. WorkersOpen' /\ SameHolder'
    BY <1>0, <1>2 DEF StockInv, vars, WorkersOpen, Busy, Open, SameHolder, OnClaim
  <2>3. ReleaseInv'
    BY <1>0, <1>2 DEF StockInv, vars, ReleaseInv, OnClaim, ClaimActive, ManualInitial, Quiet, Cells,
       ClosedCells, OpenCells
  <2>4. RecoverInv'
    BY <1>0, <1>2 DEF StockInv, vars, RecoverInv, Recovering, Open, ManualInitial, Guarded,
       Confirms, AllMatch, Matches, ProviderOnly, Quiet, Agrees, Cells, ClosedCells, OpenCells
  <2>. QED
    BY <1>1, <2>1, <2>2, <2>3, <2>4 DEF ChannelInv, StockInv
<1>3. CASE Next
  <2>1. PlainStock' /\ LateWrites' /\ WorkersSee' /\ WorkersOpen'
    BY <1>0, <1>3, LateStep, WorkersSeeStep, WorkersOpenStep
  <2>2. SameHolder' /\ ReleaseInv' /\ RecoverInv'
    BY <1>0, <1>3, SameHolderStep, ReleaseStep, RecoverStep DEF StockInv
  <2>. QED
    BY <1>1, <2>1, <2>2 DEF ChannelInv, StockInv
<1>. QED
  BY <1>2, <1>3

\* When only the service changes the channel, the transaction that turns an operation
\* sync_verified (recordChannelReadback, of a worker or of a recovering operator) states
\* what the channel then holds, though the readback is older than the transaction and
\* timed-out writes may still land: for any operations, workers, operators and crashes.
THEOREM VerifiedIsTrueAlways == ASSUME "outside" \notin Faults PROVE Spec => VerifiedIsTrue
<1>. DEFINE True == \A o \in Op : opState[o] # "sync_verified" /\ opState'[o] = "sync_verified" =>
                      \A n \in Cells(o) : Matches(o, n, stock[n])
<1>1. ChannelInv /\ [Next]_vars => [True]_vars
  BY VerifiedTruly DEF ChannelInv
<1>. QED
  BY <1>1, ChannelInit, ChannelStep, PTL DEF Spec, VerifiedIsTrue

\* When only the service changes the channel, a move PUTs an old night open only while
\* every new night is shut there (channel-runner's close, observe, open): a crash or a
\* lost write in between leaves the booking's nights closed too long, never on sale.
THEOREM MoveClosesFirstAlways == ASSUME "outside" \notin Faults PROVE Spec => MoveClosesFirst
<1>. DEFINE ClosesFirst == \A o \in Op, n \in Night :
       <<o, n>> \in puts' \ puts /\ n \in OpenCells(o) =>
          \A m \in ClosedCells(o) : stock[m] \in {"half", "shut"}
<1>1. ChannelInv /\ [Next]_vars => [ClosesFirst]_vars
  <2>. SUFFICES ASSUME ChannelInv, Next, NEW o \in Op, NEW n \in Night,
                       <<o, n>> \in puts' \ puts, n \in OpenCells(o), NEW m \in ClosedCells(o)
                PROVE  stock[m] \in {"half", "shut"}
    OBVIOUS
  <2>1. PICK w \in Worker, k \in Night : Writes(w, k) /\ puts' = puts \cup {<<wk[w].op, k>>}
    BY PutsMove DEF ChannelInv, FreshInv, WriterInv, Writes
  <2>2. wk[w].op = o /\ k = n
    BY <2>1
  <2>3. wk[w].pc = "write" /\ wk[w].phase = "open"
    BY <2>1, <2>2, WriteFacts DEF ChannelInv, OpenCells
  <2>. QED
    BY <2>2, <2>3 DEF ChannelInv, StockInv, WorkersSee, SeesFor
<1>. QED
  BY <1>1, ChannelInit, ChannelStep, PTL DEF Spec, MoveClosesFirst

(***************************************************************************)
(* Verified nights stay closed.  A room control answers to nobody's        *)
(* booking: requestLineRoomControl checks no occupancy, so the theorem     *)
(* needs the caller's promise that none opens a night bookings close.      *)
(***************************************************************************)
RoomControlsApart == \A p, o \in Op :
  ProviderOnly(p) /\ ~ProviderOnly(o) => OpenCells(p) \cap ClosedCells(o) = {}

\* The nights a booking need not close any more: all of a verified booking's, and those
\* its current operation does not touch.
Kept(b, n) == \/ sync[b] = "verified"
              \/ sync[b] \in {"pending", "review_required"} /\ n \notin Cells(current[b])
NightsShut == \A b \in Booking : \A n \in stays[b] : Kept(b, n) => stock[n] = "shut"

\* An open operation never opens a night that a booking holds.
LEMMA NobodyOpens ==
  ASSUME TypeOK, BookingInv, RoomControlsApart, NEW p \in Op, Open(p),
         NEW b \in Booking, NEW n \in stays[b]
  PROVE  Job[p].wish[n] # "open"
<1>0. n \in Night
  BY DEF TypeOK
<1>1. SUFFICES ASSUME n \in OpenCells(p) PROVE FALSE
  BY <1>0 DEF OpenCells
<1>2. PICK o \in Op : ~ProviderOnly(o) /\ n \in ClosedCells(o)
  BY DEF BookingInv, StaysClosed
<1>3. CASE ProviderOnly(p)
  BY <1>1, <1>2, <1>3 DEF RoomControlsApart
<1>4. CASE ~ProviderOnly(p)
  <2>1. n \in ClosedCells(p)
    BY <1>1, <1>4 DEF BookingInv, FencesKept, Cells
  <2>. QED
    BY <1>1, <2>1 DEF OpenCells, ClosedCells
<1>. QED
  BY <1>3, <1>4

\* A shut night of a booking stays shut, whatever is written or lands.
LEMMA ShutStays ==
  ASSUME ChannelInv, RoomControlsApart, Next, "outside" \notin Faults,
         NEW b \in Booking, NEW n \in stays[b], stock[n] = "shut"
  PROVE  stock'[n] = "shut"
<1>0. /\ FreshInv /\ TypeOK /\ BookingInv /\ n \in Night /\ stock \in [Night -> Stock]
      /\ StockInv
  BY DEF ChannelInv, FreshInv, WriterInv, TypeOK
<1>1. ASSUME NEW w \in Worker, NEW m \in Night, Writes(w, m) PROVE stock'[n] = "shut"
  <2>1. /\ wk[w].op \in Op /\ Job[wk[w].op].wish[m] = wk[w].phase /\ wk[w].phase \in Wish
        /\ stock'[n] = stock[n] \/ (n = m /\ stock'[n] = Written(wk[w].phase))
    BY <1>0, <1>1, WriteFacts
  <2>2. Open(wk[w].op)
    BY <1>0, <1>1, WriteFacts DEF StockInv, WorkersOpen
  <2>3. n = m => wk[w].phase = "closed"
    BY <1>0, <2>1, <2>2, NobodyOpens DEF Wish
  <2>. QED
    BY <2>1, <2>3 DEF Written
<1>2. ASSUME NEW m \in Night, NEW phase \in Wish, Land(m, phase) PROVE stock'[n] = "shut"
  <2>1. PICK p \in Op : Open(p) /\ Job[p].wish[m] = phase
    BY <1>0, <1>2 DEF Land, StockInv, LateWrites
  <2>2. n = m => phase = "closed"
    BY <1>0, <1>2, <2>1, NobodyOpens DEF Wish
  <2>. QED
    BY <1>0, <1>2, <2>2 DEF Land, Written
<1>. QED
  BY <1>1, <1>2, ChannelMoves

\* A night is kept newly only by the readback that verifies its closing.
LEMMA KeptMoves ==
  ASSUME WriterInv, BookingInv, Next, NEW b \in Booking, NEW n \in stays'[b], Kept(b, n)'
  PROVE  \/ n \in stays[b] /\ Kept(b, n)
         \/ \E o \in Op : /\ opState[o] # "sync_verified" /\ opState'[o] = "sync_verified"
                          /\ n \in ClosedCells(o) /\ n \in stays[b]
<1>0. /\ TypeOK /\ opState \in [Op -> OpState] /\ sync \in [Booking -> SyncState]
      /\ current \in [Booking -> Op \cup {NoOp}] /\ stays \in [Booking -> SUBSET Night]
      /\ NoBooking \notin Booking
  BY NameAssumption DEF WriterInv, TypeOK
<1>a. ASSUME sync'[b] = sync[b], current'[b] = current[b] PROVE Kept(b, n)
  BY <1>a DEF Kept, Cells, ClosedCells, OpenCells
<1>b. ASSUME NEW c \in Booking, NEW s, SetSync(c, s)
      PROVE  sync'[b] = IF b = c THEN s ELSE sync[b]
  BY <1>0, <1>b DEF SetSync
<1>c. ASSUME NEW o \in Op PROVE Job[o].kind # "room_control" => Job[o].booking \in Booking
  BY JobAssumption DEF ProviderOnly
<1>1. CASE Service
  <2>1. ASSUME NEW o \in Op, CreateBooking(o) PROVE n \in stays[b] /\ Kept(b, n)
    <3>1. Job[o].booking \in Booking /\ SetSync(Job[o].booking, "pending")
          /\ current' = [current EXCEPT ![Job[o].booking] = o]
          /\ stays' = [stays EXCEPT ![Job[o].booking] = Cells(o)]
      BY <2>1, <1>c DEF CreateBooking
    <3>2. b # Job[o].booking
      BY <1>0, <1>b, <3>1 DEF Kept, Cells, ClosedCells, OpenCells
    <3>. QED
      BY <1>0, <1>a, <1>b, <3>1, <3>2
  <2>2. ASSUME NEW o \in Op, TakeNights(o) PROVE n \in stays[b] /\ Kept(b, n)
    <3>1. Job[o].booking \in Booking /\ UNCHANGED current
          /\ SetSync(Job[o].booking, IF ManualInitial(o) THEN "awaiting_manual_sync" ELSE "action_required")
          /\ stays' = [stays EXCEPT ![Job[o].booking] = Cells(o)]
      BY <2>2, <1>c DEF TakeNights
    <3>2. b # Job[o].booking
      BY <1>0, <1>b, <3>1 DEF Kept
    <3>. QED
      BY <1>0, <1>a, <1>b, <3>1, <3>2
  <2>3. ASSUME NEW o \in Op, RequestClose(o) PROVE n \in stays[b] /\ Kept(b, n)
    <3>1. Job[o].booking \in Booking /\ SetSync(Job[o].booking, "pending")
          /\ current' = [current EXCEPT ![Job[o].booking] = o]
          /\ UNCHANGED stays /\ stays[Job[o].booking] = Cells(o)
      BY <2>3, <1>c DEF RequestClose
    <3>2. b # Job[o].booking
      BY <1>0, <1>b, <3>1 DEF Kept, Cells, ClosedCells, OpenCells
    <3>. QED
      BY <1>0, <1>a, <1>b, <3>1, <3>2
  <2>4. ASSUME NEW o \in Op, MoveBooking(o) PROVE n \in stays[b] /\ Kept(b, n)
    <3>1. Job[o].booking \in Booking /\ SetSync(Job[o].booking, "pending")
          /\ sync[Job[o].booking] = "verified"
          /\ current' = [current EXCEPT ![Job[o].booking] = o]
          /\ stays' = [stays EXCEPT ![Job[o].booking] = (@ \cup ClosedCells(o)) \ OpenCells(o)]
      BY <2>4, <1>c DEF MoveBooking
    <3>2. CASE b = Job[o].booking
      <4>1. sync'[b] = "pending" /\ current'[b] = o /\ n \in stays[b] \cup ClosedCells(o)
        BY <1>0, <1>b, <3>1, <3>2
      <4>2. n \notin Cells(o)
        BY <4>1 DEF Kept, Cells, ClosedCells, OpenCells
      <4>. QED
        BY <3>1, <3>2, <4>1, <4>2 DEF Kept, Cells
    <3>3. CASE b # Job[o].booking
      BY <1>0, <1>a, <1>b, <3>1, <3>3
    <3>. QED
      BY <3>2, <3>3
  <2>5. ASSUME NEW o \in Op, CancelBooking(o) PROVE n \in stays[b] /\ Kept(b, n)
    <3>1. Job[o].booking \in Booking /\ SetSync(Job[o].booking, "pending")
          /\ current' = [current EXCEPT ![Job[o].booking] = o]
          /\ stays' = [stays EXCEPT ![Job[o].booking] = {}]
      BY <2>5, <1>c DEF CancelBooking
    <3>2. b # Job[o].booking
      BY <1>0, <3>1
    <3>. QED
      BY <1>0, <1>a, <1>b, <3>1, <3>2
  <2>6. ASSUME NEW o \in Op, RequestRoomControl(o) PROVE n \in stays[b] /\ Kept(b, n)
    BY <2>6, <1>a DEF RequestRoomControl
  <2>7. ASSUME NEW c \in Booking, CancelUnsettled(c) PROVE n \in stays[b] /\ Kept(b, n)
    <3>1. stays' = [stays EXCEPT ![c] = {}] /\ UNCHANGED current
          /\ (SetSync(c, "not_required") \/ SetSync(c, "review_required"))
      BY <2>7 DEF CancelUnsettled
    <3>2. b # c
      BY <1>0, <3>1
    <3>. QED
      BY <1>0, <1>a, <1>b, <3>1, <3>2
  <2>. QED
    BY <1>1, <2>1, <2>2, <2>3, <2>4, <2>5, <2>6, <2>7 DEF Service
<1>2. CASE UNCHANGED <<opState, stays, current, sync>>
  BY <1>2, <1>a
<1>3. ASSUME NEW o \in Op, Reviews(o) PROVE n \in stays[b] /\ Kept(b, n)
  <2>1. UNCHANGED <<stays, current>> /\ Open(o)
        /\ (UNCHANGED sync \/ (Job[o].booking # NoBooking
                               /\ sync' = [sync EXCEPT ![Job[o].booking] = "review_required"]))
    BY <1>3 DEF Reviews
  <2>2. CASE sync'[b] = sync[b]
    BY <1>a, <2>1, <2>2
  <2>3. CASE sync'[b] # sync[b]
    <3>1. b = Job[o].booking /\ ~ProviderOnly(o) /\ sync'[b] = "review_required"
      BY <1>0, <2>1, <2>3, JobAssumption
    <3>2. sync[b] \in {"pending", "review_required"}
      BY <2>1, <3>1 DEF BookingInv, OpenAwaited
    <3>. QED
      BY <2>1, <3>1, <3>2 DEF Kept, Cells, ClosedCells, OpenCells
  <2>. QED
    BY <2>2, <2>3
<1>4. ASSUME NEW o \in Op, Verifies(o)
      PROVE  \/ n \in stays[b] /\ Kept(b, n)
             \/ /\ opState[o] # "sync_verified" /\ opState'[o] = "sync_verified"
                /\ n \in ClosedCells(o) /\ n \in stays[b]
  <2>1. /\ UNCHANGED stays /\ Open(o) /\ opState[o] # "sync_verified" /\ opState'[o] = "sync_verified"
        /\ SetSync(Job[o].booking, "verified")
        /\ current' = current \/ current' = [current EXCEPT ![Job[o].booking] = NoOp]
    BY <1>0, <1>4 DEF Verifies, Open
  <2>2. CASE b # Job[o].booking
    <3>1. sync'[b] = sync[b] /\ current'[b] = current[b]
      BY <1>0, <2>1, <2>2 DEF SetSync
    <3>. QED
      BY <1>a, <2>1, <3>1
  <2>3. CASE b = Job[o].booking
    <3>1. ~ProviderOnly(o) /\ current[b] = o /\ sync[b] \in {"pending", "review_required"}
      BY <1>0, <2>1, <2>3, JobAssumption DEF BookingInv, OpenAwaited
    <3>2. CASE n \in Cells(o)
      BY <2>1, <3>1, <3>2 DEF BookingInv, FencesKept
    <3>3. CASE n \notin Cells(o)
      BY <2>1, <3>1, <3>3 DEF Kept
    <3>. QED
      BY <3>2, <3>3
  <2>. QED
    BY <2>2, <2>3
<1>. QED
  BY <1>1, <1>2, <1>3, <1>4, OrderMoves

LEMMA NightsShutStep ==
  ASSUME RoomControlsApart, "outside" \notin Faults
  PROVE  ChannelInv /\ NightsShut /\ [Next]_vars => NightsShut'
<1>. SUFFICES ASSUME ChannelInv, NightsShut, [Next]_vars PROVE NightsShut'
  OBVIOUS
<1>1. CASE UNCHANGED vars
  BY <1>1 DEF vars, NightsShut, Kept, Cells, ClosedCells, OpenCells
<1>2. CASE Next
  <2>0. FreshInv /\ WriterInv /\ BookingInv /\ StockInv
    BY DEF ChannelInv, FreshInv
  <2>1. SUFFICES ASSUME NEW b \in Booking, NEW n \in stays'[b], Kept(b, n)' PROVE stock'[n] = "shut"
    BY DEF NightsShut
  <2>2. n \in stays[b] /\ stock[n] = "shut"
    <3>1. CASE n \in stays[b] /\ Kept(b, n)
      BY <3>1 DEF NightsShut
    <3>2. ASSUME NEW o \in Op, opState[o] # "sync_verified", opState'[o] = "sync_verified",
                 n \in ClosedCells(o), n \in stays[b]
          PROVE  stock[n] = "shut"
      <4>1. n \in Cells(o) /\ Matches(o, n, stock[n])
        BY <1>2, <2>0, <3>2, VerifiedTruly DEF Cells
      <4>2. Job[o].wish[n] = "closed" /\ stock[n] \in {"open", "shut"}
        BY <2>0, <3>2 DEF ClosedCells, StockInv, PlainStock
      <4>. QED
        BY <4>1, <4>2, MatchIsWritten DEF Written
    <3>. QED
      BY <1>2, <2>0, <2>1, <3>1, <3>2, KeptMoves
  <2>. QED
    BY <1>2, <2>2, ShutStays
<1>. QED
  BY <1>1, <1>2

\* A booking the service reports as verified is not for sale on the channel, whatever was
\* moved, cancelled, recovered or delayed before: no late write of an earlier operation
\* reopens its nights.  The staff may not touch the channel, and no room control may open
\* a night that a booking closes (the service itself does not refuse one).
THEOREM VerifiedNightsStayClosedAlways ==
  ASSUME RoomControlsApart, "outside" \notin Faults
  PROVE  Spec => []VerifiedNightsStayClosed
<1>1. Init => NightsShut
  BY DEF Init, NightsShut
<1>2. NightsShut => VerifiedNightsStayClosed
  BY DEF NightsShut, Kept, VerifiedNightsStayClosed
<1>. QED
  BY <1>1, <1>2, ChannelInit, ChannelStep, NightsShutStep, PTL DEF Spec
=============================================================================
