--------------------------- MODULE ChannelDispatch ---------------------------
(***************************************************************************)
(* How one property's room nights are pushed to its booking channel        *)
(* (OwlNest).  A booking change persists a channel operation and a fence;  *)
(* overlapping worker ticks compete for the property's single dispatch     *)
(* claim, write the channel one night at a time, read it back, and settle  *)
(* the operation as sync_verified or review_required.  Settled reviews are *)
(* isolated as review holds so that other nights can still be dispatched.  *)
(* Operators recover or release a claim left behind by a stopped worker.   *)
(*                                                                         *)
(* Each transact() of the property repository is one action; everything    *)
(* between two transactions (reads, GETs, PUTs) is an action of its own.   *)
(***************************************************************************)
EXTENDS Naturals, Sequences, FiniteSets

CONSTANTS
  Night,      \* room nights of the property
  Booking,    \* booking ids
  Op,         \* channel operation keys
  Worker,     \* dispatcher invocations that may overlap (cron ticks, CLI)
  Operator,   \* humans running the recovery CLI
  Job,        \* Job[o]: what operation o asks of the channel
  Faults,     \* which failures the environment may produce
  NoOp, NoBooking, NoClaim

Wish == {"open", "closed"}
\* count/isLock of a night: (1,F) open, (>1,F) surplus, (0,F) or (n,T) half, (0,T) shut
Stock == {"open", "surplus", "half", "shut"}
JobKind == {"create", "manual_close", "line_close", "move", "cancel", "room_control"}
FaultKind == {"crash", "put_lost", "late_put", "observe", "login", "db", "outside", "stale"}
OpState == {"absent", "sync_pending", "sync_verified", "review_required"}
SyncState == {"none", "not_required", "awaiting_manual_sync", "action_required",
              "pending", "verified", "review_required"}

ClosedCells(o) == {n \in Night : Job[o].wish[n] = "closed"}
OpenCells(o) == {n \in Night : Job[o].wish[n] = "open"}
Cells(o) == ClosedCells(o) \cup OpenCells(o)
ProviderOnly(o) == Job[o].kind = "room_control"
ManualInitial(o) == Job[o].kind = "manual_close"
LineOp(o) == Job[o].kind \in {"room_control", "line_close"}
OwnCloseRequired(o) == Job[o].kind \in {"manual_close", "line_close"}

ASSUME JobAssumption ==
  /\ Job \in [Op -> [kind : JobKind, booking : Booking \cup {NoBooking},
                     wish : [Night -> Wish \cup {"keep"}]]]
  /\ \A o \in Op : /\ Cells(o) # {}
                   /\ Job[o].booking = NoBooking <=> ProviderOnly(o)
                   /\ Job[o].kind \in {"create", "manual_close", "line_close"} => OpenCells(o) = {}
                   /\ Job[o].kind = "cancel" => ClosedCells(o) = {}

Claim == [holder : Worker, op : Op, state : {"active", "review_required"}, settled : BOOLEAN]

ASSUME NameAssumption ==
  /\ NoOp \notin Op /\ NoBooking \notin Booking
  /\ Worker \cap Operator = {}
  /\ Faults \subseteq FaultKind
  /\ NoClaim \notin Claim

VARIABLES
  stock,     \* what the channel sells, per night
  inflight,  \* PUTs that timed out and may still take effect: <<night, wish>>
  puts,      \* history: <<operation, night>> of every PUT ever issued
  opState,   \* state of each channel operation
  queue,     \* operations in creation order
  openProof, \* initialOpenPreflight of each operation
  failures,  \* preflightFailures of each operation
  stays,     \* nights each confirmed booking occupies ({}: absent or cancelled)
  current,   \* channelOperationKey of each booking
  sync,      \* channelSyncState of each booking
  claim,     \* channelDispatch: the property's only dispatch claim
  holds,     \* channelReviewHolds, by the reviewed operation
  pinned,    \* processes whose expectedInventoryVersion is still the current one
  wk,        \* local state of every worker
  rd         \* local state of every operator

orderVars == <<stays, current>>
opVars == <<opState, queue, openProof, failures, stays, current, sync>>
gateVars == <<opVars, claim, holds, pinned>>
channelVars == <<stock, inflight, puts>>
vars == <<stock, inflight, puts, opState, queue, openProof, failures, stays,
          current, sync, claim, holds, pinned, wk, rd>>

WorkerPc == {"idle", "ready", "claimed", "observe", "preflight", "write",
             "reobserve", "record", "finish"}
\* Between acquiring the claim and settling it.
Dispatching == WorkerPc \ {"idle", "ready"}
Unseen == [n \in Night |-> "unseen"]
IdleWorker == [pc |-> "idle", op |-> NoOp, replaces |-> NoOp, phase |-> "closed",
               todo |-> {}, seen |-> Unseen, applied |-> {}, unknown |-> FALSE,
               verified |-> FALSE]
IdleOperator == [pc |-> "idle", op |-> NoOp, holder |-> NoOp, was |-> "absent",
                 seen |-> Unseen]

Init ==
  /\ stock \in [Night -> {"open"}]
  /\ inflight = {} /\ puts = {}
  /\ opState = [o \in Op |-> "absent"]
  /\ queue = <<>>
  /\ openProof = [o \in Op |-> "none"]
  /\ failures = [o \in Op |-> 0]
  /\ stays = [b \in Booking |-> {}]
  /\ current = [b \in Booking |-> NoOp]
  /\ sync = [b \in Booking |-> "none"]
  /\ claim = NoClaim
  /\ holds = {}
  /\ pinned = {}
  /\ wk = [w \in Worker |-> IdleWorker]
  /\ rd = [r \in Operator |-> IdleOperator]

(***************************************************************************)
(* Room-night bookkeeping shared by the service handlers.                  *)
(***************************************************************************)
Open(o) == opState[o] \in {"sync_pending", "review_required"}
\* The operation's fence lives until its verified readback; room controls have none.
Fence_ClosedOnly(o) == IF Open(o) /\ ~ProviderOnly(o) THEN ClosedCells(o) ELSE {}
Fence(o) == IF Open(o) /\ ~ProviderOnly(o) THEN Cells(o) ELSE {}
HasConflict(N, b, o) ==
  \/ \E p \in Op \ {o} : Fence(p) \cap N # {}
  \/ \E c \in Booking \ {b} : stays[c] \cap N # {}

SetSync(b, s) == sync' = IF b = NoBooking THEN sync ELSE [sync EXCEPT ![b] = s]
\* Every inventory version bump invalidates the versions operators pinned.
Bump == pinned' = {}
BumpUnless(o) == pinned' = IF ProviderOnly(o) THEN pinned ELSE {}

Enqueue(o) ==
  /\ opState[o] = "absent"
  /\ opState' = [opState EXCEPT ![o] = "sync_pending"]
  /\ queue' = Append(queue, o)
  /\ UNCHANGED <<openProof, failures, claim, holds, channelVars, wk, rd>>

(***************************************************************************)
(* channelReviewBlock: may these nights be dispatched at all?              *)
(***************************************************************************)
UnderReviewClaim == IF claim # NoClaim /\ claim.state = "review_required"
                    THEN {claim.op} ELSE {}
ScopeUnavailable_Never == FALSE
ScopeUnavailable ==
  \/ \E h \in holds \cup UnderReviewClaim : opState[h] # "review_required"
  \/ holds \cap UnderReviewClaim # {}
ReviewOverlap(N) == \E h \in holds \cup UnderReviewClaim : Cells(h) \cap N # {}
LegacyReview == UnderReviewClaim # {} /\ ~claim.settled
ReviewBlocked_ScopeOnly(N, allowLegacy) == ScopeUnavailable \/ (LegacyReview /\ ~allowLegacy)
ReviewBlocked(N, allowLegacy) ==
  \/ ScopeUnavailable
  \/ ReviewOverlap(N)
  \/ (LegacyReview /\ ~allowLegacy)
ClaimActive == claim # NoClaim /\ claim.state = "active"

(***************************************************************************)
(* The service handlers that create and withdraw channel operations.       *)
(***************************************************************************)
\* createBooking / applySourceEvent: booking, operation and fence in one commit.
CreateBooking(o) == LET b == Job[o].booking IN
  /\ Job[o].kind = "create"
  /\ sync[b] = "none"
  /\ ~HasConflict(Cells(o), b, NoOp)
  /\ Enqueue(o)
  /\ stays' = [stays EXCEPT ![b] = Cells(o)]
  /\ current' = [current EXCEPT ![b] = o]
  /\ SetSync(b, "pending")
  /\ Bump

\* createBooking by OS (awaiting_manual_sync) or by LINE (action_required):
\* the nights are taken but nothing is sent to the channel yet.
TakeNights(o) == LET b == Job[o].booking IN
  /\ Job[o].kind \in {"manual_close", "line_close"}
  /\ sync[b] = "none"
  /\ ~HasConflict(Cells(o), b, NoOp)
  /\ stays' = [stays EXCEPT ![b] = Cells(o)]
  /\ SetSync(b, IF ManualInitial(o) THEN "awaiting_manual_sync" ELSE "action_required")
  /\ Bump
  /\ UNCHANGED <<opState, queue, openProof, failures, current, claim, holds,
                 channelVars, wk, rd>>

\* requestManualChannelSync / requestLineChannelAction(closed)
RequestClose(o) == LET b == Job[o].booking IN
  /\ Job[o].kind \in {"manual_close", "line_close"}
  /\ sync[b] = IF ManualInitial(o) THEN "awaiting_manual_sync" ELSE "action_required"
  /\ stays[b] = Cells(o)
  /\ ~HasConflict(Cells(o), b, NoOp)
  /\ Enqueue(o)
  /\ current' = [current EXCEPT ![b] = o]
  /\ SetSync(b, "pending")
  /\ Bump
  /\ UNCHANGED stays

\* amendBooking by OS of a verified direct booking: close the new nights, open the old.
MoveBooking(o) == LET b == Job[o].booking IN
  /\ Job[o].kind = "move"
  /\ sync[b] = "verified"
  /\ OpenCells(o) \subseteq stays[b]
  /\ ClosedCells(o) \cap stays[b] = {}
  /\ ~HasConflict((stays[b] \cup ClosedCells(o)) \ OpenCells(o), b, NoOp)
  /\ Enqueue(o)
  /\ stays' = [stays EXCEPT ![b] = (@ \cup ClosedCells(o)) \ OpenCells(o)]
  /\ current' = [current EXCEPT ![b] = o]
  /\ SetSync(b, "pending")
  /\ Bump

\* cancelBooking with no closing job outstanding: its nights must be opened again.
CancelBooking(o) == LET b == Job[o].booking IN
  /\ Job[o].kind = "cancel"
  /\ sync[b] \in {"verified", "action_required"}
  /\ stays[b] = Cells(o)
  /\ Enqueue(o)
  /\ stays' = [stays EXCEPT ![b] = {}]
  /\ current' = [current EXCEPT ![b] = o]
  /\ SetSync(b, "pending")
  /\ Bump

\* cancelBooking while the channel is not settled: the operation goes to review.
CancelUnsettled(b) ==
  /\ stays[b] # {}
  /\ sync[b] \in {"awaiting_manual_sync", "pending", "review_required"}
  /\ stays' = [stays EXCEPT ![b] = {}]
  /\ IF sync[b] = "awaiting_manual_sync"
     THEN SetSync(b, "not_required") /\ UNCHANGED opState
     ELSE /\ opState' = [opState EXCEPT ![current[b]] = "review_required"]
          /\ SetSync(b, "review_required")
  /\ Bump
  /\ UNCHANGED <<queue, openProof, failures, current, claim, holds, channelVars, wk, rd>>

\* requestLineRoomControl: provider-only, no booking, no fence, no version bump.
RequestRoomControl(o) ==
  /\ ProviderOnly(o)
  /\ ~ReviewBlocked(Cells(o), FALSE)
  /\ Enqueue(o)
  /\ UNCHANGED <<stays, current, sync, pinned>>

(***************************************************************************)
(* A settlement that is not a verified readback.                           *)
(***************************************************************************)
SettleAsReview(o) == LET b == Job[o].booking IN
  /\ opState' = [opState EXCEPT ![o] = "review_required"]
  /\ SetSync(IF b # NoBooking /\ current[b] = o THEN b ELSE NoBooking, "review_required")
  /\ BumpUnless(o)

(***************************************************************************)
(* channel-worker: one tick.                                               *)
(***************************************************************************)
Go(w, changes) == wk' = [wk EXCEPT ![w] = changes]
Stop(w) == Go(w, IdleWorker)

Dispatchable(o) == opState[o] = "sync_pending" /\ ~ReviewBlocked(Cells(o), FALSE)
NextInQueue(o) == \E i \in DOMAIN queue :
  /\ queue[i] = o /\ Dispatchable(o)
  /\ \A j \in 1..(i - 1) : ~Dispatchable(queue[j])

\* pendingChannelOperations(limit 1): the oldest dispatchable operation.
PollQueue(w, o) ==
  /\ wk[w].pc = "idle" /\ ~ClaimActive
  /\ NextInQueue(o)
  /\ Go(w, [IdleWorker EXCEPT !.pc = "ready", !.op = o])
  /\ UNCHANGED <<gateVars, channelVars, rd>>

\* runOne with a target: a confirmation accelerates its own durable job.
PollTarget(w, o) ==
  /\ wk[w].pc = "idle" /\ ~ClaimActive
  /\ Dispatchable(o)
  /\ Go(w, [IdleWorker EXCEPT !.pc = "ready", !.op = o])
  /\ UNCHANGED <<gateVars, channelVars, rd>>

\* transferReviewedChannelOperation: an operator isolates the reviewed claim and
\* runs one room control; the evidence is pinned to the current version.
PollTransfer(w, o) ==
  /\ Operator # {}
  /\ wk[w].pc = "idle"
  /\ UnderReviewClaim # {} /\ opState[claim.op] = "review_required"
  /\ ProviderOnly(o) /\ opState[o] = "sync_pending"
  /\ ~ReviewBlocked(Cells(o), TRUE)
  /\ Go(w, [IdleWorker EXCEPT !.pc = "ready", !.op = o, !.replaces = claim.op])
  /\ pinned' = pinned \cup {w}
  /\ UNCHANGED <<opVars, claim, holds, channelVars, rd>>

\* reviewUndispatchedLineOperation("stale-claim"): the claim is 7 minutes old or
\* already in review, yet its LINE operation still pends.  The claim stays.
StaleClaimReview(w) ==
  /\ "stale" \in Faults
  /\ wk[w].pc = "idle"
  /\ claim # NoClaim /\ LineOp(claim.op) /\ opState[claim.op] = "sync_pending"
  /\ SettleAsReview(claim.op)
  /\ UNCHANGED <<queue, openProof, failures, orderVars, claim, holds, channelVars, wk, rd>>

\* The owner login fails before any claim: reviewUndispatchedLineOperation("preflight").
LoginFails(w) == LET o == wk[w].op IN
  /\ "login" \in Faults
  /\ wk[w].pc = "ready" /\ wk[w].replaces = NoOp
  /\ IF LineOp(o) /\ Dispatchable(o) /\ ~ClaimActive
     THEN /\ failures' = [failures EXCEPT ![o] = @ + 1]
          /\ IF failures[o] < 2 THEN UNCHANGED <<opState, sync, pinned>>
                                ELSE SettleAsReview(o)
     ELSE UNCHANGED <<failures, opState, sync, pinned>>
  /\ Stop(w)
  /\ UNCHANGED <<queue, openProof, orderVars, claim, holds, channelVars, rd>>

\* createChannelDispatchClaim: admission is decided again inside the transaction.
Admitted_TrustsPoll(w) == opState[wk[w].op] = "sync_pending"
Admitted(w) == LET o == wk[w].op  transfer == wk[w].replaces # NoOp IN
  /\ ~ClaimActive
  /\ opState[o] = "sync_pending"
  /\ transfer => /\ w \in pinned
                 /\ UnderReviewClaim = {wk[w].replaces} /\ wk[w].replaces # o
                 /\ ProviderOnly(o)
  /\ ~ReviewBlocked(Cells(o), transfer)
Acquire(w) ==
  /\ wk[w].pc = "ready"
  /\ Admitted(w)
  /\ holds' = holds \cup UnderReviewClaim
  /\ claim' = [holder |-> w, op |-> wk[w].op, state |-> "active", settled |-> FALSE]
  /\ Go(w, [wk[w] EXCEPT !.pc = "claimed", !.replaces = NoOp])
  /\ pinned' = pinned \ {w}
  /\ UNCHANGED <<opVars, channelVars, rd>>
Refused(w) ==
  /\ wk[w].pc = "ready"
  /\ ~Admitted(w)
  /\ Stop(w)
  /\ pinned' = pinned \ {w}
  /\ UNCHANGED <<opVars, claim, holds, channelVars, rd>>

(***************************************************************************)
(* channel-runner: observe, close, observe, open, observe, record.         *)
(***************************************************************************)
Snapshot(o) == [n \in Night |-> IF n \in Cells(o) THEN stock[n] ELSE "unseen"]
Matches(o, n, s) ==
  IF Job[o].wish[n] = "closed"
  THEN s \in (IF ProviderOnly(o) THEN {"shut"} ELSE {"half", "shut"})
  ELSE s \in (IF ProviderOnly(o) THEN {"open"} ELSE {"open", "surplus"})
Unsatisfied(o, phase, seen) ==
  {n \in Cells(o) : Job[o].wish[n] = phase /\ ~Matches(o, n, seen[n])}
Written_Wish(phase) == phase
Written(phase) == IF phase = "closed" THEN "shut" ELSE "open"

\* The worker's next stop once phase "closed" (or the first look) left it with seen.
EnterOpen(l) ==
  IF Unsatisfied(l.op, "open", l.seen) # {}
  THEN [l EXCEPT !.pc = "write", !.phase = "open",
                 !.todo = Unsatisfied(l.op, "open", l.seen)]
  ELSE [l EXCEPT !.pc = "record"]
EnterClosed(l) ==
  IF Unsatisfied(l.op, "closed", l.seen) # {}
  THEN [l EXCEPT !.pc = "write", !.phase = "closed",
                 !.todo = Unsatisfied(l.op, "closed", l.seen)]
  ELSE EnterOpen(l)
Failed_Escapes(l) == IdleWorker
Failed(l) == [l EXCEPT !.pc = "finish", !.verified = FALSE]

LoadOperation(w) ==
  /\ wk[w].pc = "claimed"
  /\ Go(w, IF opState[wk[w].op] = "sync_pending" THEN [wk[w] EXCEPT !.pc = "observe"]
                                                 ELSE Failed(wk[w]))
  /\ UNCHANGED <<gateVars, channelVars, rd>>

FirstObserve(w) == LET l == [wk[w] EXCEPT !.seen = Snapshot(wk[w].op)] IN
  /\ wk[w].pc = "observe"
  /\ Go(w, IF ManualInitial(l.op) THEN [l EXCEPT !.pc = "preflight"] ELSE EnterClosed(l))
  /\ UNCHANGED <<gateVars, channelVars, rd>>

ObserveFails(w) ==
  /\ "observe" \in Faults
  /\ wk[w].pc \in {"observe", "reobserve"}
  /\ Go(w, Failed(wk[w]))
  /\ UNCHANGED <<gateVars, channelVars, rd>>

\* recordManualChannelPreflight: every night must be on sale before it is closed.
RecordPreflight(w) == LET o == wk[w].op  b == Job[o].booking
                          open == \A n \in Cells(o) : wk[w].seen[n] \in {"open", "surplus"} IN
  /\ wk[w].pc = "preflight"
  /\ IF /\ opState[o] = "sync_pending" /\ openProof[o] = "none"
        /\ ClaimActive /\ claim.op = o
        /\ current[b] = o /\ sync[b] = "pending" /\ stays[b] # {}
     THEN /\ openProof' = [openProof EXCEPT ![o] = IF open THEN "open" ELSE "blocked"]
          /\ IF open THEN UNCHANGED <<opState, sync>> /\ Bump
                     ELSE SettleAsReview(o)
          /\ Go(w, IF open THEN EnterClosed(wk[w]) ELSE Failed(wk[w]))
     ELSE Go(w, Failed(wk[w])) /\ UNCHANGED <<openProof, opState, sync, pinned>>
  /\ UNCHANGED <<queue, failures, orderVars, claim, holds, channelVars, rd>>

\* provider.setNight, acknowledged.
Put(w, n) == LET l == wk[w] IN
  /\ l.pc = "write" /\ n \in l.todo
  /\ stock' = [stock EXCEPT ![n] = Written(l.phase)]
  /\ puts' = puts \cup {<<l.op, n>>}
  /\ Go(w, [l EXCEPT !.todo = @ \ {n},
                     !.applied = IF l.phase = "closed" THEN @ \cup {n} ELSE @,
                     !.pc = IF l.todo = {n} THEN "reobserve" ELSE "write"])
  /\ UNCHANGED <<gateVars, inflight, rd>>

PutUnknown_TriesAgain(w, n) == LET l == wk[w] IN
  /\ l.pc = "write" /\ n \in l.todo
  /\ "put_lost" \in Faults
  /\ puts' = puts \cup {<<l.op, n>>}
  /\ UNCHANGED <<gateVars, stock, inflight, wk, rd>>

\* provider.setNight with an unknown outcome: applied, lost, or still under way.
PutUnknown(w, n) == LET l == wk[w] IN
  /\ l.pc = "write" /\ n \in l.todo
  /\ "put_lost" \in Faults
  /\ \/ stock' = [stock EXCEPT ![n] = Written(l.phase)] /\ UNCHANGED inflight
     \/ UNCHANGED <<stock, inflight>>
     \/ /\ "late_put" \in Faults
        /\ inflight' = inflight \cup {<<n, l.phase>>} /\ UNCHANGED stock
  /\ puts' = puts \cup {<<l.op, n>>}
  /\ Go(w, [l EXCEPT !.todo = {}, !.unknown = TRUE, !.pc = "reobserve"])
  /\ UNCHANGED <<gateVars, rd>>

Reobserve_OpensAnyway(w) == LET l == [wk[w] EXCEPT !.seen = Snapshot(wk[w].op)] IN
  /\ wk[w].pc = "reobserve"
  /\ Go(w, IF l.phase = "open" THEN [l EXCEPT !.pc = "record"] ELSE EnterOpen(l))
  /\ UNCHANGED <<gateVars, channelVars, rd>>

\* Fresh GETs after the writes; the bounded retries may see the same stock again.
Reobserve(w) == LET l == [wk[w] EXCEPT !.seen = Snapshot(wk[w].op)] IN
  /\ wk[w].pc = "reobserve"
  /\ Go(w, IF l.unknown \/ l.phase = "open" \/ Unsatisfied(l.op, "closed", l.seen) # {}
           THEN [l EXCEPT !.pc = "record"] ELSE EnterOpen(l))
  /\ UNCHANGED <<gateVars, channelVars, rd>>

(***************************************************************************)
(* recordChannelReadback                                                   *)
(***************************************************************************)
OwnsNights(o) == LET b == Job[o].booking IN
  IF ProviderOnly(o) THEN claim # NoClaim /\ claim.op = o
  ELSE /\ current[b] = o
       /\ \A n \in ClosedCells(o) :
            \/ n \in stays[b]
            \/ ~OwnCloseRequired(o) /\ n \notin stays[b] /\ HasConflict({n}, b, o)
       /\ \A n \in OpenCells(o) : n \notin stays[b] /\ ~HasConflict({n}, b, o)
Accepted_OnAcknowledgement(o, seen, applied) == OwnsNights(o)
Accepted_FinalStockOnly(o, seen, applied) ==
  OwnsNights(o) /\ \A n \in Cells(o) : Matches(o, n, seen[n])
Accepted(o, seen, applied) ==
  /\ \A n \in Cells(o) : Matches(o, n, seen[n])
  /\ OwnsNights(o)
  /\ OwnCloseRequired(o) => applied = ClosedCells(o)
  /\ ManualInitial(o) => /\ opState[o] = "sync_pending" /\ openProof[o] = "open"
                         /\ ClaimActive /\ claim.op = o

\* A verified LINE action hands the booking back (updateLinePending clears the key).
RecordReadback(o, seen, applied) == LET b == Job[o].booking IN
  IF opState[o] = "sync_verified" THEN UNCHANGED <<opState, sync, current, pinned>>
  ELSE IF Accepted(o, seen, applied)
  THEN /\ opState' = [opState EXCEPT ![o] = "sync_verified"]
       /\ SetSync(b, "verified")
       /\ current' = IF Job[o].kind = "line_close" THEN [current EXCEPT ![b] = NoOp] ELSE current
       /\ BumpUnless(o)
  ELSE /\ opState' = [opState EXCEPT ![o] = "review_required"]
       /\ SetSync(b, "review_required")
       /\ BumpUnless(o)
       /\ UNCHANGED current

Record(w) == LET l == wk[w] IN
  /\ l.pc = "record"
  /\ RecordReadback(l.op, l.seen, l.applied)
  /\ \/ Go(w, [l EXCEPT !.pc = "finish", !.verified = (opState'[l.op] = "sync_verified")])
     \/ "db" \in Faults /\ Go(w, Failed(l))        \* committed, acknowledgement lost
  /\ UNCHANGED <<queue, openProof, failures, stays, claim, holds, channelVars, rd>>
RecordFails(w) ==
  /\ "db" \in Faults
  /\ wk[w].pc \in {"claimed", "preflight", "record"}
  /\ Go(w, Failed(wk[w]))
  /\ UNCHANGED <<gateVars, channelVars, rd>>

(***************************************************************************)
(* createChannelDispatchClaim.finish and the ways a worker stops.          *)
(***************************************************************************)
HoldsClaim(w) == ClaimActive /\ claim.holder = w /\ claim.op = wk[w].op
HasVerified_Never(w) == FALSE
HasVerified(w) == wk[w].verified /\ opState[wk[w].op] = "sync_verified"

\* Only a verified operation releases the claim; every other end persists a review.
Finish(w) == LET o == wk[w].op IN
  /\ wk[w].pc = "finish"
  /\ IF ~HasVerified(w) /\ HoldsClaim(w)
     THEN /\ claim' = [claim EXCEPT !.state = "review_required", !.settled = TRUE]
          /\ IF opState[o] = "sync_pending" THEN SettleAsReview(o)
                                            ELSE UNCHANGED <<opState, sync, pinned>>
     ELSE /\ claim' = IF HoldsClaim(w) THEN NoClaim ELSE claim
          /\ UNCHANGED <<opState, sync, pinned>>
  /\ Stop(w)
  /\ UNCHANGED <<queue, openProof, failures, orderVars, holds, channelVars, rd>>

\* The settling transaction fails: it is tried once more as a failure, then given
\* up, and the claim stays active.
FinishFails(w) ==
  /\ "db" \in Faults
  /\ wk[w].pc = "finish"
  /\ IF wk[w].verified THEN Go(w, Failed(wk[w])) ELSE Stop(w)
  /\ UNCHANGED <<gateVars, channelVars, rd>>

\* The process dies between any two of its steps; nothing but its memory is lost.
Crash(w) ==
  /\ "crash" \in Faults
  /\ wk[w].pc # "idle"
  /\ Stop(w)
  /\ pinned' = pinned \ {w}
  /\ UNCHANGED <<opVars, claim, holds, channelVars, rd>>

(***************************************************************************)
(* The channel itself.                                                     *)
(***************************************************************************)
\* Staff or a guest change the night at the channel's own console.
OutsideChange(n, s) ==
  /\ "outside" \in Faults
  /\ stock[n] # s
  /\ stock' = [stock EXCEPT ![n] = s]
  /\ UNCHANGED <<inflight, puts, gateVars, wk, rd>>

\* A PUT that had timed out at the caller takes effect after all.
Land(n, phase) ==
  /\ <<n, phase>> \in inflight
  /\ stock' = [stock EXCEPT ![n] = Written(phase)]
  /\ inflight' = inflight \ {<<n, phase>>}
  /\ UNCHANGED <<puts, gateVars, wk, rd>>

(***************************************************************************)
(* recoverChannelClaim: an operator settles a claim whose worker is gone.  *)
(***************************************************************************)
Answer(r, changes) == rd' = [rd EXCEPT ![r] = changes]
Abandon(r) == Answer(r, IdleOperator)
ClaimUnmoved(r) == claim # NoClaim /\ claim.holder = rd[r].holder /\ claim.op = rd[r].op

\* The runbook stops the original worker before recovering its active claim.
StartRecover(r) ==
  /\ rd[r].pc = "idle"
  /\ claim # NoClaim
  /\ ClaimActive => wk[claim.holder].pc \notin Dispatching
  /\ Answer(r, [IdleOperator EXCEPT !.pc = "load", !.op = claim.op, !.holder = claim.holder])
  /\ UNCHANGED <<gateVars, channelVars, wk>>

RecoverLoad(r) == LET o == rd[r].op IN
  /\ rd[r].pc = "load"
  /\ Answer(r, [rd[r] EXCEPT !.was = opState[o],
                  !.pc = IF ManualInitial(o) /\ opState[o] # "sync_verified"
                         THEN "mark" ELSE "observe"])
  /\ UNCHANGED <<gateVars, channelVars, wk>>

\* An interrupted manual close is never proven by final stock alone.
RecoverMark(r) == LET o == rd[r].op  b == Job[rd[r].op].booking IN
  /\ rd[r].pc = "mark"
  /\ IF /\ ClaimUnmoved(r) /\ current[b] = o /\ Open(o)
        /\ opState[o] = "sync_pending" \/ ClaimActive
     THEN SettleAsReview(o) /\ claim' = [claim EXCEPT !.state = "review_required"]
     ELSE UNCHANGED <<opState, sync, pinned, claim>>
  /\ Abandon(r)
  /\ UNCHANGED <<queue, openProof, failures, orderVars, holds, channelVars, wk>>

AllMatch(o, seen) == \A n \in Cells(o) : Matches(o, n, seen[n])
RecoverObserve(r) == LET seen == Snapshot(rd[r].op) IN
  /\ rd[r].pc = "observe"
  /\ IF rd[r].was # "sync_verified"
     THEN Answer(r, [rd[r] EXCEPT !.seen = seen, !.pc = "record"])
     ELSE IF AllMatch(rd[r].op, seen)
          THEN Answer(r, [rd[r] EXCEPT !.seen = seen, !.pc = "clear"])
          ELSE Abandon(r)
  /\ UNCHANGED <<gateVars, channelVars, wk>>

\* The readback is recorded for the operation, whatever became of the claim.
RecoverRecord(r) == LET o == rd[r].op IN
  /\ rd[r].pc = "record"
  /\ RecordReadback(o, rd[r].seen, {})
  /\ IF AllMatch(o, rd[r].seen) /\ opState'[o] = "sync_verified"
     THEN Answer(r, [rd[r] EXCEPT !.pc = "clear"]) ELSE Abandon(r)
  /\ UNCHANGED <<queue, openProof, failures, stays, claim, holds, channelVars, wk>>

RecoverClear(r) == LET o == rd[r].op  b == Job[rd[r].op].booking IN
  /\ rd[r].pc = "clear"
  /\ claim' = IF /\ ClaimUnmoved(r) /\ opState[o] = "sync_verified"
                 /\ b # NoBooking => current[b] = o /\ sync[b] = "verified"
                 /\ Fence(o) = {}
              THEN NoClaim ELSE claim
  /\ Abandon(r)
  /\ UNCHANGED <<opVars, holds, pinned, channelVars, wk>>

(***************************************************************************)
(* releaseReviewedManualClaim: an operator quarantines a reviewed close.   *)
(***************************************************************************)
Releasable(o) == LET b == Job[o].booking IN
  /\ UnderReviewClaim = {o} /\ ManualInitial(o) /\ opState[o] = "review_required"
  /\ current[b] = o /\ sync[b] = "review_required"

StartRelease(r) ==
  /\ rd[r].pc = "idle"
  /\ claim # NoClaim /\ Releasable(claim.op)
  /\ Answer(r, [IdleOperator EXCEPT !.pc = "inspect", !.op = claim.op, !.holder = claim.holder])
  /\ pinned' = pinned \cup {r}
  /\ UNCHANGED <<opVars, claim, holds, channelVars, wk>>

\* No night may still be on sale when its review is released.
ReleaseObserve(r) == LET o == rd[r].op IN
  /\ rd[r].pc = "inspect"
  /\ IF \E n \in Cells(o) : stock[n] \in {"open", "surplus"}
     THEN Abandon(r) /\ pinned' = pinned \ {r}
     ELSE Answer(r, [rd[r] EXCEPT !.pc = "release"]) /\ UNCHANGED pinned
  /\ UNCHANGED <<opVars, claim, holds, channelVars, wk>>

Release(r) == LET o == rd[r].op IN
  /\ rd[r].pc = "release"
  /\ IF /\ r \in pinned /\ ClaimUnmoved(r) /\ Releasable(o)
        /\ \A p \in Op \ {o} : opState[p] = "sync_pending" => Cells(p) \cap Cells(o) = {}
     THEN claim' = NoClaim /\ Bump
     ELSE pinned' = pinned \ {r} /\ UNCHANGED claim
  /\ Abandon(r)
  /\ UNCHANGED <<opVars, holds, channelVars, wk>>

\* The CLI is stopped, or loses its database, between two of its steps.
OperatorStops(r) ==
  /\ "db" \in Faults
  /\ rd[r].pc # "idle"
  /\ Abandon(r)
  /\ pinned' = pinned \ {r}
  /\ UNCHANGED <<opVars, claim, holds, channelVars, wk>>

(***************************************************************************)
(* The system.                                                             *)
(***************************************************************************)
Service ==
  \/ \E o \in Op : \/ CreateBooking(o) \/ TakeNights(o) \/ RequestClose(o)
                   \/ MoveBooking(o) \/ CancelBooking(o) \/ RequestRoomControl(o)
  \/ \E b \in Booking : CancelUnsettled(b)
WorkerStep(w) ==
  \/ \E o \in Op : PollQueue(w, o) \/ PollTarget(w, o) \/ PollTransfer(w, o)
  \/ StaleClaimReview(w) \/ LoginFails(w) \/ Acquire(w) \/ Refused(w)
  \/ LoadOperation(w) \/ FirstObserve(w) \/ ObserveFails(w) \/ RecordPreflight(w)
  \/ \E n \in Night : Put(w, n) \/ PutUnknown(w, n)
  \/ Reobserve(w) \/ Record(w) \/ RecordFails(w) \/ Finish(w) \/ FinishFails(w)
Channel ==
  \/ \E n \in Night, s \in Stock : OutsideChange(n, s)
  \/ \E n \in Night, phase \in Wish : Land(n, phase)
OperatorStep(r) ==
  \/ StartRecover(r) \/ RecoverLoad(r) \/ RecoverMark(r) \/ RecoverObserve(r)
  \/ RecoverRecord(r) \/ RecoverClear(r)
  \/ StartRelease(r) \/ ReleaseObserve(r) \/ Release(r) \/ OperatorStops(r)
Next ==
  \/ Service
  \/ \E w \in Worker : WorkerStep(w) \/ Crash(w)
  \/ Channel
  \/ \E r \in Operator : OperatorStep(r)

Spec == Init /\ [][Next]_vars
\* The scheduler starts a tick every five minutes and each invocation runs on.
FairSpec == Spec /\ \A w \in Worker : WF_vars(WorkerStep(w))
\* An operator who recovers claims keeps answering until none is left.
RecoveredSpec == FairSpec /\ \A r \in Operator : WF_vars(OperatorStep(r))

(***************************************************************************)
(* Correctness.                                                            *)
(***************************************************************************)
OperatorPc == {"idle", "load", "mark", "observe", "record", "clear", "inspect", "release"}
WorkerState == [pc : WorkerPc, op : Op \cup {NoOp}, replaces : Op \cup {NoOp}, phase : Wish,
                todo : SUBSET Night, seen : [Night -> Stock \cup {"unseen"}],
                applied : SUBSET Night, unknown : BOOLEAN, verified : BOOLEAN]
OperatorState == [pc : OperatorPc, op : Op \cup {NoOp}, holder : Worker \cup {NoOp},
                  was : OpState, seen : [Night -> Stock \cup {"unseen"}]]

\* Every variable has its type; a busy worker or operator works on an operation.
TypeOK ==
  /\ stock \in [Night -> Stock]
  /\ inflight \subseteq Night \X Wish
  /\ puts \subseteq Op \X Night
  /\ opState \in [Op -> OpState]
  /\ queue \in Seq(Op)
  /\ openProof \in [Op -> {"none", "open", "blocked"}]
  /\ failures \in [Op -> Nat]
  /\ stays \in [Booking -> SUBSET Night]
  /\ current \in [Booking -> Op \cup {NoOp}]
  /\ sync \in [Booking -> SyncState]
  /\ claim \in Claim \cup {NoClaim}
  /\ holds \subseteq Op
  /\ pinned \subseteq Worker \cup Operator
  /\ wk \in [Worker -> WorkerState]
  /\ \A w \in Worker : wk[w].pc # "idle" => wk[w].op \in Op
  /\ rd \in [Operator -> OperatorState]
  /\ \A r \in Operator : rd[r].pc # "idle" => rd[r].op \in Op

Busy(w) == wk[w].pc \in Dispatching

\* One writer per property: every worker between acquisition and settlement holds
\* the active claim, whatever ticks overlapped, crashed or were recovered.
OneWriter == \A w \in Worker : Busy(w) => HoldsClaim(w)

\* The scopes under a claim or a review hold never share a room night, so nothing
\* is dispatched to a night whose last outcome is still under review.
ScopesDisjoint ==
  LET scopes == holds \cup (IF claim = NoClaim THEN {} ELSE {claim.op}) IN
  /\ ClaimActive => claim.op \notin holds
  /\ \A o, p \in scopes : o # p => Cells(o) \cap Cells(p) = {}

\* A night of an operation is PUT at most once in the operation's whole life:
\* neither a later tick nor a restart nor recovery reissues an uncertain write.
NeverReissued == \A w \in Worker : wk[w].pc = "write" =>
                   \A n \in wk[w].todo : <<wk[w].op, n>> \notin puts

\* A move PUTs an old night open only while each of its new nights really is closed
\* on the channel (no hand but the workers' changes the channel).
MoveClosesFirst == [][\A o \in Op, n \in Night :
  <<o, n>> \in puts' \ puts /\ n \in OpenCells(o) =>
     \A m \in ClosedCells(o) : stock[m] \in {"half", "shut"}]_vars

\* The transaction that turns an operation sync_verified commits a true statement
\* about the channel, although the readback was taken before it.
VerifiedIsTrue == [][\A o \in Op :
  opState[o] # "sync_verified" /\ opState'[o] = "sync_verified" =>
     \A n \in Cells(o) : Matches(o, n, stock[n])]_vars

\* A confirmed booking the service reports as verified is not for sale on the
\* channel: no delayed write of an earlier operation on its nights can reopen it.
VerifiedNightsStayClosed == \A b \in Booking : sync[b] = "verified" =>
  \A n \in stays[b] : stock[n] \in {"half", "shut"}

\* Each review hold still describes an operation under review; a hold that does not
\* makes channelReviewBlock refuse every operation of the property for good.
HoldsReviewed == \A h \in holds : opState[h] = "review_required"

\* Without crashes every claim is settled.
ClaimsSettle == ClaimActive ~> ~ClaimActive

\* A pending operation is settled, or shares a night with one under review: an
\* uncertain room night never stops the others.
OthersProceed == \A o \in Op :
  (opState[o] = "sync_pending") ~> (opState[o] # "sync_pending" \/ ReviewOverlap(Cells(o)))

\* A close that only the service itself may claim is verified only after the service
\* PUT every one of its nights: a night that staff closed is never taken for it.
OwnCloseProven == [][\A o \in Op :
  OwnCloseRequired(o) /\ opState[o] # "sync_verified" /\ opState'[o] = "sync_verified" =>
     \A n \in ClosedCells(o) : <<o, n>> \in puts]_vars

\* The runbook's recovery ends: a claim left on a verified operation is cleared.
VerifiedClaimCleared == (claim # NoClaim /\ opState[claim.op] = "sync_verified") ~>
                        claim = NoClaim
=============================================================================
