# bnb-platform, verified

TLA+ models, model-checking runs and machine-checked proofs for the parts of
bnb-platform in which a wrong interleaving costs a guest a room, an owner money or a
reader the truth: the *Iron Gate* booking authority (the room nights its handlers give and
take, its channel dispatcher, its property store), the e-mail outbox of the website
bookings and the payment missions of the API service.

    tlasany M.tla                                       parse a module
    tlc -workers 2 -config dispatch_move.cfg MCChannelDispatch.tla
    tlc -workers 2 -config store_commit.cfg MCPropertyStore.tla
    tlc -workers 2 -config room_nights.cfg MCPropertyInventory.tla
    tlc -workers 2 -config mail_race.cfg MCWebsiteMail.tla
    tlc -workers 2 -config payment_missions.cfg MCPaymentMissions.tla
    tlapm ChannelDispatchProofs.tla                     check the proofs

`PROJECT.json` lists the components, runs, mutants, findings, hazards and theorems, and
maps every definition to the lines it stands for.

## 1. Inventory

| Component | State it keeps | Operations | Talks to |
|---|---|---|---|
| **Channel dispatch** (`iron-gate/src/channel-*.mjs`, `owlnest-*`) | `channelDispatch` (one claim per property), `channelReviewHolds`, each operation's `state`, `initialOpenPreflight`, `preflightFailures`; the worker's and the CLI's local variables | poll, login, acquire, observe, PUT, re-observe, record, settle; recover, release, transfer | the booking authority (`transact`), OwlNest (GET calendar, PUT stock) |
| **Booking authority** (`iron-gate/src/service.ts`) | bookings, fences, blocks, holds, retained bookings, channel operations, request receipts, `inventoryVersion` | create, amend, reschedule, cancel, request a channel job, room control, readback | dispatch (through operations and fences), sources, finance (through events) |
| **Payment holds and ledger** (`service.ts`, `card-sync.ts`) | holds with a deadline, payment events per booking | create, extend, convert, release; record, void | booking authority (a hold takes nights) |
| **Source events** (`source-notification*.ts/.mjs`) | source refs and their versions | apply, enrich facts, reconcile amounts | booking authority |
| **Repositories** (`postgres-repository.mjs`, `memory-repository.ts`) | one JSON document per property, outbox | `transact`, `read` | everything above: each handler is one `transact` |
| **Identity and HTTP** (`auth`, `http.ts`) | principals, sessions, grants | authenticate, authorize, route | every handler's precondition |
| **Finance** (`finance-*.mjs`) | commands, native ledger, settlement snapshots | preview, confirm, settle | PostgreSQL functions |
| **Migration and cutover tools** (`iron-gate/scripts`, `property-integrity.mjs`) | none of their own | one-shot scripts | repositories |
| **Website booking and e-mail** (`frontend/src/lib/website-booking`) | booking requests, mail jobs with a cursor and dispatch records | enqueue, claim, send, acknowledge | mail provider |
| **Arrival reminders** | reminder claims | claim, send, acknowledge | mail provider |
| **Calendar changes, sheet monitor** | Redis: locks of 120 s, last snapshot, change feed | read, compare, commit (a fenced script) | Google Sheets, OwlNest |
| **Customer workspaces** | compare-and-swap store: calendar jobs, leases, holds | lease, run, settle | Google, Iron Gate |
| **Payment missions** (`services/api`, `payment_workflow.py`) | missions with snapshot, confirmation and receipt; investigations; orders and their receipts | create, advance (check, update, verify), confirm, resume, cancel, resolve, clarify | PostgreSQL, under one advisory lock per property; the source of the orders |
| **Guest conversation and models**, **OS user interface** | conversation mode; none | prompts, rendering | - |

How they interact: a handler of the booking authority changes bookings, fences and at most
one channel operation in one `transact` (`PropertyInventory`). A cron tick (every five minutes), or a
confirmation that accelerates its own job, runs the channel worker, which polls the
operations, acquires the property's claim in a second `transact`, talks to OwlNest outside
any transaction, records the readback in a third, and settles the claim in a fourth.
Operators run a CLI that does the same against a claim somebody left behind.

### What is hard here

* Everything between two transactions is unprotected: several ticks overlap, bookings are
  cancelled under a running worker, staff edit the channel by hand.
* A PUT that times out may have been applied, may be lost, or may be applied later.
* A worker or the CLI can die between any two steps; the claim outlives it.
* One uncertain night must not stop the others, and must never be declared settled.
* Elsewhere: lost answers and retries with the same request key, events out of order,
  expiring locks and holds, an e-mail that must not be sent twice.

### What makes each component correct

* *Channel dispatch*: one writer per property; no uncertain PUT is issued again; no night is
  opened before the night that replaces it is closed; *verified* is true of the channel when
  it is committed and, for a confirmed booking, stays true; scopes under review are disjoint
  from each other and from what is dispatched; operations not concerned by a review proceed.
* *Booking authority*: no room night is sold twice, across bookings, holds, fences and
  blocks; a cancelled or moved booking gives back exactly the nights it held; a repeated
  request answers as the first one did.
* *Holds and payments*: a hold takes its nights until somebody releases or converts it; money
  received for an order of staff keeps it from being cancelled unseen.
* *Source events*: a late, stale or repeated event is applied or leads to a review of its
  nights, and never brings back what was cancelled or overwrites what an owner took over.
* *Repositories*: `transact` is atomic and loses no update; the outbox holds exactly the
  events of committed transactions.
* *Mail, reminders*: at most one external send per job; an unknown outcome is never resent;
  no mail about a booking that has moved on; no queued mail starves.
* *Calendar changes, sheet monitor*: a commit under an expired lock changes nothing.
* *Payment missions*: an intent is recorded at most once or withdrawn; what is paid is what was
  asked and confirmed, within the order's total and on an order without a rival; a blocked
  mission has one inquiry and is released by that one only.

The `hazards` of `PROJECT.json` place these at their lines of code.

## 2. Plan

| # | Module | Models | Composes / refines |
|---|---|---|---|
| 1 | `ChannelDispatch` (+`MC…`, `…Proofs`) **done** | dispatch, and the handlers that feed it | assumes `transact` is atomic |
| 2 | `PropertyRequests`, `PropertyLedger`, `PropertyStore` (+`MC…`, `…Proofs`) **done** | `postgres-repository.mjs`: snapshot, row lock, version check, retries, pool, outbox | `PropertyStore` implements `PropertyLedger`, which discharges the assumption of 1 |
| 3 | `RoomNights` (abstract), `PropertyInventory` (+`MC…`, `…Proofs`, `RoomWorkProofs`) **done** | what of `service.ts` takes or gives back nights: orders of staff, LINE and agencies, holds, retained orders, unsettled room changes and their fences, source events, payments as far as they matter to nights | `PropertyInventory` implements `RoomNights`; each action is one `transact`, as `PropertyStore` shows |
| 4 | `MailPromise` (abstract), `WebsiteMail` (+`MC…`, `…Proofs`) **done** | website booking decisions, the notification queue, overlapping runs of the delivery cron | `WebsiteMail` implements `MailPromise` |
| 5 | `PaymentPromise` (abstract), `PaymentMissions` (+`MC…`, `…Proofs`) **done** | missions, investigations and receipts of `payment_workflow.py`, with a source that changes the orders meanwhile | `PaymentMissions` implements `PaymentPromise` |
| 6 | finance ledger | the native finance ledger with its previews and confirmations | not started |

The abstract specifications are `PropertyLedger`, `RoomNights`, `MailPromise` and
`PaymentPromise`. Every invariant and action property the passing runs check, and every refinement, is
proved (section 9); liveness is left to TLC. Bounds stay at two nights, two or three
bookings, two processes and three or four operations unless a property needs more.

## 3. ChannelDispatch

### State

| Variable | In the code |
|---|---|
| `stock`, `inflight` | OwlNest: `count`/`is_lock` of a night in four classes (open, surplus, half closed, shut); PUTs that timed out and may still be applied |
| `puts` | history only: which (operation, night) was ever PUT |
| `opState`, `queue`, `openProof`, `failures` | `ChannelOperation.state`, creation order, `initialOpenPreflight`, `preflightFailures` |
| `stays`, `current`, `sync` | a booking's confirmed nights, `channelOperationKey`, `channelSyncState` |
| `claim`, `holds` | `PropertyState.channelDispatch`, `channelReviewHolds` |
| `pinned` | processes whose `expectedInventoryVersion` is still current: a version bump empties the set |
| `wk`, `rd` | the local variables of a worker invocation and of the recovery CLI, with a program counter |

`Job` says what each operation asks for: its kind, its booking and, per night, closed, open
or keep.  A fence is not a variable: it is the nights of an operation that is open
(`sync_pending` or `review_required`), since the code creates and removes it together with
that state.

### Actions

One `transact()` is one action; a GET is one action; a PUT is one action; nothing else is
atomic. `Service` holds the handlers (`CreateBooking`, `TakeNights` and `RequestClose` for
OS and LINE bookings, `MoveBooking`, `CancelBooking`, `CancelUnsettled`,
`RequestRoomControl`). A worker goes idle -> ready (`PollQueue`, `PollTarget`,
`PollTransfer`) -> claimed (`Acquire`, or `Refused`) -> observe -> [preflight] -> write
-> reobserve -> [write -> reobserve] -> record -> finish -> idle. `StaleClaimReview` and
`LoginFails` are the two ways a LINE operation goes to review without dispatch. `Crash`
stops a worker anywhere, `RecordFails` and `FinishFails` are database failures, and
`PutUnknown` the three outcomes of a PUT without an answer. An operator recovers a claim
(`StartRecover` .. `RecoverClear`) or releases a reviewed close (`StartRelease` ..
`Release`). `OutsideChange` is a hand at the channel's own console.

### Abstractions

* Time is nondeterminism: a claim may be found stale (seven minutes) at any moment, a tick
  may start at any moment.
* `claimId` is the pair (holder, operation): an operation is acquired at most once
  (`Known`, section 9), so the pair is as unique as the UUID.
* The bounded retries of a readback are one GET, since any of them may be the last.
* A PUT that OwlNest acknowledges is visible at once (`Put`), although
  `SWEETFUN_LINE_CHANNEL_READBACK.md:44-46` says that visibility may lag by seconds. A PUT that takes
  effect later is modelled where it got no answer (`PutUnknown` with the fault `late_put`).
* `StartRecover` on an active claim needs its worker stopped, as
  `SWEETFUN_LINE_CHANNEL_READBACK.md:39-41` orders the operator to do.
* A settlement that fails after a verified readback is retried once as a failure, then
  given up, as in `channel-dispatch-claim.mjs:123-133`; the claim then is a review of a
  verified operation, which blocks the property until it is recovered.
* Left out: LINE's reopening of a night and its inventory blocks, `manualBlocks`, OS manual
  room changes, the cap of 1000 readbacks, retired operations, alert acknowledgement, the
  direct readback route (`http.ts:577`), the special case of an external source on dropped
  nights, stock windows and preview tokens, and spans of more than 90 days, which
  `observe` rejects.

## 4. PropertyLedger and PropertyStore

`PropertyRequests` is the document of a property and what a handler does to it when nothing
else is going on. Three requests stand for all: *create* takes nights, *cancel* gives them
back, *pay* moves only the booking's version. `Replays`, `Accepts` and `Refuses` are the
three ways a handler can end: the stored receipt answers, the draft changes, or a
`GateError` is thrown. `CreateFits`, `CancelFits` and `PayFits` are the handlers' guards
(`hasConflict`, the status and `expectedBookingVersion`); `Created`, `Cancelled` and `Paid`
their effects, to which `After` adds the receipt.

`PropertyLedger` is the promise the callers rely on. Its steps are one request applied,
replayed, refused or answered with an error that says nothing, and one event delivered.

`PropertyStore` is how `PostgresPropertyRepository` keeps it:

| Variable | In the code |
|---|---|
| `row`, `serial` | committed `property_state.state_json` (with `inventory_version`), and how often it was committed |
| `occupied`, `outbox` | the committed tables `occupied_room_nights` and `outbox` |
| `lock`, `nextCursor` | the lock of the property row; the identity sequence of the outbox, which a rollback does not take back |
| `tx` | per call: where it is in `transact()`, its attempt, snapshot, draft and uncommitted rows |
| `said`, `reader` | what callers were told last; a reader's cursor and what it has received from `events()` |

| Action | `postgres-repository.mjs` |
|---|---|
| `Begin`, `ConnectTimesOut` | 69-72: a connection of the pool (or none in time), `BEGIN`, the scope, whose `SELECT` takes the snapshot |
| `ReadRow` | 73-76: `FOR UPDATE` waits for the lock, or fails with 40001 when the row moved after the snapshot |
| `RunHandler` | 80: the handler on the draft |
| `UpdateRow` | 90-95: `UPDATE ... WHERE inventory_version`, or `AUTHORITY_MOVED` |
| `RefreshOccupancy` | 114-122; a night twice breaks the primary key |
| `EmitEvents` | 97-102: the event under the next cursor, with its audit row |
| `Commit`, `CommitUnknown` | 103: with and without an answer |
| `Conflict`, `Lost` | 105-109: 40001 and 40P01 at any statement, retried twice; any other failure |
| `Poll` | 124-141 |

*Abstractions.* An accepted request emits one event, and its audit row goes with it. A page of
events is several `Poll`s. Bookings are under LINE's manual policy, so that no inventory
version and no fence is part of the input. `CancelFits` leaves out that an order which has received money
is not cancelled (`netReceived`, `service.ts:706`, `718`, `2690`), so that the model accepts more requests than the code. Other properties share the pool and the
sequence: a full pool and a gap in the cursors happen here too, through the calls of the
model and through aborts. Left out: `read()`, which is one statement, the native finance
rows, which are written in the same transaction, and changes of the authority epoch. A
request key is used with one input only; another input is refused before anything else
happens. The reader starts at cursor 0 and keeps its own cursor.

*What the model shows about the code.* The lock and the isolation level carry the
correctness; the version check does not. A payment and a replay leave `inventory_version`
alone, so that without lock and isolation (the mutant `Isolation_VersionOnly`) an update is
lost. Under the lock the branch `AUTHORITY_MOVED` is unreachable. The order of the feed rests on
the lock as well: cursors are drawn before the commit, and only because the row is locked by
then does the order of cursors agree with the order of commits. A night is guarded twice: by
`hasConflict` and by the primary key of `occupied_room_nights`, which turns a handler that forgot
the first into an error nobody can mistake for a booking.

## 5. PropertyInventory

`PropertyInventory` holds the handlers of `service.ts` that give and take room nights, for orders of
three kinds of makers: staff (`"os"`), LINE, and an external source such as an agency. One
handler is one transaction and one action.

| Variable | In the code |
|---|---|
| `mode` | `channel.mode`: a property without a channel or one with OwlNest. It is picked in `Init`, so that one run covers both |
| `bk` | `Booking` with its `hold`, the sign of its payment ledger (`money`), `retainedBooking`/`owned`, `channelSyncState`, and the one unsettled room change it may have (`work`): `lineChannelBaselineNights`, `osManualRoomChange` or `manualRoomHandling`, with its baseline and the fence it keeps (`aside`) |
| `op` | the booking's latest channel operation, whose fence (`OpFence`) lasts as long as it is unsettled |
| `link`, `fact` | the `SourceRef`: version, whether it was applied to the current booking version, divergence, tombstone and review fence; what the source says in each version |
| `command` | a retain or reschedule command with its receipt and what its callers were told |
| `shut` | history: the nights last settled as closed at the channel |

| Actions | Handlers |
|---|---|
| `CreateBooking`, `AmendBooking`, `CancelBooking` | `createBooking`, `amendBooking`, `cancelBooking` by staff |
| `AmendByLine`, `CancelByLine`, `RequestLineChannelAction` | the same by LINE; `requestLineChannelAction` |
| `ConfirmManualRoomHandling`, `RequestManualChannelSync`, `RecordReadback` | the three ways in which a room change is settled, or fails to be |
| `CreateHold`, `HoldExpires`, `ExtendHold`, `ConvertHold`, `ReleaseHold`, `RecordPayment` | holds and `recordPaymentEvent` |
| `PlanCommand`, `ApplyCommand`, `Repeat`, `AbandonCommand` | `retainBooking` and `rescheduleBooking`, their repetition under the same key, and `abandonRetainedRequest` |
| `ApplySourceEvent`, `CorrectName` | `applySourceEvent`; staff's correction of a guest's name, which the source then contradicts |

`LineWork`, `HandWork`, `OsWork` and `Deferred` are what `updateLinePending`,
`updateManualHandling`, `saveOsRoomChange` and `deferLifecycleRoomChange` make of the unsettled change of
an order whose nights change.

*Abstractions.* Booking and inventory versions are reduced to two questions: is the
source link's booking version the current one (`at`), are the versions a command was planned
under still current (`fresh`). What a source says in a version is chosen when it first reports it;
any version may come at any time and again. Reports on an order that its owner has taken
over are evidence only and are not kept in `fact`. One command is under way at a time, under
a new request key each time. An amendment of the guest's name is `AmendBooking` with the same
nights. Holds, source events and the orders of an agency occur only without OwlNest: the code
refuses holds there (`HOLD_CHANNEL_UNIMPLEMENTED`), and an OwlNest source sends signed notices,
which are left out. LINE acts under the manual policy. The operating system's own front end
always sends `channelPolicy: 'manual'` (`iron-gate-manual.server.ts:474`); amendments under
another policy are left out.

*What the model shows about the code*, beyond the properties that hold. The exceptions these
properties make are needed, which the run confirms when they are taken out:

* Staff cancel an order while an operation on part of its nights is pending: its other nights
  stay closed at OwlNest without a fence (`service.ts:2715-2722`). The order is then under review,
  which is the last disjunct of `FormerNightsHeld`.
* Staff cancel a LINE order that is in `action_required`: its `line:action:` fence stays, and
  no handler lifts it.
* Money that arrives for an order whose hold was converted, and which was cancelled later, is not
  flagged as a late payment; only the answer to that call asks for a refund review. That is
  `"converted"` in `OwnMoneyIsReviewed`.
* The branch of `cancelBooking` that looks for a fence `review:<bookingId>` is unreachable.

## 6. WebsiteMail

The website bookings of a workspace live in a store whose commits compare what was read. An
owner's decision and the jobs that announce it are one commit; so are the passing of the
deadline and its reminder. The delivery cron claims a job, records that it is about to
dispatch, calls the provider once, records the answer and acknowledges; runs overlap.

| Variable | In the code |
|---|---|
| `ws`, `late` | the booking in its workspace, reduced to version, status, hold term, `expiryNotifiedFingerprint`, whether the owner still has the property and whether the worker finds the binding through Studio; whether the hold's deadline has passed |
| `job`, `index`, `scan` | notification jobs, the binding's queue, the position of the bounded scan (`notifications.ts`) |
| `receipt`, `cursor` | what an attempt claimed; the binding's current attempt and the fingerprint of the queue last found empty (`delivery.ts`) |
| `delivery` | the dispatch record: sending, accepted, sent or unknown, and by whom |
| `claimAged`, `sentAged` | the claims and dispatches that are past their ten minutes |
| `mails`, `run`, `faults` | calls of the provider; the local variables of each run; a budget of crashes and failed calls |

A run begins with `Start`, which asks whether it may serve the binding (`Authorized`), and then repeats:
`TakeCursor` or `NewAttempt` (or it ends with `NothingNew`), `MakeClaim` or `Replay`, then one of `AwaitSender`,
`Interrupted`, `ResumeAck`, `GiveUp` and `PlanDispatch`, then `Dispatch` (or `DispatchConflict`), `Send`,
`Accepted` or `Uncertain`, `Acknowledge`, `SettleDelivery` and `FinishCursor`, after which it goes on to
the next attempt or stops (`Continues`). The owner may
`Extend`, `Convert`, `Release`, `Revise` or lose the property (`Revoke`) at any point. `Send` may fail with
or without the mail having left. `Fail` ends a run anywhere: a crash and a failed store call
are the same to the store. Only after `Revoke` does it matter whether the worker finds the binding through
Studio or by its id or site, so that `Revoke` is where the model chooses.

*Abstractions.* There is one binding. Ages of settled jobs are dropped, since nobody reads them again. Ids of attempts
are reused once neither the cursor nor a run holds them. The LINE worker is not modelled: its
jobs stay in the queue, where the scan has to pass them. `MakeClaim` and `PlanDispatch` read several keys
and then commit against all of them, so that each is one step at its commit, or fails. The
branch `EMAIL_RECONCILIATION_REQUIRED` of `acknowledge` and the operator's reconciliation have no e-mail
caller; the events of amendments (`booking_changed`, `booking_cancelled`) are queued in the same way as the
ones modelled.

*Known limits the model made visible*:

* A Studio-approved binding whose owner is revoked: `resolvedBindings` (`delivery.ts:66-67`) authorises such
  a binding with `requireOwner`, which throws `BINDING_UNAVAILABLE` (`notifications.ts:270-273`) where nothing
  catches it. Each run ends there, before any cursor is read. Queued e-mails are neither sent nor
  denied until the owner is back, and a dispatch that was accepted before a crash is not acknowledged, although
  the comment at `delivery.ts:226-227` says that "a revoked owner's pending accepted receipt can still be
  acknowledged". Bindings served by id or by site do behave as that comment says. `QueueDrains` states the
  exception (`~Authorized`) and covers both the queued jobs and the accepted receipts (`Waits`); without the
  exception TLC refutes it. As the call precedes the loop over bindings, one such owner also
  stops the delivery of every other binding of that cron; with one binding the model does not show this.
* A claim lapses between the replay of an attempt and the check of its job: the run gives up
  without touching the job, the next scan starts behind it and may record the queue as empty.
  The job stays "sending", which the public page shows as unknown, until the queue changes.
* One run gives up and moves the cursor while another still dispatches; if that one crashes
  after the provider accepted, its evidence is never acknowledged.
* The provider's id is lost if another run has meanwhile called the dispatch unknown.

## 7. PaymentMissions

A mission records one payment of a guest: it checks the order, waits for the owner's confirmation
where one is due, writes one receipt, and checks again. People and agents drive it by calls, in any
order and repeatedly; each call takes the property's advisory lock, reads everything again and
commits once, so that one call is one action.

| Variable | In the code |
|---|---|
| `state` | `property_state`: is the source ready (`sandbox`), may payments be written (`writes`), may agents write unasked (`direct`) |
| `order`, `fresh` | rows of `orders`: what the source says (`is`), `version`, `source_checked_at` (`checkedAt` tells its values apart, `fresh` says which are within five minutes) |
| `ledger` | rows of `payments` |
| `mission`, `inquiry` | rows of `missions`: those that record a payment, and the investigations their incidents open |
| `approved` | history: what the order of a mission was when somebody last confirmed it |
| `changes` | how often something outside of the missions changed |

| Action | `payment_workflow.py` |
|---|---|
| `Create` | 264-295; the idempotency key is the mission |
| `Advance` | 395-435: `AcceptCheck` after a check, `UpdateOrder`, or `Verify` |
| `Confirm`, `Resume`, `Cancel`, `Resolve`, `Clarify` | 662-817; `Resolve` is called on an inquiry |
| `Amend`, `Age`, `Switch` | external: the source changes an order, under a new version or not; time passes; an administrator turns a switch |

*Abstractions.* A call that is refused, or that only reads, is a stutter. Of an order's columns, `room`
stands for room and nights (two orders of a room overlap), and `guest` for the criteria that several
orders may meet; a query has these and the order's number. `timely` in `UpdateOrder` is whether the receipt's
time is not in the future, which depends on the clock only. The conflict on `version` in
the `UPDATE` (529-538) cannot happen under the lock, after the check in the same transaction. Roles are
preconditions. The audit of each tool, and `revalidation_required`, which nothing reads, are left out.

*What the model shows about the code.* A confirmation names a version, but a source may change an order without
a new version. What protects the payment then is not `confirmed_version` but the comparison of the
whole snapshot (`current != before`) in both `confirm` and `update_order`; the mutant `Same_Version` drops
it. Somebody who looked at an order before such a change, and confirms after another check of the
mission has refreshed its snapshot, confirms what they have not seen: `ApprovedIsPaid` speaks of the order
at the moment of the call. The branch `unexpected_existing_payment` (517-527) is unreachable
(`ReceiptStands`), as its comment expects. A receipt is verified only while its order is at the version it
wrote (617-620). If another mission records a payment of the same order first, the verification is a
mismatch, the mission is blocked, and `resolve` (757-761) asks for the same version: neither call can succeed
again, though both receipts are right. The agents' playbook knows only "Continue this Mission's verification"
(`docs/work-handoff/AGENT_PAYMENT_PLAYBOOK.md:59`). No property of the model denies this.

## 8. Runs

| Run | Instance | Question | Distinct states |
|---|---|---|---|
| `dispatch_move` | an OS stay closed, moved and cancelled; a channel booking that wants the night it gives back; 2 workers, 1 operator; crashes, lost and late PUTs, failed reads and commits | types; `OneWriter`; a move closes before it opens; *verified* is true when committed and stays true | 106,769 |
| `dispatch_review` | a booking, a LINE close and a room control; 2 workers, no operator; also failed logins and stale claims | scopes are disjoint, no PUT is reissued, holds describe reviews | 787,635 |
| `dispatch_staff` | a LINE close that staff may anticipate at the channel's console; 1 worker, 1 operator | a night staff closed is never taken for the service's own close | 117,248 |
| `dispatch_progress` | two jobs on one night, one on another; 2 workers, no crash | every claim settles; an uncertain night stops nobody else | 34,336 |
| `store_commit` | 2 calls in flight, 2 connections, 1 fault; a booking, its rival, a cancellation and two payments against one version of the booking, each sent any number of times | the store implements the ledger; what is committed stands (`LedgerStands`); one payment per version; no refusal of what was applied; the inductive invariant `StoreInv` | 1,524,616 |
| `store_progress` | 3 calls of one request through 2 connections, 2 faults | every call ends | 77,804 |
| `room_nights` | an order of staff, one of LINE, one of an agency; two nights; 3 versions of the agency's order, one unit of money | `RoomNights`; closed nights are not forgotten; *synchronised* is true; money is reviewed; late and repeated reports and commands | 558,812 |
| `mail_race` | 2 overlapping runs, e-mail only, 1 version of the booking (no decision of the owner, who may still be revoked), 1 fault | no job mailed twice, no untrue outcome, `MailPromise` | 767,836 |
| `mail_progress` | 1 run at a time, a LINE job in the queue, a scan of one entry, 1 fault | one reminder per deadline, no mail that is out of date; no e-mail and no accepted receipt waits forever, unless a Studio owner is gone; no unnoticed deadline | 667,387 |
| `payment_missions` | 2 missions, 2 orders of 3 contents, 2 requests; 1 change from outside | missions, inquiries and receipts agree (`MissionsHold`); what is paid was confirmed, asked for and has no rival (`EachReceiptIsDue`); no order is overpaid; `PaymentPromise` | 635,492 |
| `dispatch_recovery_race` | as `dispatch_review` with an operator | *violation*, first finding | - |
| `dispatch_line_recovery` | one LINE close, a crash, an operator who keeps recovering | *violation*, second finding | - |

**Why the bounds are enough.** Two nights are what a move needs (one opened, one closed)
and what separates "the same night" from "another night". Two workers give every overlap of
a claim with one competitor; the theorems below cover more. One operator is enough to race
with a worker. Three or four operations let a review, a hold and a new operation exist
together, and let an operation be polled before and acquired after another one's review.
All states are explored: no run has a state constraint, and there are no counters but
`failures`, which the code itself bounds at three. Deadlock is not checked: when every operation
is settled the system rests until the next booking. For the store, two calls give every overlap of
one transaction with another, and the theorems cover more; `MaxFaults` bounds aborts, lost
connections and lost answers together, and `Refinement` holds for any number of them. The third
attempt of a call is reached through its rival's commits. The two callers are interchangeable and
so are the two payments, which ask for the same; `store_commit` uses both symmetries (it checks no liveness). `store_progress` has more calls than
connections, so that a connection that keeps its lock, or is never given back, is missed.
In `room_nights` two nights and three orders let an order move to a night that a second one gives
up or has fenced while a third wants it; three versions of a report give an order in which
the last overtakes the first two. Nights are interchangeable, and the run uses that symmetry (it
checks no liveness). In `mail_progress` two versions of the booking are what a revision
needs to overtake a job (`mail_race` has one, for the size of the run; the theorems hold for any number); a scan of one entry behind a LINE job is the smallest queue that can starve
a mail. In `payment_missions` two missions are what competes for a balance, and two orders of one room what
hides a rival; one change (`MaxChanges`) is what comes between a check or a confirmation and the payment,
and agents may or may not write unasked from the start. The missions are interchangeable (`SYMMETRY`; the
run checks no liveness). A mission may be sent through check, conflict and inquiry any number of times:
versions grow only with receipts and changes. The orders' contents include a cancelled one and one in the
other room, for another guest and less money, without an expected deposit. An order with an unexpected
deposit, which a check reports as an anomaly, is not among them; the theorems cover it.

**Environment.** `VerifiedIsTrue`, `VerifiedNightsStayClosed` and `MoveClosesFirst` are checked
where only the service writes the channel: with a second hand at the console they are
false of any protocol that cannot lock the channel. `dispatch_staff` has that second hand.

**Fairness.** `FairSpec` gives each worker weak fairness on all its steps together: cron
starts an invocation every five minutes and an invocation runs on until it returns
(no crash in `dispatch_progress`, because a crashed worker's claim waits for a human).
Nothing is assumed of the service's callers, of late PUTs or of the channel. `RecoveredSpec`
adds an operator who keeps answering; it is used only to show that even then the second finding's
claim is never cleared. In `store_progress` each call has strong fairness: the pool and PostgreSQL's
lock queue serve their waiters in turn, so a call whose turn keeps coming gets it. Faults are
not fair, and nobody has to send a request. In `mail_progress` the cron fires every minute
(`Works`, `EnqueueExpired`), and time passes (`TimePasses`); owners owe nothing, least of all to come back.
Its two properties have the form `[]<>~P`: nothing stays in state `P` for good.

**Mutants.** Each property of a passing run has a mutant: a plausible bug, defined next to
the definition it replaces (`Admitted_TrustsPoll`: admission is not decided again in the
transaction; `Reobserve_OpensAnyway`: an unknown close is not waited for; and so on), under
which TLC finds the property violated.

## 9. Proofs

`ChannelDispatchProofs` holds for **every** set of nights, bookings, operations, workers,
operators and faults, under `JobAssumption` (each operation has a night; room controls have
no booking; closes open nothing, cancellations close nothing) and `NameAssumption` (the
"none" values are no members of their sets).

| Theorem | States |
|---|---|
| `TypeCorrect` | `Spec => []TypeOK` |
| `OneWriterAlways` | `Spec => []OneWriter` |
| `ScopesDisjointAlways` | `Spec => []ScopesDisjoint` |
| `NeverReissuedAlways` | `Spec => []NeverReissued` |
| `HoldsReviewedAlways` | `Operator = {}` implies `Spec => []HoldsReviewed` |
| `OwnCloseProvenAlways` | `Spec => OwnCloseProven` |
| `VerifiedIsTrueAlways` | `"outside" \notin Faults` implies `Spec => VerifiedIsTrue` |
| `MoveClosesFirstAlways` | `"outside" \notin Faults` implies `Spec => MoveClosesFirst` |
| `VerifiedNightsStayClosedAlways` | `"outside" \notin Faults` and `RoomControlsApart` imply `Spec => []VerifiedNightsStayClosed` |

*Argument.* `OneWriter` alone is not inductive: an operator who looked at an active claim
could clear it after another worker acquired the same operation. The key notion is
`Known(o)`: operation `o` exists and, if it is still pending, the active claim is on it. It is
stable (`KnownStable`), because a claim that is active is left only by the worker that
holds it, or by an operator whose worker is stopped, and its operation is settled by then
(`ClaimMoves`). The claim's operation, every operation an operator works on and every
operation with a PUT are known; an operation that can be acquired is not. So an acquisition
never concerns an operation somebody already saw under a claim (`OperatorsWait`), which
closes `OneWriter`, nor one that was ever written, which gives `NeverReissued` together with
`Fresh` (what a worker still has to write, its operation never wrote). `ScopesDisjoint` follows
from the admission check of `Acquire`, the only step that adds a scope. `HoldsReviewed` then
holds because the operation a worker settles is under the claim and hence no hold
(`OnlyRecoveryUnseats`); an operator's recovery is the one step that breaks it, as the first
finding shows. `OwnCloseProven` needs `AppliedPut`: a worker counts as its own only PUTs it
issued, and a recovery counts none.

Lemmas `OpsMove`, `WorkersMove`, `OperatorsMove`, `ClaimMoves`, `PutsMove`, `OnlyActorMoves` and
`OnlyReadbackVerifies` say once how any step may move one part of the state; the invariants
cite them. The strengthened invariants (`WriterInv`, `FreshInv`, `AppliedPut`) were checked with
TLC on the instances above before they were proved.

The last three theorems say what a look at the calendar is worth. The look is one step, the decision
it leads to a later one, and a PUT that timed out may still land between the two. `ChannelInv` closes the
gap in four parts. `LateWrites`: a PUT still under way would change its night, and belongs to an
open operation that the claim or a review hold covers; as covered scopes are disjoint, nobody else works
on that night. `WorkersSee`: while a worker observes, nothing of its operation is under way (`Quiet`); what it
has seen is still so (`Agrees`) when it begins to write; and if its last look shows the operation
done, then none of its PUTs is under way and the look stays true (`Confirms`). `ReleaseInv` and `RecoverInv` say
the same of operators. `BookingInv` ties this to the bookings: which of them an operation belongs to, that
no two hold one night, and that an open operation holds nobody else's nights. `VerifiedIsTrue` and
`MoveClosesFirst` are then read off at the step that settles or opens. For `VerifiedNightsStayClosed`,
`NightsShut` generalises *verified* to the nights a booking keeps through a change.

*Hypotheses.* `"outside" \notin Faults`: with a second hand at the channel's console all three are false
(section 8). `RoomControlsApart`: no room control opens a night that a booking's operation closes.
The code does not ensure it, on purpose: room controls leave occupancy to whoever gives them
(`service.ts:917`, `LINE_INDEPENDENT_CHANNEL_2026-10-27.md`), so staff may open a night under a verified
booking, and TLC finds that counterexample when the hypothesis is dropped. The instances checked
satisfy it.

*Model-checked only*: liveness (`ClaimsSettle`, `OthersProceed`).

### The authority

`PropertyInventoryProofs` holds for every set of nights and orders, any makers of them and any bounds,
under `SourceAssumption`.

| Theorem | States |
|---|---|
| `InvAlways`, `TypeCorrect`, `NoNightTwiceAlways` | the inductive invariant; types; a night has one taker |
| `OwnMoneyIsReviewedAlways`, `SourceIsAnsweredAlways`, `FollowsSourceAlways`, `OneAnswerPerCommandAlways` | the invariants of `room_nights` of these names |
| `CancelledStays` | `Spec => CancelledStaysCancelled` |
| `Refinement` | `Spec => ImplementsRoomNights` |

*Argument.* The twenty-odd handlers are first reduced to what they do to an order: it enters, moves,
is cancelled, converted, released, paid, retained or rescheduled (`OrderStep`), or follows or
contests a report (`SourceStep`). `NextSteps` shows that every step is one of these, concerns only the
command, or touches no order. `GainsAreFree` then says that a step changes one order and gains
only nights that no other order has and no other order's fence keeps: this is `NoNightTwice` and the
refinement. The rest needs `HoldInv` (only orders of staff are held, a running hold has an
order in `held`), `LinkInv` (a link records a version its source did report, and a cancelled order
of a source has a tombstone, which is why it stays cancelled) and `AnswerInv` (all answers to a command
repeat its receipt).

`RoomWorkProofs` adds, under the same assumption:

| Theorem | States |
|---|---|
| `ChannelInvAlways` | the inductive invariant of the unsettled room changes |
| `FormerNightsHeldAlways` | `Spec => []FormerNightsHeld` |
| `SettledIsShutAlways` | `Spec => []SettledIsShut` |

*Argument.* An order's work, sync state and operation have many combinations and the code relies on few.
`Books` lists them, one predicate for each kind of work: `PlainOrder` (only its first close can be
pending), `LineOrder` (LINE first closes what it added, then opens what it gave up), `StaffOrder` (one
operation does both), `HandOrder` (none does) and `GoneOrder` (what a cancelled order leaves).
`Remembers` is what an order is known to have closed: its baseline, or its nights once it is
synchronised. Neither property is inductive without it: whether a saved change goes back to
*verified* depends on what was closed several changes ago. `ChannelInv` says that all books are in
order and each closed night is in what some order `Holds` (remembers or fences). One lemma for each
handler shows, on the record of its one order, that it keeps the books and lets go of no night that stays
closed (`RoomStep`); `RoomStepKeeps` lifts this to the state, given that the nights a handler opens are
nobody else's, which is the conflict check of `correctBooking` and `manualHandlingCells`. Without a
channel all of this is empty (`QuietSteps`).

### The outbox

`WebsiteMailProofs` holds for every set of runs and channels, any length of the scan and any number
of versions and faults, under `MailAssumption`.

| Theorem | States |
|---|---|
| `InvAlways` | the inductive invariant |
| `OneMailPerJobAlways`, `OutcomeIsTrueAlways`, `OneReminderAlways` | the invariants of the runs |
| `QueueInvAlways`, `TypeCorrect`, `NoJobLostAlways` | what the queue holds; types; every open job is in the queue |
| `MailStaysTrue` | `Spec => MailStillTrue` |
| `Refinement` | `Spec => KeepsPromise` |

*Argument.* Of each job, three pieces of state must agree: its entry in the outbox, its dispatch
record and the mails that left (`JobInv`). `RunInv` says what a run between dispatch and answer may rely on:
the record is its own until somebody calls it unknown, a run that acknowledges repeats the record, and a
run about to dispatch has read a booking of which the job is true. `ReminderInv` ties the reminders to
`expiryNotifiedFingerprint`. All steps that touch a job are instances of `JobStep`, `DeliveryStep` and
`MailStep`, for which preservation is proved once. `QueueInv` speaks of the queue: it lists jobs, and no open job is
missing from it (`NoJobLost`, which TLC checked first). `Keep`, the filter with which plans and claims
rewrite the queue, is a recursive function, and `KeepFacts` says what it returns: a sequence of exactly the
entries in the set. `KeepsStep` and `KeepsExist` show that the function is what its definition says, which takes an
induction on the length of the queue (below). `ClaimQueues` is the case that matters: a scan drops only jobs it
closes in the same commit or found closed.

*Model-checked only*: the liveness properties `QueueDrains` and `OverdueIsReminded`.

*Induction.* The library's induction rules take an operator as a parameter, which the provers
here cannot instantiate. Where a proof needs induction (over the length of a queue here, over the set of
receipts of an order in the next section), it takes a smallest counterexample instead: the set of
lengths, or of subsets, for which the statement fails has a least member (`LeastNumber`;
`SmallestSubset`, from the theorem that proper inclusion of finite sets is well-founded), and
the statement follows for it from the one below. The statement is a set, so no operator is passed.

### The payment missions

`PaymentMissionsProofs` holds for every set of orders, missions, contents and requests and any number of
changes, under `PaymentAssumption` (amounts are positive, totals are natural numbers) and
`NoneAssumption` (`None` is no snapshot, receipt or mission).

| Theorem | States |
|---|---|
| `InvAlways`, `TypeCorrect` | the inductive invariant; types |
| `InquiryHoldsAlways`, `ReceiptStandsAlways` | the two parts of `MissionsHold` (`MissionsHoldAlways`) |
| `ApprovedIsPaidAlways`, `NoHiddenOverlapAlways`, `AsAskedAlways` | the three parts of `EachReceiptIsDue` (`EachReceiptIsDueAlways`) |
| `LedgerWithinTotalAlways` | `Spec => LedgerWithinTotal` |
| `KeepsPromiseAlways` | `Spec => KeepsPromise` |

*Argument.* `Consistent` says of one mission how its record, its receipts, its open inquiries and the last confirmed
view of its order fit: an order is updated only with a snapshot; a mission with a confirmation has the
version of its snapshot confirmed, and `approved` is that snapshot; a query narrows the one asked. The
second is why a confirmation can be trusted although `AcceptCheck` replaces the snapshot and keeps the
confirmation: it does so only at a first check, which has none, or over an equal snapshot. One
lemma for each call shows that it keeps this for its mission and leaves the others alone (`OneMission`). `UpdateOutcomes`
and `ReceiptWritten` collect what is true whenever a receipt is written, from which the action properties
follow. `LedgerWithinTotal` adds amounts over a set: `TotalIs` recovers the recursive definition of `Total`, and
`TotalAdds` shows that a new receipt adds its amount, whichever member the recursion takes first. For the refinement `VersionsReached` bounds each receipt's version by that of its order, and
every step that does not open, withdraw, record or verify is a mission that `Continues`, which the
promise does not see.

### The store

`PropertyRequestsProofs`, `PropertyLedgerProofs` and `PropertyStoreProofs` hold for every set of
callers, requests, nights and bookings, every size of the pool and any bound on faults, under
`InputAssumption` (a request key is bound to one well-formed input) and `StoreAssumption`
(there is a request, and `NoClient` is no caller).

| Theorem | States |
|---|---|
| `NoNightSoldTwiceAlways`, `OnePaymentAlways`, `RefusedWasNotAppliedAlways` | the properties of the ledger |
| `AnsweredIsDurableAlways`, `FeedIsPrefixAlways` | the same of what the store repeats |
| `TypeCorrect`, `StoreInvAlways`, `OccupancyMatchesAlways` | the invariants of the store |
| `Refinement` | `Spec => ImplementsLedger` |
| `StoreAnswersAreDurable`, `StoreFeedIsPrefix`, `StoreSellsNoNightTwice`, together `LedgerStandsAlways`; `StoreTakesOnePayment`, `StoreRefusesTruly` | what the ledger promises, carried over to the store, where `store_commit` checks it too |

*Argument.* `OnePaymentPerRevision` is not inductive alone; `PaidBelow` adds that a booking's
version is past every version a payment was recorded for. For the store, `StoreInv` says
what the row lock is worth: a call past `FOR UPDATE` holds the lock, so its draft is the
row, or the row with its own request applied (`DraftInv`), its event has a cursor above all
committed ones and above the reader's (`PendingInv`), the outbox lists the receipts in
cursor order (`OutboxInv`) and the reader's cursor splits it where its sequence ends
(`ReaderInv`). `Undisturbed` is the heart: whoever changes the row or the outbox holds the lock, so
the other calls hold nothing that could become stale. Then a commit of a fresh draft is
the ledger's `Apply`, of a replay its `Replay`, and a poll its `Deliver` (`PollDelivers`);
`AUTHORITY_MOVED` cannot happen, which the refinement needs, because the ledger has no such
refusal. `SameLedger` identifies the instance of the ledger the store implements with the
one its theorems are about. `StoreInv` is an invariant of `store_commit`.

*Model-checked only*: `CallsEnd`, a liveness property.

## 10. Findings

1. **Recovery verifies an operation under a review hold** (`dispatch_recovery_race`). The CLI
   compares the claim when it reads it and when it clears it, but not when it records the readback.
   If a tick acquires another operation in between, the reviewed claim has become a
   hold, and the recovery turns the held operation `sync_verified`. From then on
   `channelReviewBlock` answers `review_scope_unavailable` for every operation of the
   property, and no code removes a hold.
2. **A LINE operation's claim cannot be recovered after verification**
   (`dispatch_line_recovery`). Clearing needs `booking.channelOperationKey` to be the operation, but
   verifying a LINE action sets that key to null. A worker that dies after its readback
   leaves an active claim that nobody can clear and that stops the property's dispatch.

## 11. Not modelled

Finance, identity, migration scripts, guest conversation and the user interface are left out
for the reasons `PROJECT.json` gives (a ledger of its own, stateless checks, one-shot
scripts, text, rendering). So are the calendar changes and the sheet monitor, whose races all
meet in one Redis script that compares before it writes; the arrival reminders, whose
claims repeat those of `WebsiteMail` without a dispatch record; and the customer workspaces' leases. Of the booking authority:
bulk cancellation, manual blocks and LINE inventory blocks, OS direct override, stock windows,
preview tokens, identity collisions, the OwlNest source with its signed notices, amounts and the
voiding of payment events. Three hazards have no property: the 90 days of a calendar read, the receipt that is overtaken before it is verified (section 7), and the
Studio owner who is gone, which is the exception of `QueueDrains` (section 6). Of the payment missions: roles, the audit trail and the pricing
reviews of `availability.py`.

That one `transact`
is one step, which `ChannelDispatch` uses throughout, is what `PropertyStore` shows of the
PostgreSQL repository. The SQLite repository runs a handler in one
synchronous section under `BEGIN IMMEDIATE`, the memory repository (a test adapter) queues the
handlers of a property one behind the other; neither is modelled.
