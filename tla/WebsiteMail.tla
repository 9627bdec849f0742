---------------------------- MODULE WebsiteMail ----------------------------
(* The e-mails of one held website booking: the owner's decisions and the       *)
(* deadline queue notification jobs in the commit that changes the booking, and *)
(* overlapping runs of the delivery cron claim a job, record the dispatch, call *)
(* the provider once and acknowledge.  Every key is read and written in a store *)
(* whose commits compare what was read.  It implements MailPromise.             *)
EXTENDS Naturals, Sequences, FiniteSets, SequencesExt

CONSTANTS
  Runner,       \* runs of the cron handler that may overlap
  NoRunner,
  Channels,     \* the notification channels, in the order they are queued
  MailChannel,  \* those of them that are e-mail
  MaxVersion,   \* bound on the revisions of the booking
  MaxScan,      \* queue entries one claim looks at
  MaxFaults     \* bound on crashes and failed calls of the store

ASSUME MailAssumption ==
  /\ NoRunner \notin Runner
  /\ Channels \in Seq(ToSet(Channels))
  /\ MailChannel \subseteq ToSet(Channels)
  /\ MaxVersion \in Nat \ {0}
  /\ MaxScan \in Nat \ {0}
  /\ MaxFaults \in Nat
  /\ IsFiniteSet(Runner)

VARIABLES
  ws,         \* the booking in its workspace, its owner, and how its binding is found
  late,       \* the deadline of the current hold has passed
  job,        \* notification jobs
  index,      \* the binding's queue of job ids
  scan,       \* where the next claim starts
  cursor,     \* the runs' current attempt, and the queue last found empty
  receipt,    \* what each attempt claimed
  delivery,   \* dispatch records
  claimAged,  \* open claims older than claimLifetime
  sentAged,   \* open dispatches older than sendingLifetime
  mails,      \* calls of the e-mail provider for each job
  run,        \* each run's progress
  faults

booking == <<ws, late>>
queue == <<job, index, scan, receipt, claimAged>>
sending == <<delivery, sentAged, mails>>
vars == <<ws, late, job, index, scan, cursor, receipt, delivery, claimAged, sentAged,
          mails, run, faults>>

-----------------------------------------------------------------------------
(* Jobs and the booking they are about. *)

\* Amendments and cancellations of ordinary orders queue two more events the same way.
OwnerEvent == {"extended", "converted", "released"}
Event == {"created", "expired"} \cup OwnerEvent
Status == {"held", "confirmed", "cancelled"}

JobId ==
  {j \in [ver: 1..MaxVersion, event: Event, channel: ToSet(Channels)] :
     /\ j.event = "created" => j.ver = 1
     /\ j.event \in OwnerEvent => j.ver > 1
     /\ j.event = "expired" => j.channel # "guestEmail"}

MailJob == {j \in JobId : j.channel \in MailChannel}
NoJob == [ver |-> 0, event |-> "none", channel |-> "none"]

\* An attempt neither the cursor nor a run holds can never be looked up again, so that one
\* more attempt than there are runs stands for the endless supply of fresh ids.
Attempt == 1..(Cardinality(Runner) + 1)
NoAttempt == 0

\* The parts of a booking a notification speaks of; notes and receipts are not among them.
Fingerprint == [status: Status, term: Nat]
NoFingerprint == [status |-> "none", term |-> 0]
FingerprintOf(w) == [status |-> w.status, term |-> w.term]

JobState == {"none", "queued", "sending", "sent", "failed", "unknown"}
Job == [state: JobState, print: Fingerprint \cup {NoFingerprint}, ack: {"none", "sent", "unknown"}]
Unwritten == [state |-> "none", print |-> NoFingerprint, ack |-> "none"]
Open(j) == job[j].state \in {"queued", "sending"}

\* What a queue keeps of the jobs in S, in their order.
Keep(q, S) ==
  LET kept[n \in 0..Len(q)] ==
        IF n = 0 THEN <<>>
        ELSE IF q[n] \in S THEN Append(kept[n - 1], q[n]) ELSE kept[n - 1]
  IN kept[Len(q)]

\* The jobs one event of a booking offers, one per channel; an expiry is no guest's business.
Notices(w, event) ==
  LET ids == [i \in 1..Len(Channels) |->
                [ver |-> w.ver, event |-> event, channel |-> Channels[i]]]
  IN Keep(ids, JobId)

\* notificationPlan: jobs already written are kept, open ones are queued once.
Plan(w, event) ==
  LET new(j) == j.ver = w.ver /\ j.event = event /\ job[j].state = "none"
  IN /\ job' = [j \in JobId |->
                  IF new(j) THEN [Unwritten EXCEPT !.state = "queued", !.print = FingerprintOf(w)]
                  ELSE job[j]]
     /\ index' = index \o Keep(Notices(w, event),
                               {j \in JobId : new(j) \/ Open(j)} \ ToSet(index))

\* deliveryGuard: what job j says of the booking is still so.
DeliveryGuard(w, isLate, j) ==
  /\ w.owner
  /\ w.ver >= j.ver
  /\ job[j].print = FingerprintOf(w)
  /\ j.event \in {"created", "extended"} => w.status = "held" /\ ~isLate
  /\ j.event = "expired" => w.status = "held" /\ isLate
  /\ j.event = "converted" => w.status = "confirmed"
  /\ j.event = "released" => w.status = "cancelled"

-----------------------------------------------------------------------------
(* State. *)

Step == {"idle", "cursor", "claim", "replay", "process", "dispatch", "send",
         "accepted", "uncertain", "ack", "settle", "finish"}

\* A Studio binding is one found through its client's approved sites.
Workspace == [ver: 1..MaxVersion, status: Status, term: 1..MaxVersion,
              notified: Fingerprint \cup {NoFingerprint}, owner: BOOLEAN, studio: BOOLEAN]

\* An attempt that found nothing more to do remembers the queue it left.
Receipt == [made: BOOLEAN, job: JobId \cup {NoJob}, empty: SUBSET Seq(JobId)]

Dispatched == {"none", "sending", "accepted", "sent", "unknown"}
Delivery == [state: Dispatched, by: Runner \cup {NoRunner}]

NewBooking == [ver |-> 1, status |-> "held", term |-> 1, notified |-> NoFingerprint,
               owner |-> TRUE, studio |-> FALSE]

NoReceipt == [made |-> FALSE, job |-> NoJob, empty |-> {}]
NoDelivery == [state |-> "none", by |-> NoRunner]

\* A run that has not started or has ended; only the store outlives it.
Idle == [step |-> "idle", attempt |-> NoAttempt, job |-> NoJob, payload |-> FALSE,
         seen |-> NewBooking, mine |-> "none"]

Run == [step: Step, attempt: Attempt \cup {NoAttempt}, job: JobId \cup {NoJob},
        payload: BOOLEAN, seen: Workspace, mine: Dispatched]

TypeOK ==
  /\ ws \in Workspace
  /\ late \in BOOLEAN
  /\ job \in [JobId -> Job]
  /\ index \in Seq(JobId)
  /\ scan \in JobId \cup {NoJob}
  /\ cursor \in [attempt: Attempt \cup {NoAttempt}, empty: SUBSET Seq(JobId)]
  /\ receipt \in [Attempt -> Receipt]
  /\ delivery \in [MailJob -> Delivery]
  /\ claimAged \subseteq MailJob
  /\ sentAged \subseteq MailJob
  /\ mails \in [MailJob -> Nat]
  /\ run \in [Runner -> Run]
  /\ faults \in 0..MaxFaults

\* The booking was just reserved: its hold and its first notifications are one commit.
Init ==
  /\ ws = NewBooking
  /\ late = FALSE
  /\ job = [j \in JobId |->
              IF j.event = "created" THEN [Unwritten EXCEPT !.state = "queued", !.print = FingerprintOf(ws)]
              ELSE Unwritten]
  /\ index = Notices(ws, "created")
  /\ scan = NoJob
  /\ cursor = [attempt |-> NoAttempt, empty |-> {}]
  /\ receipt = [a \in Attempt |-> NoReceipt]
  /\ delivery = [j \in MailJob |-> NoDelivery]
  /\ claimAged = {}
  /\ sentAged = {}
  /\ mails = [j \in MailJob |-> 0]
  /\ run = [r \in Runner |-> Idle]
  /\ faults = 0

-----------------------------------------------------------------------------
(* The owner, the deadline, and the time that passes over claims and dispatches. *)

\* holdOperation: the decision, its revision and its notifications are one commit.
Decide(event, next) ==
  /\ ws.status = "held"
  /\ ws.ver < MaxVersion
  /\ ws' = [next EXCEPT !.ver = ws.ver + 1]
  /\ Plan(ws', event)
  /\ UNCHANGED <<scan, receipt, cursor, claimAged, sending, run, faults>>

Extend ==
  /\ late' = FALSE
  /\ Decide("extended", [ws EXCEPT !.term = @ + 1])

Convert ==
  /\ UNCHANGED late
  /\ Decide("converted", [ws EXCEPT !.status = "confirmed"])

Release ==
  /\ UNCHANGED late
  /\ Decide("released", [ws EXCEPT !.status = "cancelled"])

\* A payment, refund or note revises the booking and tells nobody.
Revise ==
  /\ ws.ver < MaxVersion
  /\ ws' = [ws EXCEPT !.ver = @ + 1]
  /\ UNCHANGED <<late, queue, cursor, sending, run, faults>>

\* The owner loses the property.  Whether the binding is a Studio's matters only from here on,
\* so it is chosen here.
Revoke ==
  /\ ws.owner
  /\ \E studio \in BOOLEAN : ws' = [ws EXCEPT !.owner = FALSE, !.studio = studio]
  /\ UNCHANGED <<late, queue, cursor, sending, run, faults>>

DeadlinePasses ==
  /\ ws.status = "held"
  /\ ~late
  /\ late' = TRUE
  /\ UNCHANGED <<ws, queue, cursor, sending, run, faults>>

\* Mutant: the reminder is queued without the mark.
EnqueueExpired_Unmarked ==
  /\ ws.owner
  /\ ws.status = "held" /\ late
  /\ ws.notified # FingerprintOf(ws)
  /\ Plan(ws, "expired")
  /\ UNCHANGED <<booking, scan, receipt, claimAged, cursor, sending, run, faults>>

\* Mutant: a hold is reminded of once, whatever its later deadlines.
EnqueueExpired_Once ==
  /\ ws.owner
  /\ ws.status = "held" /\ late
  /\ ws.notified = NoFingerprint
  /\ ws' = [ws EXCEPT !.notified = FingerprintOf(ws)]
  /\ Plan(ws, "expired")
  /\ UNCHANGED <<late, scan, receipt, claimAged, cursor, sending, run, faults>>

\* enqueueExpiredHolds: the reminder and the mark that it was queued are one commit.
EnqueueExpired ==
  /\ ws.owner
  /\ ws.status = "held" /\ late
  /\ ws.notified # FingerprintOf(ws)
  /\ ws' = [ws EXCEPT !.notified = FingerprintOf(ws)]
  /\ Plan(ws, "expired")
  /\ UNCHANGED <<late, scan, receipt, claimAged, cursor, sending, run, faults>>

ClaimAges(j) ==
  /\ job[j].state = "sending"
  /\ j \notin claimAged
  /\ claimAged' = claimAged \cup {j}
  /\ UNCHANGED <<booking, job, index, scan, receipt, cursor, sending, run, faults>>

\* A dispatch is never older than the claim it followed.
DispatchAges(j) ==
  /\ delivery[j].state = "sending"
  /\ job[j].state = "sending" => j \in claimAged
  /\ j \notin sentAged
  /\ sentAged' = sentAged \cup {j}
  /\ UNCHANGED <<booking, queue, cursor, delivery, mails, run, faults>>

-----------------------------------------------------------------------------
(* One run: take the cursor's attempt, claim a job, deliver it, move on. *)

At(r, step) == run[r].step = step
Becomes(r, state) == run' = [run EXCEPT ![r] = state]
Keeping(r, step) == [Idle EXCEPT !.step = step, !.attempt = run[r].attempt, !.job = run[r].job]
Goes(r, step) == Becomes(r, Keeping(r, step))
Handed(r, j, payload) == [Keeping(r, "process") EXCEPT !.job = j, !.payload = payload]
Moves(r, step) == Becomes(r, [Idle EXCEPT !.step = step, !.attempt = run[r].attempt])
Rests(r) == Becomes(r, Idle)

\* resolvedBindings: for a Studio binding without its owner the run ends here, outside every catch.
Authorized == ws.owner \/ ~ws.studio

Start(r) ==
  /\ At(r, "idle")
  /\ Authorized
  /\ Becomes(r, [Idle EXCEPT !.step = "cursor"])
  /\ UNCHANGED <<booking, queue, cursor, sending, faults>>

TakeCursor(r) ==
  /\ At(r, "cursor")
  /\ cursor.attempt # NoAttempt
  /\ Becomes(r, [Idle EXCEPT !.step = "claim", !.attempt = cursor.attempt])
  /\ UNCHANGED <<booking, queue, cursor, sending, faults>>

Fresh == CHOOSE a \in Attempt : \A r \in Runner : run[r].attempt # a

\* A fresh attempt, unless the queue is the one the last claim found empty.
NewAttempt(r) ==
  LET a == Fresh IN
  /\ At(r, "cursor")
  /\ cursor.attempt = NoAttempt
  /\ index \notin cursor.empty
  /\ cursor' = [attempt |-> a, empty |-> {}]
  /\ receipt' = [receipt EXCEPT ![a] = NoReceipt]
  /\ Becomes(r, [Idle EXCEPT !.step = "claim", !.attempt = a])
  /\ UNCHANGED <<booking, job, index, scan, claimAged, sending, faults>>

NothingNew(r) ==
  /\ At(r, "cursor")
  /\ cursor.attempt = NoAttempt
  /\ index \in cursor.empty
  /\ Rests(r)
  /\ UNCHANGED <<booking, queue, cursor, sending, faults>>

\* One bounded scan of the queue: what it times out, denies and drops on the way to a job.
Scanned ==
  LET start == IF scan \in ToSet(index) THEN CHOOSE i \in 1..Len(index) : index[i] = scan ELSE 1
      window == start..(IF start + MaxScan - 1 <= Len(index) THEN start + MaxScan - 1 ELSE Len(index))
      ours == {i \in window : index[i] \in MailJob}
      fit == {i \in ours : job[index[i]].state = "queued" /\ DeliveryGuard(ws, late, index[i])}
      stop == {i \in fit : \A k \in fit : i <= k}
      passed == {index[i] : i \in {k \in ours : \A m \in stop : k < m}}
      last == IF stop = {} THEN start + Cardinality(window) - 1 ELSE CHOOSE i \in stop : TRUE
  IN [timedOut |-> {j \in passed : job[j].state = "sending" /\ j \in claimAged},
      denied |-> {j \in passed : job[j].state = "queued"},
      closed |-> {j \in passed : ~Open(j)},
      pick |-> IF stop = {} THEN NoJob ELSE index[last],
      next |-> IF last < Len(index) THEN index[last + 1] ELSE NoJob,
      done |-> stop = {} /\ last >= Len(index)]

\* The claim's commit compares the booking, the scan position and every job it changes.  What
\* it does not compare (the queue, when nothing leaves it) only grows behind the scan or
\* loses jobs of others, so a claim that commits is one made at its commit.
MakeClaim(r) ==
  LET a == run[r].attempt
  IN /\ At(r, "claim")
     /\ ~receipt[a].made
     /\ \E c \in {Scanned} :
          /\ claimAged' = claimAged \ c.timedOut
          /\ job' = [j \in JobId |->
                       IF j \in c.timedOut THEN [job[j] EXCEPT !.state = "unknown"]
                       ELSE IF j \in c.denied THEN [job[j] EXCEPT !.state = "failed"]
                       ELSE IF j = c.pick THEN [job[j] EXCEPT !.state = "sending"]
                       ELSE job[j]]
          /\ index' = Keep(index, JobId \ (c.timedOut \cup c.denied \cup c.closed))
          /\ scan' = c.next
          /\ receipt' = [receipt EXCEPT ![a] =
                           [made |-> TRUE, job |-> c.pick,
                            empty |-> IF c.done THEN {index'} ELSE {}]]
     /\ Moves(r, "replay")
     /\ UNCHANGED <<booking, cursor, sending, faults>>

\* Mutant: a lost claim goes back to the queue.
Replay_Requeues(r) ==
  LET c == receipt[run[r].attempt]
      j == c.job
      lost == job[j].state = "sending" /\ (j \in claimAged \/ ~DeliveryGuard(ws, late, j))
  IN /\ At(r, "claim") \/ At(r, "replay")
     /\ c.made
     /\ IF j = NoJob
        THEN Moves(r, "finish") /\ UNCHANGED <<job, claimAged>>
        ELSE /\ job' = IF lost THEN [job EXCEPT ![j].state = "queued"] ELSE job
             /\ claimAged' = IF lost THEN claimAged \ {j} ELSE claimAged
             /\ Becomes(r, Handed(r, j, job'[j].state = "sending"))
     /\ UNCHANGED <<booking, index, scan, receipt, cursor, sending, faults>>

\* replayClaim: an attempt that was made returns the same job, and never reopens it.
Replay(r) ==
  LET c == receipt[run[r].attempt]
      j == c.job
      lost == job[j].state = "sending" /\ (j \in claimAged \/ ~DeliveryGuard(ws, late, j))
  IN /\ At(r, "claim") \/ At(r, "replay")
     /\ c.made
     /\ IF j = NoJob
        THEN Moves(r, "finish") /\ UNCHANGED <<job, claimAged>>
        ELSE /\ job' = IF lost THEN [job EXCEPT ![j].state = "unknown"] ELSE job
             /\ claimAged' = IF lost THEN claimAged \ {j} ELSE claimAged
             /\ Becomes(r, Handed(r, j, job'[j].state = "sending"))
     /\ UNCHANGED <<booking, index, scan, receipt, cursor, sending, faults>>

\* Another run may still be sending: leave the attempt to a later run.
AwaitSender(r) ==
  LET j == run[r].job
  IN /\ At(r, "process")
     /\ delivery[j].state = "sending" /\ j \notin sentAged
     /\ Rests(r)
     /\ UNCHANGED <<booking, queue, cursor, sending, faults>>

\* Mutant: an interrupted dispatch is taken for one that never happened.
Interrupted_Failed(r) ==
  LET j == run[r].job
  IN /\ At(r, "process")
     /\ delivery[j].state = "sending" /\ j \in sentAged
     /\ delivery' = [delivery EXCEPT ![j].state = "failed"]
     /\ sentAged' = sentAged \ {j}
     /\ Becomes(r, [Keeping(r, "ack") EXCEPT !.mine = "unknown"])
     /\ UNCHANGED <<booking, queue, cursor, mails, faults>>

\* The sender is gone: nobody knows whether the provider was called.
Interrupted(r) ==
  LET j == run[r].job
  IN /\ At(r, "process")
     /\ delivery[j].state = "sending" /\ j \in sentAged
     /\ delivery' = [delivery EXCEPT ![j].state = "unknown"]
     /\ sentAged' = sentAged \ {j}
     /\ Becomes(r, [Keeping(r, "ack") EXCEPT !.mine = "unknown"])
     /\ UNCHANGED <<booking, queue, cursor, mails, faults>>

ResumeAck(r) ==
  LET j == run[r].job
  IN /\ At(r, "process")
     /\ delivery[j].state \in {"accepted", "sent", "unknown"}
     /\ Becomes(r, [Keeping(r, "ack") EXCEPT !.mine = delivery[j].state])
     /\ UNCHANGED <<booking, queue, cursor, sending, faults>>

\* The claim ran out before any dispatch was recorded.
GiveUp(r) ==
  LET j == run[r].job
  IN /\ At(r, "process")
     /\ delivery[j].state = "none"
     /\ ~run[r].payload \/ j \in claimAged \/ job[j].state # "sending"
     /\ Moves(r, "finish")
     /\ UNCHANGED <<booking, queue, cursor, sending, faults>>

\* notificationDispatchPlan: authorize the send and keep what was read for the commit.
PlanDispatch(r) ==
  LET j == run[r].job
  IN /\ At(r, "process")
     /\ delivery[j].state = "none"
     /\ run[r].payload /\ j \notin claimAged
     /\ IF job[j].state = "sending" /\ DeliveryGuard(ws, late, j)
        THEN Becomes(r, [Keeping(r, "dispatch") EXCEPT !.seen = ws])
        ELSE Rests(r)
     /\ UNCHANGED <<booking, queue, cursor, sending, faults>>

\* Mutant: a dispatch record of another run is overwritten.
DispatchStands_Anyway(r) ==
  /\ job[run[r].job].state = "sending"
  /\ ws = run[r].seen

\* Mutant: the commit does not compare the booking it read.
DispatchStands_Stale(r) ==
  /\ delivery[run[r].job].state = "none"
  /\ job[run[r].job].state = "sending"

\* The dispatch record is written only where none is, and only if job and booking still stand.
DispatchStands(r) ==
  /\ delivery[run[r].job].state = "none"
  /\ job[run[r].job].state = "sending"
  /\ ws = run[r].seen

Dispatch(r) ==
  /\ At(r, "dispatch")
  /\ DispatchStands(r)
  /\ delivery' = [delivery EXCEPT ![run[r].job] = [state |-> "sending", by |-> r]]
  /\ Goes(r, "send")
  /\ UNCHANGED <<booking, queue, cursor, sentAged, mails, faults>>

DispatchConflict(r) ==
  /\ At(r, "dispatch")
  /\ ~DispatchStands(r)
  /\ Rests(r)
  /\ UNCHANGED <<booking, queue, cursor, sending, faults>>

\* The only external call.  It may fail after the provider took the mail.
Send(r, took, told) ==
  /\ At(r, "send")
  /\ told => took
  /\ mails' = [mails EXCEPT ![run[r].job] = IF took THEN @ + 1 ELSE @]
  /\ Goes(r, IF told THEN "accepted" ELSE "uncertain")
  /\ UNCHANGED <<booking, queue, cursor, delivery, sentAged, faults>>

\* Only the record this run wrote may be replaced; after a time-out it is no longer there.
Own(r) == delivery[run[r].job] = [state |-> "sending", by |-> r]

RecordAnswer(r, step, state) ==
  /\ At(r, step)
  /\ IF Own(r)
     THEN /\ delivery' = [delivery EXCEPT ![run[r].job].state = state]
          /\ sentAged' = sentAged \ {run[r].job}
          /\ Becomes(r, [Keeping(r, "ack") EXCEPT !.mine = state])
     ELSE Rests(r) /\ UNCHANGED <<delivery, sentAged>>
  /\ UNCHANGED <<booking, queue, cursor, mails, faults>>

Accepted(r) == RecordAnswer(r, "accepted", "accepted")
Uncertain(r) == RecordAnswer(r, "uncertain", "unknown")

\* Mutant: any recorded dispatch counts as sent.
WantsSent_Dispatched(r) == run[r].mine # "none"

WantsSent(r) == run[r].mine \in {"accepted", "sent"}
Verdict(r) == IF WantsSent(r) THEN "sent" ELSE "unknown"

\* ack: the first acknowledgement of an attempt is final, a repeated one changes nothing.
Acknowledge(r) ==
  LET j == run[r].job
      first == job[j].ack = "none" /\ job[j].state \in {"sending", "unknown"}
  IN /\ At(r, "ack")
     /\ IF first
        THEN /\ job' = [job EXCEPT ![j].state = Verdict(r), ![j].ack = Verdict(r)]
             /\ index' = Keep(index, JobId \ {j})
             /\ claimAged' = claimAged \ {j}
        ELSE UNCHANGED <<job, index, claimAged>>
     /\ IF first \/ job[j].ack = Verdict(r)
        THEN Becomes(r, [Keeping(r, "settle") EXCEPT !.mine = run[r].mine])
        ELSE Rests(r)
     /\ UNCHANGED <<booking, scan, receipt, cursor, sending, faults>>

\* The dispatch record takes the outcome the outbox has.
SettleDelivery(r) ==
  LET j == run[r].job
  IN /\ At(r, "settle")
     /\ IF delivery[j].state = run[r].mine /\ job[j].state = Verdict(r)
        THEN /\ delivery' = [delivery EXCEPT ![j].state = Verdict(r)]
             /\ Moves(r, "finish")
        ELSE Rests(r) /\ UNCHANGED delivery
     /\ UNCHANGED <<booking, queue, cursor, sentAged, mails, faults>>

\* A run takes the next attempt until its batch is full or it found nothing more to do.
Continues(r) ==
  \/ Rests(r)
  \/ receipt[run[r].attempt].empty = {} /\ Becomes(r, [Idle EXCEPT !.step = "cursor"])

\* Mutant: every attempt that ends records the queue it leaves as empty.
FinishCursor_Early(r) ==
  /\ At(r, "finish")
  /\ cursor' = IF cursor.attempt # run[r].attempt THEN cursor
               ELSE [attempt |-> NoAttempt, empty |-> {index}]
  /\ Continues(r)
  /\ UNCHANGED <<booking, queue, sending, faults>>

\* finishCursor: leave the cursor alone if another run has already moved it on.
FinishCursor(r) ==
  /\ At(r, "finish")
  /\ cursor' = IF cursor.attempt # run[r].attempt THEN cursor
               ELSE [attempt |-> NoAttempt, empty |-> receipt[run[r].attempt].empty]
  /\ Continues(r)
  /\ UNCHANGED <<booking, queue, sending, faults>>

\* A crash, or a call of the store that fails: the run ends where it is.
Fail(r) ==
  /\ ~At(r, "idle")
  /\ faults < MaxFaults
  /\ faults' = faults + 1
  /\ Rests(r)
  /\ UNCHANGED <<booking, queue, cursor, sending>>

TimePasses == \E j \in MailJob : ClaimAges(j) \/ DispatchAges(j)

Works(r) ==
  \/ Start(r) \/ TakeCursor(r) \/ NewAttempt(r) \/ NothingNew(r)
  \/ MakeClaim(r) \/ Replay(r)
  \/ AwaitSender(r) \/ Interrupted(r) \/ ResumeAck(r) \/ GiveUp(r)
  \/ PlanDispatch(r) \/ Dispatch(r) \/ DispatchConflict(r)
  \/ \E took, told \in BOOLEAN : Send(r, took, told)
  \/ Accepted(r) \/ Uncertain(r)
  \/ Acknowledge(r) \/ SettleDelivery(r) \/ FinishCursor(r)

Next ==
  \/ Extend \/ Convert \/ Release \/ Revise \/ Revoke
  \/ DeadlinePasses
  \/ EnqueueExpired
  \/ TimePasses
  \/ \E r \in Runner : Works(r) \/ Fail(r)

Spec == Init /\ [][Next]_vars

\* The cron fires every minute, and time passes; owners and LINE owe nothing.
Fairness ==
  /\ WF_ws(EnqueueExpired)
  /\ WF_<<claimAged, sentAged>>(TimePasses)
  /\ \A r \in Runner : WF_run(Works(r))

FairSpec == Spec /\ Fairness

-----------------------------------------------------------------------------
(* Properties. *)

\* However runs overlap, crash and time out, no job's e-mail goes out twice.
OneMailPerJob == \A j \in MailJob : mails[j] <= 1

\* What the outbox says of an e-mail is true: a sent one was sent, a failed one never was,
\* and no acknowledgement contradicts the dispatch record it came from.
OutcomeIsTrue ==
  \A j \in MailJob :
    /\ job[j].state = "sent" => mails[j] = 1
    /\ job[j].state = "failed" => mails[j] = 0
    /\ job[j].ack = "unknown" => delivery[j].state = "unknown"

\* One deadline of the hold is reminded of once, whatever revisions follow.
OneReminderPerDeadline ==
  \A i, j \in JobId :
    /\ i.event = "expired" /\ j.event = "expired" /\ i.channel = j.channel
    /\ job[i].state # "none" /\ job[j].state # "none"
    /\ job[i].print = job[j].print
    => i = j

\* An e-mail is dispatched only in a commit where the booking still is as the e-mail says
\* and the owner still has the property.
MailStillTrue ==
  [][\A j \in MailJob :
       delivery[j].state = "none" /\ delivery'[j].state = "sending"
       => ws.owner /\ job[j].print = FingerprintOf(ws)]_vars

Outcome(j) == IF Open(j) THEN "open" ELSE job[j].state

Promise == INSTANCE MailPromise
             WITH Job <- MailJob, outcome <- [j \in MailJob |-> Outcome(j)]

\* The outbox implements the promise.
KeepsPromise == Promise!Spec

\* No queued e-mail starves behind the jobs of other channels, a bounded scan, a claim that
\* was lost or a queue that was found empty too early, and no evidence of the provider stays
\* unacknowledged after a crash: again and again nothing waits.  The exception: a Studio
\* binding whose owner is gone ends every run before it reaches the queue.
Waits(j) ==
  \/ job[j].state = "queued"
  \/ delivery[j].state = "accepted" /\ job[j].ack = "none"
QueueDrains == []<>(~Authorized \/ \A j \in MailJob : ~Waits(j))

\* An overdue hold is brought to the owner's attention, unless it was decided, got a new
\* deadline or the owner lost the property: no hold stays overdue and unnoticed.
Unnoticed == ws.status = "held" /\ late /\ ws.owner /\ ws.notified # FingerprintOf(ws)
OverdueIsReminded == []<>~Unnoticed
=============================================================================
