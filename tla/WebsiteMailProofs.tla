-------------------------- MODULE WebsiteMailProofs --------------------------
(* Whatever the number of runs, crashes, revisions and channels, no job is      *)
(* mailed twice, the outbox tells the truth and implements MailPromise, and a   *)
(* deadline is reminded of once.                                                *)
EXTENDS WebsiteMail, FiniteSetTheorems, WellFoundedInduction, TLAPS

-----------------------------------------------------------------------------
(* The types the argument needs.  The queue is not part of it: what it holds    *)
(* has its own invariant, QueueInv below.                                       *)

\* The steps of a run that has a job in hand.
Holding == {"process", "dispatch", "send", "accepted", "uncertain", "ack", "settle"}

\* The steps of a run that has an attempt.
Attempting == Holding \cup {"claim", "replay", "finish"}

Types ==
  /\ ws \in Workspace /\ ws.term <= ws.ver
  /\ job \in [JobId -> Job]
  /\ cursor.attempt \in Attempt \cup {NoAttempt}
  /\ DOMAIN receipt = Attempt
  /\ \A a \in Attempt : receipt[a].job \in MailJob \cup {NoJob}
  /\ delivery \in [MailJob -> Delivery]
  /\ mails \in [MailJob -> Nat]
  /\ run \in [Runner -> Run]
  /\ \A r \in Runner : /\ run[r].step \in Holding => run[r].job \in MailJob
                       /\ run[r].step \in Attempting => run[r].attempt \in Attempt

\* A fresh attempt exists: the runs cannot hold them all.
LEMMA FreshExists ==
  ASSUME Types
  PROVE  Fresh \in Attempt
<1>. DEFINE n == Cardinality(Runner)
<1>1. n \in Nat /\ IsFiniteSet(Runner)  BY MailAssumption, FS_CardinalityType
<1>2. IsFiniteSet(Attempt) /\ Cardinality(Attempt) = n + 1
  <2>1. 1 \in Int /\ n + 1 \in Int /\ ~(1 > n + 1)  BY <1>1
  <2>. QED  BY <1>1, <2>1, FS_Interval DEF Attempt
<1>3. \E a \in Attempt : \A r \in Runner : run[r].attempt # a
  <2>. SUFFICES ASSUME \A a \in Attempt : \E r \in Runner : run[r].attempt = a
                PROVE  FALSE
    OBVIOUS
  <2>. DEFINE f == [a \in Attempt |-> CHOOSE r \in Runner : run[r].attempt = a]
  <2>1. \A a \in Attempt : f[a] \in Runner /\ run[f[a]].attempt = a  OBVIOUS
  <2>2. f \in [Attempt -> Runner]  BY <2>1
  <2>. HIDE DEF f
  <2>3. Cardinality(Runner) < Cardinality(Attempt)  BY <1>1, <1>2
  <2>4. \E a, b \in Attempt : a # b /\ f[a] = f[b]
    BY <1>1, <1>2, <2>2, <2>3, FS_PigeonHole
  <2>. QED  BY <2>1, <2>4
<1>. QED  BY <1>3 DEF Fresh

\* What a scan passes, denies and picks are e-mail jobs in the states it may change.
LEMMA ScanFacts ==
  /\ \A j \in Scanned.timedOut : job[j].state = "sending"
  /\ \A j \in Scanned.denied : job[j].state = "queued"
  /\ \/ Scanned.pick = NoJob
     \/ Scanned.pick \in MailJob /\ job[Scanned.pick].state = "queued"
<1>. DEFINE start == IF scan \in ToSet(index) THEN CHOOSE i \in 1..Len(index) : index[i] = scan ELSE 1
            window == start..(IF start + MaxScan - 1 <= Len(index) THEN start + MaxScan - 1 ELSE Len(index))
            ours == {i \in window : index[i] \in MailJob}
            fit == {i \in ours : job[index[i]].state = "queued" /\ DeliveryGuard(ws, late, index[i])}
            stop == {i \in fit : \A k \in fit : i <= k}
            passed == {index[i] : i \in {k \in ours : \A m \in stop : k < m}}
            last == IF stop = {} THEN start + Cardinality(window) - 1 ELSE CHOOSE i \in stop : TRUE
<1>1. /\ Scanned.timedOut = {j \in passed : job[j].state = "sending" /\ j \in claimAged}
      /\ Scanned.denied = {j \in passed : job[j].state = "queued"}
      /\ Scanned.pick = IF stop = {} THEN NoJob ELSE index[last]
  BY DEF Scanned
<1>2. CASE stop = {}  BY <1>1, <1>2
<1>3. CASE stop # {}
  <2>1. last \in stop  BY <1>3
  <2>2. index[last] \in MailJob /\ job[index[last]].state = "queued"  BY <2>1
  <2>. QED  BY <1>1, <1>3, <2>2
<1>. QED  BY <1>2, <1>3

\* No job is the absence of one.
LEMMA NoJobIsNone == NoJob \notin JobId /\ MailJob \subseteq JobId
BY DEF NoJob, JobId, MailJob

LEMMA NewBookingType == NewBooking \in Workspace /\ NewBooking.term <= NewBooking.ver
<1>1. 1 \in 1..MaxVersion  BY MailAssumption
<1>. QED  BY <1>1 DEF NewBooking, Workspace, Status

\* A run at rest is well-typed.
LEMMA IdleType == Idle \in Run /\ Idle.step = "idle"
BY NewBookingType DEF Idle, Run, Step, Dispatched

\* A run that goes on keeps its attempt and its job.
LEMMA KeepingType ==
  ASSUME Types, NEW r \in Runner, NEW step \in Step
  PROVE  LET k == Keeping(r, step) IN
           k \in Run /\ k.step = step /\ k.job = run[r].job /\ k.attempt = run[r].attempt
<1>1. run[r].job \in JobId \cup {NoJob} /\ run[r].attempt \in Attempt \cup {NoAttempt}
  BY DEF Types, Run
<1>. QED  BY <1>1, NewBookingType, "none" \in Dispatched DEF Keeping, Idle, Run, Dispatched

\* It may remember what its dispatch record says,
LEMMA MineType ==
  ASSUME Types, NEW r \in Runner, NEW step \in Step, NEW d \in Dispatched
  PROVE  LET k == [Keeping(r, step) EXCEPT !.mine = d] IN
           k \in Run /\ k.step = step /\ k.job = run[r].job /\ k.attempt = run[r].attempt /\ k.mine = d
<1>. DEFINE k == Keeping(r, step)
<1>1. k \in Run /\ k.step = step /\ k.job = run[r].job /\ k.attempt = run[r].attempt  BY KeepingType
<1>. HIDE DEF k
<1>2. LET m == [k EXCEPT !.mine = d] IN
        m \in Run /\ m.step = step /\ m.job = run[r].job /\ m.attempt = run[r].attempt /\ m.mine = d
  BY <1>1 DEF Run
<1>. QED  BY <1>2 DEF k

\* the booking it read,
LEMMA SeenType ==
  ASSUME Types, NEW r \in Runner, NEW step \in Step, NEW w \in Workspace
  PROVE  LET k == [Keeping(r, step) EXCEPT !.seen = w] IN
           k \in Run /\ k.step = step /\ k.job = run[r].job /\ k.attempt = run[r].attempt /\ k.seen = w
<1>. DEFINE k == Keeping(r, step)
<1>1. k \in Run /\ k.step = step /\ k.job = run[r].job /\ k.attempt = run[r].attempt  BY KeepingType
<1>. HIDE DEF k
<1>2. LET m == [k EXCEPT !.seen = w] IN
        m \in Run /\ m.step = step /\ m.job = run[r].job /\ m.attempt = run[r].attempt /\ m.seen = w
  BY <1>1 DEF Run
<1>. QED  BY <1>2 DEF k

\* or the job and the payload it was handed.
LEMMA HandedType ==
  ASSUME Types, NEW r \in Runner, NEW j \in JobId, NEW b \in BOOLEAN
  PROVE  LET k == Handed(r, j, b) IN
           k \in Run /\ k.step = "process" /\ k.job = j /\ k.attempt = run[r].attempt
<1>. DEFINE k == Keeping(r, "process")
            h == [k EXCEPT !.job = j]
<1>1. k \in Run /\ k.step = "process" /\ k.attempt = run[r].attempt
  BY KeepingType, "process" \in Step DEF Step
<1>. HIDE DEF k
<1>2. h \in Run /\ h.step = "process" /\ h.job = j /\ h.attempt = run[r].attempt
  BY <1>1 DEF Run
<1>. HIDE DEF h
<1>3. LET m == [h EXCEPT !.payload = b] IN
        m \in Run /\ m.step = "process" /\ m.job = j /\ m.attempt = run[r].attempt
  BY <1>2 DEF Run
<1>4. Handed(r, j, b) = [h EXCEPT !.payload = b]  BY DEF h, k, Handed
<1>. QED  BY <1>3, <1>4

\* A run that becomes a well-typed state that has what its step needs.
LEMMA BecomesType ==
  ASSUME Types, NEW r \in Runner, NEW s \in Run, Becomes(r, s),
         s.step \in Holding => s.job \in MailJob,
         s.step \in Attempting => s.attempt \in Attempt
  PROVE  /\ run' \in [Runner -> Run] /\ run'[r] = s
         /\ \A q \in Runner \ {r} : run'[q] = run[q]
         /\ \A q \in Runner : /\ run'[q].step \in Holding => run'[q].job \in MailJob
                              /\ run'[q].step \in Attempting => run'[q].attempt \in Attempt
BY DEF Types, Becomes

-----------------------------------------------------------------------------
(* The invariant. *)

\* The dispatch record, the mail count and the outbox's word on one job agree.
JobInv(j) ==
  /\ mails[j] <= 1
  /\ delivery[j].state = "none" => mails[j] = 0
  /\ delivery[j].state \in {"accepted", "sent"} => mails[j] = 1
  /\ delivery[j].state # "none" => job[j].state \in {"sending", "sent", "unknown"}
  /\ job[j].state = "sent" => delivery[j].state \in {"accepted", "sent"}
  /\ job[j].ack = "unknown" => delivery[j].state = "unknown"

\* A run between its dispatch and its answer owns the record, which at worst another run has
\* given up as unknown; a run that acknowledges repeats what the record says; a run about to
\* dispatch has read a booking the job is true of.
RunInv(r) ==
  LET j == run[r].job
      d == delivery[j].state
  IN /\ run[r].step \in {"send", "accepted", "uncertain"} =>
          d \in {"sending", "unknown"} /\ delivery[j].by = r
     /\ run[r].step = "send" => mails[j] = 0
     /\ run[r].step = "accepted" => mails[j] = 1
     /\ run[r].step \in {"ack", "settle"} =>
          \/ run[r].mine \in {"accepted", "sent"} /\ d \in {"accepted", "sent"}
          \/ run[r].mine = "unknown" /\ d = "unknown"
     /\ run[r].step = "dispatch" =>
          /\ run[r].seen.owner
          /\ job[j].state # "none"
          /\ job[j].print = FingerprintOf(run[r].seen)

\* Reminders are no newer than the booking, and the one of its deadline left its mark.
ReminderInv ==
  \A i \in JobId :
    i.event = "expired" /\ job[i].state # "none" =>
      /\ i.ver <= ws.ver
      /\ job[i].print.status = "held" /\ job[i].print.term <= ws.term
      /\ job[i].print.term = ws.term => ws.notified = job[i].print

MailInv ==
  /\ \A j \in MailJob : JobInv(j)
  /\ \A r \in Runner : RunInv(r)
  /\ ReminderInv
  /\ OneReminderPerDeadline

Inv == Types /\ MailInv

-----------------------------------------------------------------------------
(* The booking's steps: jobs are only added, and a new job has no dispatch.     *)

\* Planning queues the event's jobs that were not written, and no other.
LEMMA PlanFacts ==
  ASSUME Types, NEW w \in Workspace, NEW event \in Event, Plan(w, event)
  PROVE  /\ job' \in [JobId -> Job]
         /\ \A j \in JobId :
              \/ job'[j] = job[j]
              \/ /\ j.ver = w.ver /\ j.event = event /\ job[j].state = "none"
                 /\ job'[j].state = "queued" /\ job'[j].print = FingerprintOf(w)
                 /\ job'[j].ack = "none"
<1>. DEFINE q == [Unwritten EXCEPT !.state = "queued", !.print = FingerprintOf(w)]
<1>1. FingerprintOf(w) \in Fingerprint  BY DEF FingerprintOf, Fingerprint, Workspace
<1>2. Unwritten \in Job /\ "queued" \in JobState  BY DEF Unwritten, Job, JobState
<1>3. q \in Job /\ q.state = "queued" /\ q.print = FingerprintOf(w) /\ q.ack = "none"
  BY <1>1, <1>2 DEF Job, Unwritten
<1>4. job' = [j \in JobId |-> IF j.ver = w.ver /\ j.event = event /\ job[j].state = "none"
                              THEN q ELSE job[j]]
  BY DEF Plan
<1>. HIDE DEF q
<1>. QED  BY <1>3, <1>4 DEF Types

\* A step that at most plans jobs leaves every dispatch, and every run, in agreement.
LEMMA PlanKeepsAgreement ==
  ASSUME Inv, UNCHANGED <<delivery, mails, run>>, job' \in [JobId -> Job],
         \A j \in JobId : \/ job'[j] = job[j]
                          \/ (job[j].state = "none" /\ job'[j].state = "queued" /\ job'[j].ack = "none")
  PROVE  (\A j \in MailJob : JobInv(j)') /\ (\A r \in Runner : RunInv(r)')
<1>1. ASSUME NEW j \in MailJob PROVE JobInv(j)'
  <2>1. JobInv(j) /\ j \in JobId  BY NoJobIsNone DEF Inv, MailInv
  <2>2. job'[j] = job[j] \/ (job[j].state = "none" /\ job'[j].state = "queued" /\ job'[j].ack = "none")
    BY <2>1
  <2>. QED  BY <2>1, <2>2 DEF JobInv
<1>2. ASSUME NEW r \in Runner PROVE RunInv(r)'
  <2>1. RunInv(r)  BY DEF Inv, MailInv
  <2>2. CASE run[r].step = "dispatch"
    <3>1. run[r].job \in JobId  BY <2>2, NoJobIsNone DEF Inv, Types, Holding
    <3>2. job'[run[r].job] = job[run[r].job]  BY <2>1, <2>2, <3>1 DEF RunInv
    <3>. QED  BY <2>1, <2>2, <3>2 DEF RunInv, FingerprintOf
  <2>3. CASE run[r].step # "dispatch"  BY <2>1, <2>3 DEF RunInv
  <2>. QED  BY <2>2, <2>3
<1>. QED  BY <1>1, <1>2

\* The parts of the types a step of the booking leaves alone.
LEMMA BookingTypes ==
  ASSUME Types, UNCHANGED <<cursor, receipt, delivery, mails, run>>,
         ws' \in Workspace, ws'.term <= ws'.ver, job' \in [JobId -> Job]
  PROVE  Types'
BY DEF Types

\* The owner's decisions: a new revision, a new term or a new status, and their jobs.
LEMMA DecisionKeepsInv ==
  ASSUME Inv, Extend \/ Convert \/ Release
  PROVE  Inv'
<1>1. PICK event \in OwnerEvent :
        /\ ws.status = "held" /\ ws.ver < MaxVersion
        /\ \/ ws' = [ws EXCEPT !.ver = ws.ver + 1, !.term = @ + 1]
           \/ ws' = [ws EXCEPT !.ver = ws.ver + 1, !.status = "confirmed"]
           \/ ws' = [ws EXCEPT !.ver = ws.ver + 1, !.status = "cancelled"]
        /\ Plan(ws', event)
        /\ UNCHANGED <<scan, receipt, cursor, delivery, mails, run>>
  <2>1. CASE Extend
    <3>1. ws' = [ws EXCEPT !.ver = ws.ver + 1, !.term = @ + 1]
      BY <2>1 DEF Extend, Decide, Inv, Types, Workspace
    <3>. QED  BY <2>1, <3>1 DEF Extend, Decide, OwnerEvent, sending
  <2>2. CASE Convert
    <3>1. ws' = [ws EXCEPT !.ver = ws.ver + 1, !.status = "confirmed"]
      BY <2>2 DEF Convert, Decide, Inv, Types, Workspace
    <3>. QED  BY <2>2, <3>1 DEF Convert, Decide, OwnerEvent, sending
  <2>3. CASE Release
    <3>1. ws' = [ws EXCEPT !.ver = ws.ver + 1, !.status = "cancelled"]
      BY <2>3 DEF Release, Decide, Inv, Types, Workspace
    <3>. QED  BY <2>3, <3>1 DEF Release, Decide, OwnerEvent, sending
  <2>. QED  BY <2>1, <2>2, <2>3
<1>2. ws \in Workspace /\ ws.term <= ws.ver /\ MaxVersion \in Nat  BY MailAssumption DEF Inv, Types
<1>3. ws' \in Workspace /\ ws'.term <= ws'.ver /\ ws'.ver >= ws.ver /\ ws'.notified = ws.notified
      /\ ws'.term >= ws.term
  <2>1. ws.ver + 1 \in 1..MaxVersion /\ ws.term + 1 \in 1..MaxVersion
    BY <1>1, <1>2 DEF Workspace
  <2>2. "confirmed" \in Status /\ "cancelled" \in Status  BY DEF Status
  <2>3. /\ [ws EXCEPT !.ver = ws.ver + 1, !.term = @ + 1] \in Workspace
        /\ [ws EXCEPT !.ver = ws.ver + 1, !.status = "confirmed"] \in Workspace
        /\ [ws EXCEPT !.ver = ws.ver + 1, !.status = "cancelled"] \in Workspace
    BY <1>2, <2>1, <2>2 DEF Workspace
  <2>4. ws' \in Workspace  BY <1>1, <2>3
  <2>5. /\ ws'.ver = ws.ver + 1 /\ ws'.notified = ws.notified
        /\ ws'.term = ws.term \/ ws'.term = ws.term + 1
    BY <1>1, <1>2 DEF Workspace
  <2>6. ws.ver \in Nat /\ ws.term \in Nat  BY <1>2 DEF Workspace
  <2>. QED  BY <1>2, <2>4, <2>5, <2>6
<1>4. job' \in [JobId -> Job] /\ \A j \in JobId :
        \/ job'[j] = job[j]
        \/ /\ j.event # "expired" /\ job[j].state = "none"
           /\ job'[j].state = "queued" /\ job'[j].ack = "none"
  <2>1. event \in Event /\ event # "expired"  BY <1>1 DEF OwnerEvent, Event
  <2>. QED  BY <1>1, <1>3, <2>1, PlanFacts DEF Inv
<1>5. Types'  BY <1>1, <1>3, <1>4, BookingTypes DEF Inv
<1>6. (\A j \in MailJob : JobInv(j)') /\ (\A r \in Runner : RunInv(r)')
  BY <1>1, <1>4, PlanKeepsAgreement
<1>7. ReminderInv'
  <2>. SUFFICES ASSUME NEW i \in JobId, i.event = "expired", job'[i].state # "none"
                PROVE  /\ i.ver <= ws'.ver
                       /\ job'[i].print.status = "held" /\ job'[i].print.term <= ws'.term
                       /\ job'[i].print.term = ws'.term => ws'.notified = job'[i].print
    BY DEF ReminderInv
  <2>1. job'[i] = job[i]  BY <1>4
  <2>2. /\ i.ver <= ws.ver /\ job[i].print.status = "held" /\ job[i].print.term <= ws.term
        /\ job[i].print.term = ws.term => ws.notified = job[i].print
    BY <2>1 DEF Inv, MailInv, ReminderInv
  <2>3. i.ver \in Nat /\ ws.ver \in Nat /\ ws'.ver \in Nat /\ ws.term \in Nat /\ ws'.term \in Nat
    BY <1>2, <1>3 DEF JobId, Workspace
  <2>4. job[i].print \in Fingerprint
    <3>1. job[i].print \in Fingerprint \cup {NoFingerprint}  BY DEF Inv, Types, Job
    <3>. QED  BY <3>1, <2>2 DEF NoFingerprint
  <2>5. job[i].print.term \in Nat  BY <2>4 DEF Fingerprint
  <2>. QED  BY <1>3, <2>1, <2>2, <2>3, <2>5
<1>8. OneReminderPerDeadline'
  BY <1>4 DEF Inv, MailInv, OneReminderPerDeadline
<1>. QED  BY <1>5, <1>6, <1>7, <1>8 DEF Inv, MailInv

\* Steps of the booking that write no job.
LEMMA QuietKeepsInv ==
  ASSUME Inv, Revise \/ Revoke \/ DeadlinePasses \/ TimePasses
  PROVE  Inv'
<1>1. UNCHANGED <<job, cursor, receipt, delivery, mails, run>>
  BY DEF Revise, Revoke, DeadlinePasses, TimePasses, ClaimAges, DispatchAges, queue, sending
<1>2. ws \in Workspace /\ ws.term <= ws.ver /\ MaxVersion \in Nat  BY MailAssumption DEF Inv, Types
<1>3. /\ ws' \in Workspace /\ ws'.term <= ws'.ver /\ ws'.ver >= ws.ver
      /\ ws'.notified = ws.notified /\ ws'.term = ws.term
  <2>1. CASE Revise  BY <1>2, <2>1 DEF Revise, Workspace
  <2>2. CASE Revoke
    <3>1. FALSE \in BOOLEAN  OBVIOUS
    <3>2. PICK studio \in BOOLEAN : ws' = [ws EXCEPT !.owner = FALSE, !.studio = studio]  BY <2>2 DEF Revoke
    <3>3. ws' \in Workspace  BY <1>2, <3>1, <3>2 DEF Workspace
    <3>4. ws'.term = ws.term /\ ws'.ver = ws.ver /\ ws'.notified = ws.notified
      BY <1>2, <3>2 DEF Workspace
    <3>5. ws.ver \in Nat BY <1>2 DEF Workspace
    <3>. QED  BY <1>2, <3>3, <3>4, <3>5
  <2>3. CASE DeadlinePasses \/ TimePasses
    BY <1>2, <2>3 DEF DeadlinePasses, TimePasses, ClaimAges, DispatchAges, booking, Workspace
  <2>. QED  BY <2>1, <2>2, <2>3
<1>4. Types'  BY <1>1, <1>3, BookingTypes DEF Inv, Types
<1>5. (\A j \in MailJob : JobInv(j)') /\ (\A r \in Runner : RunInv(r)')
  BY <1>1, PlanKeepsAgreement DEF Inv, Types
<1>6. ReminderInv'
  <2>1. \A i \in JobId : i.ver \in Nat  BY DEF JobId
  <2>2. ws.ver \in Nat /\ ws'.ver \in Nat  BY <1>2, <1>3 DEF Workspace
  <2>. QED  BY <1>1, <1>3, <2>1, <2>2 DEF Inv, MailInv, ReminderInv
<1>7. OneReminderPerDeadline'  BY <1>1 DEF Inv, MailInv, OneReminderPerDeadline
<1>. QED  BY <1>4, <1>5, <1>6, <1>7 DEF Inv, MailInv

\* The reminder of a deadline is queued only while no job of that deadline exists.
LEMMA ReminderKeepsInv ==
  ASSUME Inv, EnqueueExpired
  PROVE  Inv'
<1>. DEFINE print == FingerprintOf(ws)
<1>1. /\ ws.status = "held" /\ ws.notified # print /\ ws' = [ws EXCEPT !.notified = print]
      /\ Plan(ws, "expired") /\ UNCHANGED <<receipt, cursor, delivery, mails, run>>
  BY DEF EnqueueExpired, sending
<1>2. ws \in Workspace /\ ws.term <= ws.ver  BY DEF Inv, Types
<1>3. print \in Fingerprint /\ print.status = "held" /\ print.term = ws.term /\ ws.term \in Nat
  BY <1>1, <1>2 DEF FingerprintOf, Fingerprint, Workspace
<1>. HIDE DEF print
<1>4. /\ ws' \in Workspace /\ ws'.term = ws.term /\ ws'.ver = ws.ver /\ ws'.notified = print
  BY <1>1, <1>2, <1>3 DEF Workspace
<1>5. job' \in [JobId -> Job] /\ \A j \in JobId :
        \/ job'[j] = job[j]
        \/ /\ j.ver = ws.ver /\ j.event = "expired" /\ job[j].state = "none"
           /\ job'[j].state = "queued" /\ job'[j].print = print /\ job'[j].ack = "none"
  <2>1. "expired" \in Event  BY DEF Event
  <2>. QED  BY <1>1, <1>2, <2>1, PlanFacts DEF Inv, print
<1>6. Types'  BY <1>1, <1>2, <1>4, <1>5, BookingTypes DEF Inv
<1>7. (\A j \in MailJob : JobInv(j)') /\ (\A r \in Runner : RunInv(r)')
  BY <1>1, <1>5, PlanKeepsAgreement
<1>8. \A i \in JobId : i.event = "expired" /\ job[i].state # "none" =>
        /\ i.ver <= ws.ver /\ job[i].print.status = "held" /\ job[i].print.term <= ws.term
        /\ job[i].print.term # ws.term /\ job[i].print # print
  <2>. SUFFICES ASSUME NEW i \in JobId, i.event = "expired", job[i].state # "none"
                PROVE  /\ i.ver <= ws.ver /\ job[i].print.status = "held" /\ job[i].print.term <= ws.term
                       /\ job[i].print.term # ws.term /\ job[i].print # print
    OBVIOUS
  <2>1. /\ i.ver <= ws.ver /\ job[i].print.status = "held" /\ job[i].print.term <= ws.term
        /\ job[i].print.term = ws.term => ws.notified = job[i].print
    BY DEF Inv, MailInv, ReminderInv
  <2>2. job[i].print \in Fingerprint \cup {NoFingerprint}  BY DEF Inv, Types, Job
  <2>3. job[i].print \in Fingerprint  BY <2>1, <2>2 DEF NoFingerprint
  <2>4. job[i].print.term = ws.term => job[i].print = print
    BY <1>3, <2>1, <2>3 DEF Fingerprint
  <2>. QED  BY <1>1, <1>3, <2>1, <2>4
<1>9. ReminderInv'
  <2>. SUFFICES ASSUME NEW i \in JobId, i.event = "expired", job'[i].state # "none"
                PROVE  /\ i.ver <= ws'.ver
                       /\ job'[i].print.status = "held" /\ job'[i].print.term <= ws'.term
                       /\ job'[i].print.term = ws'.term => ws'.notified = job'[i].print
    BY DEF ReminderInv
  <2>1. i.ver \in Nat  BY DEF JobId
  <2>. QED  BY <1>3, <1>4, <1>5, <1>8, <2>1
<1>10. OneReminderPerDeadline'
  <2>. SUFFICES ASSUME NEW i \in JobId, NEW j \in JobId,
                       i.event = "expired", j.event = "expired", i.channel = j.channel,
                       job'[i].state # "none", job'[j].state # "none",
                       job'[i].print = job'[j].print
                PROVE  i = j
    BY DEF OneReminderPerDeadline
  <2>1. CASE job'[i] = job[i] /\ job'[j] = job[j]
    BY <2>1 DEF Inv, MailInv, OneReminderPerDeadline
  <2>2. CASE job'[i] = job[i] /\ job'[j] # job[j]  BY <1>5, <1>8, <2>2
  <2>3. CASE job'[i] # job[i] /\ job'[j] = job[j]  BY <1>5, <1>8, <2>3
  <2>4. CASE job'[i] # job[i] /\ job'[j] # job[j]
    <3>1. i.ver = j.ver /\ i.event = j.event  BY <1>5, <2>4
    <3>. QED  BY <3>1 DEF JobId
  <2>. QED  BY <2>1, <2>2, <2>3, <2>4
<1>. QED  BY <1>6, <1>7, <1>9, <1>10 DEF Inv, MailInv

-----------------------------------------------------------------------------
(* The steps of a run.                                                          *)

\* A step of a run that writes no job, dispatch or mail keeps the invariant if the run does.
LEMMA PrivateKeepsInv ==
  ASSUME Inv, NEW r \in Runner, NEW s \in Run, Becomes(r, s),
         s.step \in Holding => s.job \in MailJob,
         s.step \in Attempting => s.attempt \in Attempt,
         UNCHANGED <<ws, job, delivery, mails>>,
         DOMAIN receipt' = Attempt,
         \A a \in Attempt : receipt'[a].job \in MailJob \cup {NoJob},
         cursor'.attempt \in Attempt \cup {NoAttempt},
         RunInv(r)'
  PROVE  Inv'
<1>1. /\ run' \in [Runner -> Run] /\ \A q \in Runner \ {r} : run'[q] = run[q]
      /\ \A q \in Runner : /\ run'[q].step \in Holding => run'[q].job \in MailJob
                           /\ run'[q].step \in Attempting => run'[q].attempt \in Attempt
  BY BecomesType DEF Inv
<1>2. Types'  BY <1>1 DEF Inv, Types
<1>3. \A j \in MailJob : JobInv(j)'  BY DEF Inv, MailInv, JobInv
<1>4. ASSUME NEW q \in Runner PROVE RunInv(q)'
  <2>1. CASE q = r  BY <2>1
  <2>2. CASE q # r
    <3>1. RunInv(q) /\ run'[q] = run[q]  BY <1>1, <2>2 DEF Inv, MailInv
    <3>. QED  BY <3>1 DEF RunInv, FingerprintOf
  <2>. QED  BY <2>1, <2>2
<1>5. ReminderInv' /\ OneReminderPerDeadline'
  BY DEF Inv, MailInv, ReminderInv, OneReminderPerDeadline
<1>. QED  BY <1>2, <1>3, <1>4, <1>5 DEF Inv, MailInv

\* The steps that ask nothing of a run's invariant.
Free == Step \ {"dispatch", "send", "accepted", "uncertain", "ack", "settle"}

\* A run between jobs holds none.
LEMMA MoveStates ==
  ASSUME Types, NEW r \in Runner, NEW a \in Attempt, NEW step \in {"claim", "replay", "finish"}
  PROVE  LET m == [Idle EXCEPT !.step = step, !.attempt = a] IN
           m \in Run /\ m.step \in Free /\ m.step \notin Holding /\ m.attempt = a
<1>. DEFINE m == [Idle EXCEPT !.step = step, !.attempt = a]
<1>1. step = "claim" \/ step = "replay" \/ step = "finish"  OBVIOUS
<1>2. step \in Step /\ step \in Free /\ step \notin Holding
  BY <1>1 DEF Free, Step, Holding
<1>3. m \in Run /\ m.step = step /\ m.attempt = a
  BY <1>2, NewBookingType, "none" \in Dispatched DEF Idle, Run, Dispatched
<1>. QED  BY <1>2, <1>3

\* A run about to take the cursor has neither attempt nor job.
LEMMA NextStates ==
  LET n == [Idle EXCEPT !.step = "cursor"] IN
    n \in Run /\ n.step \in Free /\ n.step \notin Holding /\ n.step \notin Attempting
<1>. DEFINE n == [Idle EXCEPT !.step = "cursor"]
<1>1. "cursor" \in Step /\ "cursor" \in Free /\ "cursor" \notin Holding /\ "cursor" \notin Attempting
  BY DEF Free, Step, Holding, Attempting
<1>2. n \in Run /\ n.step = "cursor"
  BY <1>1, NewBookingType, "none" \in Dispatched DEF Idle, Run, Dispatched
<1>. QED  BY <1>1, <1>2

\* A run at rest, taking its cursor, or waiting for nobody.
LEMMA RestKeepsInv ==
  ASSUME Inv, NEW r \in Runner,
         \/ Start(r) \/ TakeCursor(r) \/ NewAttempt(r) \/ NothingNew(r) \/ AwaitSender(r) \/ GiveUp(r)
         \/ DispatchConflict(r) \/ FinishCursor(r) \/ Fail(r)
  PROVE  Inv'
<1>. USE IdleType DEF Inv, Types
<1>1. ASSUME NEW s \in Run, Becomes(r, s), s.step \in Free,
             s.step \in Holding => s.job \in MailJob
      PROVE  RunInv(r)'
  <2>1. run'[r] = s  BY <1>1 DEF Becomes
  <2>. QED  BY <1>1, <2>1 DEF RunInv, Free
<1>2. Idle \in Run /\ Idle.step \in Free /\ ~(Idle.step \in Holding) /\ ~(Idle.step \in Attempting)
  BY DEF Free, Step, Holding, Attempting
<1>3. \A a \in Attempt, step \in {"claim", "replay", "finish"} :
        LET m == [Idle EXCEPT !.step = step, !.attempt = a] IN
          m \in Run /\ m.step \in Free /\ m.step \notin Holding /\ m.attempt = a
  BY MoveStates
<1>. DEFINE next == [Idle EXCEPT !.step = "cursor"]
<1>9. next \in Run /\ next.step \in Free /\ next.step \notin Holding /\ next.step \notin Attempting
  BY NextStates
<1>4. CASE TakeCursor(r)
  <2>1. cursor.attempt \in Attempt  BY <1>4 DEF TakeCursor
  <2>. DEFINE s == [Idle EXCEPT !.step = "claim", !.attempt = cursor.attempt]
  <2>2. s \in Run /\ s.step \in Free /\ s.step \notin Holding /\ s.attempt = cursor.attempt
    BY <1>3, <2>1
  <2>3. Becomes(r, s)  BY <1>4 DEF TakeCursor
  <2>. HIDE DEF s
  <2>. QED  BY <1>1, <1>4, <2>1, <2>2, <2>3, PrivateKeepsInv DEF TakeCursor, booking, queue, sending
<1>5. CASE NewAttempt(r)
  <2>1. Fresh \in Attempt  BY FreshExists
  <2>. DEFINE s == [Idle EXCEPT !.step = "claim", !.attempt = Fresh]
  <2>2. s \in Run /\ s.step \in Free /\ s.step \notin Holding /\ s.attempt = Fresh
    BY <1>3, <2>1
  <2>3. Becomes(r, s)  BY <1>5 DEF NewAttempt
  <2>4. DOMAIN receipt' = Attempt /\ \A a \in Attempt : receipt'[a].job \in MailJob \cup {NoJob}
    BY <1>5, <2>1 DEF NewAttempt, NoReceipt
  <2>5. cursor'.attempt \in Attempt  BY <1>5, <2>1 DEF NewAttempt
  <2>. HIDE DEF s
  <2>. QED  BY <1>1, <1>5, <2>1, <2>2, <2>3, <2>4, <2>5, PrivateKeepsInv
            DEF NewAttempt, booking, sending
<1>6. CASE NothingNew(r) \/ AwaitSender(r) \/ DispatchConflict(r) \/ Fail(r)
  BY <1>1, <1>2, <1>6, PrivateKeepsInv
     DEF NothingNew, AwaitSender, DispatchConflict, Fail, Rests, booking, queue, sending
<1>7. CASE GiveUp(r)
  <2>1. run[r].attempt \in Attempt  BY <1>7 DEF GiveUp, At, Holding, Attempting
  <2>. DEFINE s == [Idle EXCEPT !.step = "finish", !.attempt = run[r].attempt]
  <2>2. s \in Run /\ s.step \in Free /\ s.step \notin Holding /\ s.attempt = run[r].attempt
    BY <1>3, <2>1
  <2>3. Becomes(r, s)  BY <1>7 DEF GiveUp, Moves
  <2>. HIDE DEF s
  <2>. QED  BY <1>1, <1>7, <2>1, <2>2, <2>3, PrivateKeepsInv DEF GiveUp, booking, queue, sending
<1>8. CASE FinishCursor(r)
  <2>1. cursor'.attempt \in Attempt \cup {NoAttempt}  BY <1>8 DEF FinishCursor
  <2>2. PICK s \in {Idle, next} : Becomes(r, s)  BY <1>8 DEF FinishCursor, Continues, Rests
  <2>3. s \in Run /\ s.step \in Free /\ s.step \notin Holding /\ s.step \notin Attempting
    BY <1>2, <1>9
  <2>. QED  BY <1>1, <1>8, <2>1, <2>2, <2>3, PrivateKeepsInv
            DEF FinishCursor, booking, queue, sending
<1>10. CASE Start(r)
  <2>1. Becomes(r, next)  BY <1>10 DEF Start
  <2>. HIDE DEF next
  <2>. QED  BY <1>1, <1>9, <1>10, <2>1, PrivateKeepsInv DEF Start, booking, queue, sending
<1>. QED  BY <1>4, <1>5, <1>6, <1>7, <1>8, <1>10

-----------------------------------------------------------------------------
(* What a step of a run may do to a dispatch record, a mail count and a job.    *)

\* Run r writes the record of job j, gives another's up, answers its own, or settles it.
DeliveryStep(j, r) ==
  LET d == delivery[j]
      e == delivery'[j]
  IN \/ e = d
     \/ d.state = "none" /\ job[j].state = "sending" /\ e.state = "sending" /\ e.by = r
     \/ d.state = "sending" /\ e.state = "unknown" /\ e.by = d.by
     \/ d.state = "sending" /\ d.by = r /\ e.state = "accepted" /\ e.by = r /\ mails[j] = 1
     \/ d.state = "accepted" /\ e.state = "sent" /\ e.by = d.by

\* Only the run that owns the record of an unmailed job mails it.
MailStep(j, r) ==
  \/ mails'[j] = mails[j]
  \/ /\ mails[j] = 0 /\ mails'[j] = 1
     /\ delivery[j].state \in {"sending", "unknown"} /\ delivery[j].by = r

\* A job is claimed, denied, given up, or takes the verdict of its dispatch record.
JobStep(j) ==
  LET s == job[j].state
      t == job'[j].state
  IN /\ job'[j].print = job[j].print
     /\ \/ /\ job'[j].ack = job[j].ack
           /\ \/ t = s
              \/ s = "queued" /\ t \in {"sending", "failed"}
              \/ s = "sending" /\ t = "unknown"
        \/ /\ j \in MailJob /\ s \in {"sending", "unknown"}
           /\ delivery[j].state \in {"accepted", "sent"}
           /\ t = "sent" /\ job'[j].ack = "sent"
        \/ /\ j \in MailJob /\ s \in {"sending", "unknown"}
           /\ delivery[j].state = "unknown"
           /\ t = "unknown" /\ job'[j].ack = "unknown"

Allowed(r) ==
  \/ (\A j \in MailJob : DeliveryStep(j, r)) /\ UNCHANGED <<job, mails>>
  \/ (\A j \in MailJob : MailStep(j, r)) /\ UNCHANGED <<job, delivery>>
  \/ (\A j \in JobId : JobStep(j)) /\ UNCHANGED <<delivery, mails>>

\* Such a step keeps every job's agreement.
LEMMA AllowedKeepsJobs ==
  ASSUME Inv, NEW r \in Runner, Allowed(r), NEW j \in MailJob
  PROVE  JobInv(j)'
<1>1. JobInv(j) /\ j \in JobId  BY NoJobIsNone DEF Inv, MailInv
<1>2. mails[j] \in Nat  BY DEF Inv, Types
<1>3. CASE DeliveryStep(j, r) /\ UNCHANGED <<job, mails>>
  BY <1>1, <1>2, <1>3 DEF DeliveryStep, JobInv
<1>4. CASE MailStep(j, r) /\ UNCHANGED <<job, delivery>>
  BY <1>1, <1>2, <1>4 DEF MailStep, JobInv
<1>5. CASE JobStep(j) /\ UNCHANGED <<delivery, mails>>
  BY <1>1, <1>2, <1>5 DEF JobStep, JobInv
<1>. QED  BY <1>1, <1>3, <1>4, <1>5 DEF Allowed

\* Such a step of one run keeps the others.
LEMMA AllowedKeepsOthers ==
  ASSUME Inv, NEW r \in Runner, Allowed(r), NEW q \in Runner, q # r, run'[q] = run[q]
  PROVE  RunInv(q)'
<1>. DEFINE j == run[q].job
<1>1. RunInv(q) /\ (run[q].step \in Holding => j \in MailJob)  BY DEF Inv, Types, MailInv
<1>2. CASE run[q].step \notin Holding
  BY <1>2 DEF RunInv, Holding
<1>3. CASE run[q].step \in Holding
  <2>1. j \in MailJob /\ j \in JobId  BY <1>1, <1>3, NoJobIsNone
  <2>2. CASE DeliveryStep(j, r) /\ UNCHANGED <<job, mails>>
    BY <1>1, <2>2 DEF DeliveryStep, RunInv, FingerprintOf
  <2>3. CASE MailStep(j, r) /\ UNCHANGED <<job, delivery>>
    BY <1>1, <2>3 DEF MailStep, RunInv, FingerprintOf
  <2>4. CASE JobStep(j) /\ UNCHANGED <<delivery, mails>>
    BY <1>1, <2>4 DEF JobStep, RunInv, FingerprintOf
  <2>. QED  BY <2>1, <2>2, <2>3, <2>4 DEF Allowed
<1>. QED  BY <1>2, <1>3

\* No such step plans a reminder.
LEMMA AllowedKeepsReminders ==
  ASSUME Inv, NEW r \in Runner, Allowed(r), ws' = ws
  PROVE  ReminderInv' /\ OneReminderPerDeadline'
<1>1. \A j \in JobId : job'[j].print = job[j].print /\ (job'[j].state # "none" => job[j].state # "none")
  <2>1. CASE \A j \in JobId : JobStep(j)  BY <2>1 DEF JobStep
  <2>. QED  BY <2>1 DEF Allowed
<1>2. ReminderInv'  BY <1>1 DEF Inv, MailInv, ReminderInv
<1>3. OneReminderPerDeadline'  BY <1>1 DEF Inv, MailInv, OneReminderPerDeadline
<1>. QED  BY <1>2, <1>3

\* Together: an allowed step that is well-typed and leaves its own run in order keeps all.
LEMMA AllowedKeepsInv ==
  ASSUME Inv, NEW r \in Runner, NEW s \in Run, Becomes(r, s), Allowed(r),
         s.step \in Holding => s.job \in MailJob,
         s.step \in Attempting => s.attempt \in Attempt,
         ws' = ws, cursor' = cursor,
         DOMAIN receipt' = Attempt,
         \A a \in Attempt : receipt'[a].job \in MailJob \cup {NoJob},
         job' \in [JobId -> Job], delivery' \in [MailJob -> Delivery], mails' \in [MailJob -> Nat],
         RunInv(r)'
  PROVE  Inv'
<1>1. /\ run' \in [Runner -> Run] /\ \A q \in Runner \ {r} : run'[q] = run[q]
      /\ \A q \in Runner : /\ run'[q].step \in Holding => run'[q].job \in MailJob
                           /\ run'[q].step \in Attempting => run'[q].attempt \in Attempt
  BY BecomesType DEF Inv
<1>2. Types'  BY <1>1 DEF Inv, Types
<1>3. \A j \in MailJob : JobInv(j)'  BY AllowedKeepsJobs
<1>4. \A q \in Runner : RunInv(q)'  BY <1>1, AllowedKeepsOthers
<1>5. ReminderInv' /\ OneReminderPerDeadline'  BY AllowedKeepsReminders
<1>. QED  BY <1>2, <1>3, <1>4, <1>5 DEF Inv, MailInv

-----------------------------------------------------------------------------
(* One lemma per step.                                                          *)

\* What a run with a job in hand holds, and what it keeps when it goes on.
LEMMA InHand ==
  ASSUME Inv, NEW r \in Runner, run[r].step \in Holding
  PROVE  /\ run[r].job \in MailJob /\ run[r].job \in JobId /\ run[r].attempt \in Attempt
         /\ run[r].mine \in Dispatched /\ run[r].seen \in Workspace
         /\ delivery[run[r].job] \in Delivery /\ mails[run[r].job] \in Nat
         /\ job[run[r].job] \in Job
         /\ JobInv(run[r].job) /\ RunInv(r)
BY NoJobIsNone DEF Inv, Types, MailInv, Run, Attempting

\* A claim passes the jobs of its scan and picks one.
LEMMA ClaimJobs ==
  ASSUME Inv, NEW r \in Runner, MakeClaim(r)
  PROVE  job' \in [JobId -> Job] /\ \A j \in JobId : JobStep(j)
<1>. DEFINE c == Scanned
<1>1. job' = [j \in JobId |->
                IF j \in c.timedOut THEN [job[j] EXCEPT !.state = "unknown"]
                ELSE IF j \in c.denied THEN [job[j] EXCEPT !.state = "failed"]
                ELSE IF j = c.pick THEN [job[j] EXCEPT !.state = "sending"]
                ELSE job[j]]
  BY DEF MakeClaim
<1>2. /\ \A j \in c.timedOut : job[j].state = "sending"
      /\ \A j \in c.denied : job[j].state = "queued"
      /\ c.pick = NoJob \/ (c.pick \in MailJob /\ job[c.pick].state = "queued")
  BY ScanFacts
<1>. HIDE DEF c
<1>3. ASSUME NEW j \in JobId PROVE job'[j] \in Job /\ JobStep(j)
  <2>1. job[j] \in Job  BY DEF Inv, Types
  <2>2. {"unknown", "failed", "sending"} \subseteq JobState  BY DEF JobState
  <2>3. CASE j \in c.timedOut  BY <1>1, <1>2, <2>1, <2>2, <2>3 DEF Job, JobStep
  <2>4. CASE j \notin c.timedOut /\ j \in c.denied  BY <1>1, <1>2, <2>1, <2>2, <2>4 DEF Job, JobStep
  <2>5. CASE j \notin c.timedOut /\ j \notin c.denied /\ j = c.pick
    <3>1. job[j].state = "queued"  BY <1>2, <2>5, NoJobIsNone
    <3>. QED  BY <1>1, <3>1, <2>1, <2>2, <2>5 DEF Job, JobStep
  <2>6. CASE j \notin c.timedOut /\ j \notin c.denied /\ j # c.pick
    BY <1>1, <2>1, <2>6 DEF JobStep
  <2>. QED  BY <2>3, <2>4, <2>5, <2>6
<1>. QED  BY <1>1, <1>3

\* What it writes to the outbox and its receipt keeps the invariant.
LEMMA MakeClaimKeepsInv ==
  ASSUME Inv, NEW r \in Runner, MakeClaim(r)
  PROVE  Inv'
<1>. DEFINE c == Scanned
            a == run[r].attempt
            s == [Idle EXCEPT !.step = "replay", !.attempt = a]
<1>1. a \in Attempt  BY DEF MakeClaim, At, Inv, Types, Attempting
<1>2. s \in Run /\ s.step \in Free /\ s.step \notin Holding /\ s.attempt = a
  BY <1>1, MoveStates DEF Inv
<1>3. Becomes(r, s)  BY DEF MakeClaim, Moves
<1>4. /\ \E e : receipt' = [receipt EXCEPT ![a] = [made |-> TRUE, job |-> c.pick, empty |-> e]]
      /\ UNCHANGED <<ws, cursor, delivery, mails>>
  BY DEF MakeClaim, booking, sending
<1>5. c.pick \in MailJob \cup {NoJob}  BY ScanFacts
<1>. HIDE DEF c, s
<1>6. DOMAIN receipt' = Attempt /\ \A b \in Attempt : receipt'[b].job \in MailJob \cup {NoJob}
  BY <1>1, <1>4, <1>5 DEF Inv, Types
<1>7. job' \in [JobId -> Job] /\ Allowed(r)  BY <1>4, ClaimJobs DEF Allowed
<1>8. RunInv(r)'
  <2>1. run'[r] = s  BY <1>3 DEF Becomes, Inv, Types
  <2>. QED  BY <1>2, <2>1 DEF RunInv, Free
<1>. QED  BY <1>1, <1>2, <1>3, <1>4, <1>6, <1>7, <1>8, AllowedKeepsInv DEF Inv, Types

\* A replay gives the attempt's job up if the claim ran out.
LEMMA ReplayJobs ==
  ASSUME Inv, NEW r \in Runner, Replay(r)
  PROVE  job' \in [JobId -> Job] /\ \A j \in JobId : JobStep(j)
<1>. DEFINE j == receipt[run[r].attempt].job
<1>1. run[r].attempt \in Attempt  BY DEF Replay, At, Inv, Types, Attempting
<1>2. j \in MailJob \cup {NoJob}  BY <1>1 DEF Inv, Types
<1>3. \A i \in JobId : job[i] \in Job  BY DEF Inv, Types
<1>4. CASE job' = job  BY <1>3, <1>4 DEF JobStep, Inv, Types
<1>5. CASE j # NoJob /\ job[j].state = "sending" /\ job' = [job EXCEPT ![j].state = "unknown"]
  <2>1. j \in JobId  BY <1>2, <1>5, NoJobIsNone
  <2>2. "unknown" \in JobState  BY DEF JobState
  <2>3. ASSUME NEW i \in JobId, i = j PROVE job'[i] \in Job /\ JobStep(i)
    <3>1. job'[i] = [job[i] EXCEPT !.state = "unknown"]  BY <1>5, <2>3 DEF Inv, Types
    <3>2. job[i].state = "sending" /\ job[i] \in Job  BY <1>3, <1>5, <2>3
    <3>3. /\ job'[i] \in Job /\ job'[i].state = "unknown"
          /\ job'[i].print = job[i].print /\ job'[i].ack = job[i].ack
      BY <2>2, <3>1, <3>2 DEF Job
    <3>. QED  BY <3>2, <3>3 DEF JobStep
  <2>4. ASSUME NEW i \in JobId, i # j PROVE job'[i] \in Job /\ JobStep(i)
    <3>1. job'[i] = job[i]  BY <1>5, <2>4 DEF Inv, Types
    <3>. QED  BY <1>3, <3>1 DEF JobStep
  <2>5. job' \in [JobId -> Job]  BY <1>5, <2>3, <2>4 DEF Inv, Types
  <2>. QED  BY <2>3, <2>4, <2>5
<1>. QED  BY <1>4, <1>5 DEF Replay

\* The run that replays has the attempt's job in hand.
LEMMA ReplayKeepsInv ==
  ASSUME Inv, NEW r \in Runner, Replay(r)
  PROVE  Inv'
<1>. DEFINE a == run[r].attempt
            j == receipt[a].job
<1>1. a \in Attempt  BY DEF Replay, At, Inv, Types, Attempting
<1>2. j \in MailJob \cup {NoJob}  BY <1>1 DEF Inv, Types
<1>3. UNCHANGED <<ws, index, scan, receipt, cursor, delivery, mails>>  BY DEF Replay, booking, sending
<1>4. CASE j = NoJob
  <2>. DEFINE s == [Idle EXCEPT !.step = "finish", !.attempt = a]
  <2>1. s \in Run /\ s.step \in Free /\ s.step \notin Holding /\ s.attempt = a
    BY <1>1, MoveStates DEF Inv
  <2>2. Becomes(r, s) /\ job' = job  BY <1>4 DEF Replay, Moves
  <2>. HIDE DEF s
  <2>3. run'[r] = s  BY <2>2 DEF Becomes, Inv, Types
  <2>4. RunInv(r)'  BY <2>1, <2>3 DEF RunInv, Free
  <2>. QED  BY <1>1, <1>3, <2>1, <2>2, <2>4, PrivateKeepsInv DEF Inv, Types
<1>5. CASE j # NoJob
  <2>1. j \in MailJob /\ j \in JobId /\ job[j] \in Job
    BY <1>2, <1>5, NoJobIsNone DEF Inv, Types
  <2>5. job' \in [JobId -> Job] /\ Allowed(r)  BY <1>3, ReplayJobs DEF Allowed
  <2>6. PICK b \in BOOLEAN : Becomes(r, Handed(r, j, b))
    <3>1. Becomes(r, Handed(r, j, job'[j].state = "sending"))  BY <1>5 DEF Replay
    <3>2. (job'[j].state = "sending") \in BOOLEAN  OBVIOUS
    <3>. QED  BY <3>1, <3>2
  <2>. DEFINE s == Handed(r, j, b)
  <2>8. s \in Run /\ s.step = "process" /\ s.job = j /\ s.attempt = a
    BY <2>1, HandedType DEF Inv
  <2>. HIDE DEF s
  <2>9. run'[r] = s  BY <2>6 DEF Becomes, Inv, Types, s
  <2>10. RunInv(r)'  BY <2>8, <2>9 DEF RunInv
  <2>. QED  BY <1>1, <1>3, <2>1, <2>5, <2>6, <2>8, <2>10, AllowedKeepsInv DEF Inv, Types, s
<1>. QED  BY <1>4, <1>5

\* Reading a settled record, or reading what is to be dispatched, writes nothing.
LEMMA ReadingKeepsInv ==
  ASSUME Inv, NEW r \in Runner, ResumeAck(r) \/ PlanDispatch(r)
  PROVE  Inv'
<1>. DEFINE j == run[r].job
            d == delivery[j].state
<1>1. run[r].step \in Holding  BY DEF ResumeAck, PlanDispatch, At, Holding
<1>2. j \in MailJob /\ run[r].attempt \in Attempt /\ delivery[j] \in Delivery  BY <1>1, InHand
<1>3. UNCHANGED <<ws, job, receipt, cursor, delivery, mails>>
  BY DEF ResumeAck, PlanDispatch, booking, queue, sending
<1>4. CASE ResumeAck(r)
  <2>. DEFINE s == [Keeping(r, "ack") EXCEPT !.mine = d]
  <2>1. d \in Dispatched /\ "ack" \in Step  BY <1>2 DEF Delivery, Step
  <2>2. s \in Run /\ s.step = "ack" /\ s.job = j /\ s.attempt = run[r].attempt /\ s.mine = d
    BY <2>1, MineType DEF Inv
  <2>3. Becomes(r, s) /\ d \in {"accepted", "sent", "unknown"}  BY <1>4 DEF ResumeAck
  <2>. HIDE DEF s
  <2>4. run'[r] = s  BY <2>3 DEF Becomes, Inv, Types
  <2>5. RunInv(r)'  BY <1>3, <2>2, <2>3, <2>4 DEF RunInv
  <2>. QED  BY <1>2, <1>3, <2>2, <2>3, <2>5, PrivateKeepsInv DEF Inv, Types
<1>5. CASE PlanDispatch(r) /\ Rests(r)
  <2>1. Idle \in Run /\ Idle.step = "idle"  BY IdleType
  <2>2. run'[r] = Idle  BY <1>5 DEF Rests, Becomes, Inv, Types
  <2>3. RunInv(r)'  BY <2>1, <2>2 DEF RunInv
  <2>. QED  BY <1>3, <1>5, <2>1, <2>3, PrivateKeepsInv DEF Rests, Inv, Types, Holding, Attempting
<1>6. CASE PlanDispatch(r) /\ ~Rests(r)
  <2>. DEFINE s == [Keeping(r, "dispatch") EXCEPT !.seen = ws]
  <2>1. Becomes(r, s) /\ job[j].state = "sending" /\ DeliveryGuard(ws, late, j)
    BY <1>6 DEF PlanDispatch
  <2>2. "dispatch" \in Step /\ ws \in Workspace  BY DEF Step, Inv, Types
  <2>3. s \in Run /\ s.step = "dispatch" /\ s.job = j /\ s.attempt = run[r].attempt /\ s.seen = ws
    BY <2>2, SeenType DEF Inv
  <2>. HIDE DEF s
  <2>4. run'[r] = s  BY <2>1 DEF Becomes, Inv, Types
  <2>5. ws.owner /\ job[j].print = FingerprintOf(ws)  BY <2>1 DEF DeliveryGuard
  <2>6. RunInv(r)'  BY <1>3, <2>1, <2>3, <2>4, <2>5 DEF RunInv, FingerprintOf
  <2>. QED  BY <1>2, <1>3, <2>1, <2>3, <2>6, PrivateKeepsInv DEF Inv, Types
<1>. QED  BY <1>4, <1>5, <1>6

\* A record that takes a new state keeps its writer, and the other records stay.
LEMMA RecordFacts ==
  ASSUME Inv, NEW j \in MailJob, NEW x \in Dispatched,
         delivery' = [delivery EXCEPT ![j].state = x]
  PROVE  /\ delivery' \in [MailJob -> Delivery]
         /\ delivery'[j].state = x /\ delivery'[j].by = delivery[j].by
         /\ \A i \in MailJob \ {j} : delivery'[i] = delivery[i]
<1>1. delivery \in [MailJob -> Delivery]  BY DEF Inv, Types
<1>2. delivery'[j] = [delivery[j] EXCEPT !.state = x]  BY <1>1
<1>3. delivery'[j] \in Delivery /\ delivery'[j].state = x /\ delivery'[j].by = delivery[j].by
  BY <1>1, <1>2 DEF Delivery
<1>4. \A i \in MailJob \ {j} : delivery'[i] = delivery[i]  BY <1>1
<1>. QED  BY <1>1, <1>3, <1>4

\* A dispatch that nobody answered for is given up, and a run's answer replaces its own.
LEMMA AnswerKeepsInv ==
  ASSUME Inv, NEW r \in Runner, Interrupted(r) \/ Accepted(r) \/ Uncertain(r)
  PROVE  Inv'
<1>. DEFINE j == run[r].job
<1>1. run[r].step \in {"process", "accepted", "uncertain"} /\ run[r].step \in Holding
  BY DEF Interrupted, Accepted, Uncertain, RecordAnswer, At, Holding
<1>2. /\ j \in MailJob /\ run[r].attempt \in Attempt /\ delivery[j] \in Delivery
      /\ mails[j] \in Nat /\ RunInv(r)
  BY <1>1, InHand
<1>3. UNCHANGED <<ws, job, receipt, cursor, mails>>
  BY DEF Interrupted, Accepted, Uncertain, RecordAnswer, booking, queue
<1>4. ASSUME NEW x \in Dispatched,
             delivery' = [delivery EXCEPT ![j].state = x],
             Becomes(r, [Keeping(r, "ack") EXCEPT !.mine = x]),
             delivery[j].state = "sending",
             \/ x = "unknown"
             \/ x = "accepted" /\ delivery[j].by = r /\ mails[j] = 1
      PROVE  Inv'
  <2>. DEFINE s == [Keeping(r, "ack") EXCEPT !.mine = x]
  <2>1. "ack" \in Step  BY DEF Step
  <2>2. s \in Run /\ s.step = "ack" /\ s.job = j /\ s.attempt = run[r].attempt /\ s.mine = x
    BY <2>1, MineType DEF Inv
  <2>3. Becomes(r, s)  BY <1>4
  <2>. HIDE DEF s
  <2>4. run'[r] = s  BY <2>3 DEF Becomes, Inv, Types
  <2>5. /\ delivery' \in [MailJob -> Delivery]
        /\ delivery'[j].state = x /\ delivery'[j].by = delivery[j].by
        /\ \A i \in MailJob \ {j} : delivery'[i] = delivery[i]
    BY <1>2, <1>4, RecordFacts
  <2>6. \A i \in MailJob : DeliveryStep(i, r)  BY <1>4, <2>5 DEF DeliveryStep
  <2>7. Allowed(r)  BY <1>3, <2>6 DEF Allowed
  <2>8. RunInv(r)'  BY <1>4, <2>2, <2>4, <2>5 DEF RunInv
  <2>. QED  BY <1>2, <1>3, <2>2, <2>3, <2>5, <2>7, <2>8, AllowedKeepsInv DEF Inv, Types
<1>5. CASE Interrupted(r)
  BY <1>4, <1>5 DEF Interrupted, Dispatched
<1>6. CASE (Accepted(r) \/ Uncertain(r)) /\ Own(r)
  <2>1. delivery[j].state = "sending" /\ delivery[j].by = r  BY <1>6 DEF Own
  <2>2. CASE Accepted(r)
    <3>1. mails[j] = 1  BY <1>2, <2>2 DEF Accepted, RecordAnswer, At, RunInv
    <3>. QED  BY <1>4, <1>6, <2>1, <2>2, <3>1 DEF Accepted, RecordAnswer, Dispatched
  <2>3. CASE Uncertain(r)
    BY <1>4, <1>6, <2>1, <2>3 DEF Uncertain, RecordAnswer, Dispatched
  <2>. QED  BY <1>6, <2>2, <2>3
<1>7. CASE (Accepted(r) \/ Uncertain(r)) /\ ~Own(r)
  <2>1. Idle \in Run /\ Idle.step = "idle"  BY IdleType
  <2>2. Becomes(r, Idle) /\ delivery' = delivery
    BY <1>7 DEF Accepted, Uncertain, RecordAnswer, Rests
  <2>3. run'[r] = Idle  BY <2>2 DEF Becomes, Inv, Types
  <2>4. RunInv(r)'  BY <2>1, <2>3 DEF RunInv
  <2>. QED  BY <1>3, <2>1, <2>2, <2>4, PrivateKeepsInv DEF Inv, Types, Holding, Attempting
<1>. QED  BY <1>5, <1>6, <1>7

\* A run records its dispatch where no run has.
LEMMA DispatchKeepsInv ==
  ASSUME Inv, NEW r \in Runner, Dispatch(r)
  PROVE  Inv'
<1>. DEFINE j == run[r].job
            s == Keeping(r, "send")
            e == [state |-> "sending", by |-> r]
<1>1. run[r].step \in Holding  BY DEF Dispatch, At, Holding
<1>2. j \in MailJob /\ run[r].attempt \in Attempt /\ JobInv(j)  BY <1>1, InHand
<1>3. /\ UNCHANGED <<ws, job, receipt, cursor, mails>> /\ Becomes(r, s)
      /\ delivery' = [delivery EXCEPT ![j] = e]
      /\ delivery[j].state = "none" /\ job[j].state = "sending"
  BY DEF Dispatch, DispatchStands, Goes, booking, queue
<1>4. s \in Run /\ s.step = "send" /\ s.job = j /\ s.attempt = run[r].attempt
  BY KeepingType, "send" \in Step DEF Inv, Step
<1>. HIDE DEF s
<1>5. e \in Delivery  BY DEF Delivery, Dispatched
<1>6. /\ delivery' \in [MailJob -> Delivery] /\ delivery'[j] = e
      /\ \A i \in MailJob \ {j} : delivery'[i] = delivery[i]
  BY <1>2, <1>3, <1>5 DEF Inv, Types
<1>7. \A i \in MailJob : DeliveryStep(i, r)  BY <1>3, <1>6 DEF DeliveryStep
<1>8. Allowed(r)  BY <1>3, <1>7 DEF Allowed
<1>9. run'[r] = s  BY <1>3 DEF Becomes, Inv, Types
<1>10. RunInv(r)'
  <2>1. mails'[j] = 0  BY <1>2, <1>3 DEF JobInv
  <2>. QED  BY <1>4, <1>6, <1>9, <2>1 DEF RunInv
<1>. QED  BY <1>2, <1>3, <1>4, <1>6, <1>8, <1>10, AllowedKeepsInv DEF Inv, Types

\* The provider takes the mail or not, and the run knows it took it or does not.
LEMMA SendKeepsInv ==
  ASSUME Inv, NEW r \in Runner, NEW took \in BOOLEAN, NEW told \in BOOLEAN, Send(r, took, told)
  PROVE  Inv'
<1>. DEFINE j == run[r].job
            n == IF took THEN mails[j] + 1 ELSE mails[j]
<1>1. run[r].step \in Holding /\ run[r].step = "send"  BY DEF Send, At, Holding
<1>2. /\ j \in MailJob /\ run[r].attempt \in Attempt /\ mails[j] \in Nat
      /\ RunInv(r)
  BY <1>1, InHand
<1>3. PICK step \in {"accepted", "uncertain"} :
        Becomes(r, Keeping(r, step)) /\ (step = "accepted" => took)
  BY DEF Send, Goes
<1>4. /\ UNCHANGED <<ws, job, receipt, cursor, delivery>>
      /\ mails' = [mails EXCEPT ![j] = n]
  BY DEF Send, booking, queue
<1>5. mails[j] = 0 /\ delivery[j].state \in {"sending", "unknown"} /\ delivery[j].by = r
  BY <1>1, <1>2 DEF RunInv
<1>6. mails' \in [MailJob -> Nat] /\ mails'[j] = n /\ \A i \in MailJob \ {j} : mails'[i] = mails[i]
  BY <1>2, <1>4 DEF Inv, Types
<1>7. n = IF took THEN 1 ELSE 0  BY <1>5
<1>8. \A i \in MailJob : MailStep(i, r)  BY <1>5, <1>6, <1>7 DEF MailStep
<1>9. Allowed(r)  BY <1>4, <1>8 DEF Allowed
<1>. DEFINE s == Keeping(r, step)
<1>10. step \in Step  BY DEF Step
<1>11. s \in Run /\ s.step = step /\ s.job = j /\ s.attempt = run[r].attempt
  BY <1>10, KeepingType DEF Inv
<1>. HIDE DEF s
<1>12. run'[r] = s  BY <1>3 DEF Becomes, Inv, Types, s
<1>13. RunInv(r)'
  BY <1>3, <1>4, <1>5, <1>6, <1>7, <1>11, <1>12 DEF RunInv
<1>. QED  BY <1>2, <1>3, <1>4, <1>6, <1>9, <1>11, <1>13, AllowedKeepsInv DEF Inv, Types, s

\* The outbox takes the verdict of the record, unless it was taken before.
LEMMA AcknowledgeJobs ==
  ASSUME Inv, NEW r \in Runner, Acknowledge(r)
  PROVE  job' \in [JobId -> Job] /\ \A i \in JobId : JobStep(i)
<1>. DEFINE j == run[r].job
            v == Verdict(r)
            first == job[j].ack = "none" /\ job[j].state \in {"sending", "unknown"}
<1>1. run[r].step \in Holding /\ run[r].step = "ack"  BY DEF Acknowledge, At, Holding
<1>2. /\ j \in MailJob /\ j \in JobId /\ job[j] \in Job
      /\ RunInv(r)
  BY <1>1, InHand
<1>4. \/ v = "sent" /\ delivery[j].state \in {"accepted", "sent"}
      \/ v = "unknown" /\ delivery[j].state = "unknown"
  BY <1>1, <1>2 DEF RunInv, Verdict, WantsSent
<1>5. \/ job' = job
      \/ first /\ job' = [job EXCEPT ![j].state = v, ![j].ack = v]
  BY DEF Acknowledge
<1>6. \A i \in JobId : job'[i] \in Job /\ JobStep(i)
  <2>1. \A i \in JobId : job[i] \in Job  BY DEF Inv, Types
  <2>2. CASE job' = job  BY <2>1, <2>2 DEF JobStep
  <2>3. CASE first /\ job' = [job EXCEPT ![j].state = v, ![j].ack = v]
    <3>. DEFINE k == [job EXCEPT ![j].state = v]
    <3>1. k \in [JobId -> Job] /\ k[j].state = v /\ k[j].print = job[j].print
          /\ k[j].ack = job[j].ack /\ \A i \in JobId \ {j} : k[i] = job[i]
      <4>1. v \in JobState  BY <1>4 DEF JobState
      <4>2. job \in [JobId -> Job]  BY DEF Inv, Types
      <4>3. k[j] = [job[j] EXCEPT !.state = v]  BY <1>2, <4>2
      <4>4. k[j] \in Job /\ k[j].state = v /\ k[j].print = job[j].print /\ k[j].ack = job[j].ack
        BY <1>2, <4>1, <4>3 DEF Job
      <4>. QED  BY <1>2, <4>2, <4>4
    <3>2. job' = [k EXCEPT ![j].ack = v]  BY <2>3
    <3>. HIDE DEF k
    <3>3. job'[j] = [k[j] EXCEPT !.ack = v]  BY <1>2, <3>1, <3>2
    <3>4. v = "sent" \/ v = "unknown"  BY <1>4
    <3>5. /\ job'[j] \in Job /\ job'[j].state = v /\ job'[j].print = job[j].print
          /\ job'[j].ack = v
      BY <1>2, <3>1, <3>3, <3>4 DEF Job
    <3>6. JobStep(j)  BY <1>2, <1>4, <2>3, <3>5 DEF JobStep
    <3>7. \A i \in JobId \ {j} : job'[i] = job[i]  BY <3>1, <3>2
    <3>. QED  BY <2>1, <3>5, <3>6, <3>7 DEF JobStep
  <2>. QED  BY <1>5, <2>2, <2>3
<1>. QED  BY <1>5, <1>6 DEF Inv, Types

\* The run goes on to settle the record, or ends.
LEMMA AcknowledgeKeepsInv ==
  ASSUME Inv, NEW r \in Runner, Acknowledge(r)
  PROVE  Inv'
<1>. DEFINE j == run[r].job
<1>1. run[r].step \in Holding /\ run[r].step = "ack"  BY DEF Acknowledge, At, Holding
<1>2. /\ j \in MailJob /\ run[r].attempt \in Attempt /\ run[r].mine \in Dispatched /\ RunInv(r)
  BY <1>1, InHand
<1>3. UNCHANGED <<ws, scan, receipt, cursor, delivery, mails>>
  BY DEF Acknowledge, booking, sending
<1>7. job' \in [JobId -> Job]  BY AcknowledgeJobs
<1>8. Allowed(r)  BY <1>3, AcknowledgeJobs DEF Allowed
<1>9. CASE Becomes(r, Idle)
  <2>1. Idle \in Run /\ Idle.step = "idle"  BY IdleType
  <2>2. run'[r] = Idle  BY <1>9 DEF Becomes, Inv, Types
  <2>3. RunInv(r)'  BY <2>1, <2>2 DEF RunInv
  <2>. QED  BY <1>3, <1>7, <1>8, <1>9, <2>1, <2>3, AllowedKeepsInv DEF Inv, Types, Holding, Attempting
<1>10. CASE Becomes(r, [Keeping(r, "settle") EXCEPT !.mine = run[r].mine])
  <2>. DEFINE s == [Keeping(r, "settle") EXCEPT !.mine = run[r].mine]
  <2>1. "settle" \in Step  BY DEF Step
  <2>2. s \in Run /\ s.step = "settle" /\ s.job = j /\ s.attempt = run[r].attempt /\ s.mine = run[r].mine
    BY <1>2, <2>1, MineType DEF Inv
  <2>3. Becomes(r, s)  BY <1>10
  <2>. HIDE DEF s
  <2>4. run'[r] = s  BY <2>3 DEF Becomes, Inv, Types
  <2>5. RunInv(r)'  BY <1>1, <1>2, <1>3, <2>2, <2>4 DEF RunInv
  <2>. QED  BY <1>2, <1>3, <1>7, <1>8, <2>2, <2>3, <2>5, AllowedKeepsInv DEF Inv, Types
<1>. QED  BY <1>9, <1>10 DEF Acknowledge, Rests

\* The record takes the outcome the outbox has: the one it had, or sent for accepted.
LEMMA SettleKeepsInv ==
  ASSUME Inv, NEW r \in Runner, SettleDelivery(r)
  PROVE  Inv'
<1>. DEFINE j == run[r].job
            v == Verdict(r)
<1>1. run[r].step \in Holding /\ run[r].step = "settle"  BY DEF SettleDelivery, At, Holding
<1>2. /\ j \in MailJob /\ run[r].attempt \in Attempt /\ delivery[j] \in Delivery
      /\ RunInv(r)
  BY <1>1, InHand
<1>3. UNCHANGED <<ws, job, receipt, cursor, mails>>  BY DEF SettleDelivery, booking, queue
<1>4. CASE SettleDelivery(r) /\ Becomes(r, Idle) /\ delivery' = delivery
  <2>1. Idle \in Run /\ Idle.step = "idle"  BY IdleType
  <2>2. run'[r] = Idle  BY <1>4 DEF Becomes, Inv, Types
  <2>3. RunInv(r)'  BY <2>1, <2>2 DEF RunInv
  <2>. QED  BY <1>3, <1>4, <2>1, <2>3, PrivateKeepsInv DEF Inv, Types, Holding, Attempting
<1>5. CASE delivery' = [delivery EXCEPT ![j].state = v] /\ Moves(r, "finish")
           /\ delivery[j].state = run[r].mine
  <2>. DEFINE s == [Idle EXCEPT !.step = "finish", !.attempt = run[r].attempt]
  <2>1. s \in Run /\ s.step \in Free /\ s.step \notin Holding /\ s.attempt = run[r].attempt
    BY <1>2, MoveStates DEF Inv
  <2>2. Becomes(r, s)  BY <1>5 DEF Moves
  <2>. HIDE DEF s
  <2>3. run'[r] = s  BY <2>2 DEF Becomes, Inv, Types
  <2>4. RunInv(r)'  BY <2>1, <2>3 DEF RunInv, Free
  <2>5. \/ v = "sent" /\ delivery[j].state \in {"accepted", "sent"}
        \/ v = "unknown" /\ delivery[j].state = "unknown"
    BY <1>1, <1>2 DEF RunInv, Verdict, WantsSent
  <2>6. v \in Dispatched  BY <2>5 DEF Dispatched
  <2>. HIDE DEF v
  <2>7. /\ delivery' \in [MailJob -> Delivery]
        /\ delivery'[j].state = v /\ delivery'[j].by = delivery[j].by
        /\ \A i \in MailJob \ {j} : delivery'[i] = delivery[i]
    BY <1>2, <1>5, <2>6, RecordFacts
  <2>8. delivery'[j] = delivery[j] \/ (delivery[j].state = "accepted" /\ v = "sent")
    <3>1. CASE delivery[j].state = v
      <4>1. delivery'[j] \in Delivery  BY <1>2, <2>7
      <4>. QED  BY <1>2, <2>7, <3>1, <4>1 DEF Delivery
    <3>2. CASE delivery[j].state # v  BY <2>5, <3>2
    <3>. QED  BY <3>1, <3>2
  <2>9. \A i \in MailJob : DeliveryStep(i, r)  BY <2>7, <2>8 DEF DeliveryStep
  <2>10. Allowed(r)  BY <1>3, <2>9 DEF Allowed
  <2>. QED  BY <1>2, <1>3, <2>1, <2>2, <2>4, <2>7, <2>10, AllowedKeepsInv DEF Inv, Types
<1>. QED  BY <1>4, <1>5 DEF SettleDelivery, Rests

-----------------------------------------------------------------------------
(* The theorems.                                                                *)

\* Every step keeps the invariant.
LEMMA NextKeepsInv ==
  ASSUME Inv, Next
  PROVE  Inv'
<1>1. ASSUME NEW r \in Runner, Works(r) \/ Fail(r) PROVE Inv'
  <2>1. CASE \E took, told \in BOOLEAN : Send(r, took, told)  BY <2>1, SendKeepsInv
  <2>. QED
    BY <1>1, <2>1, RestKeepsInv, MakeClaimKeepsInv, ReplayKeepsInv, ReadingKeepsInv,
       AnswerKeepsInv, DispatchKeepsInv, AcknowledgeKeepsInv, SettleKeepsInv DEF Works
<1>. QED  BY <1>1, DecisionKeepsInv, QuietKeepsInv, ReminderKeepsInv DEF Next

\* The booking was just reserved: its first jobs are queued and nothing was sent.
LEMMA InitInv == Init => Inv
<1>. SUFFICES ASSUME Init PROVE Inv  OBVIOUS
<1>. DEFINE q == [Unwritten EXCEPT !.state = "queued", !.print = FingerprintOf(ws)]
<1>1. ws \in Workspace /\ ws.term <= ws.ver  BY NewBookingType DEF Init
<1>2. FingerprintOf(ws) \in Fingerprint  BY <1>1 DEF FingerprintOf, Fingerprint, Workspace
<1>3. "queued" \in JobState /\ Unwritten \in Job /\ Unwritten.state = "none" /\ Unwritten.ack = "none"
  BY DEF Unwritten, Job, JobState
<1>4. q \in Job /\ q.state = "queued" /\ q.ack = "none"  BY <1>2, <1>3 DEF Job, Unwritten
<1>5. job = [j \in JobId |-> IF j.event = "created" THEN q ELSE Unwritten]  BY DEF Init
<1>. HIDE DEF q
<1>6. job \in [JobId -> Job]  BY <1>3, <1>4, <1>5
<1>7. \A j \in MailJob : NoDelivery \in Delivery /\ delivery[j] = NoDelivery /\ mails[j] = 0
  BY DEF Init, Delivery, NoDelivery, Dispatched
<1>8. \A r \in Runner : run[r] = Idle  BY DEF Init
<1>9. Types
  <2>1. delivery \in [MailJob -> Delivery] /\ mails \in [MailJob -> Nat]  BY <1>7 DEF Init
  <2>2. run \in [Runner -> Run]  BY IdleType DEF Init
  <2>3. \A a \in Attempt : receipt[a].job \in MailJob \cup {NoJob}  BY DEF Init, NoReceipt
  <2>4. cursor.attempt = NoAttempt /\ DOMAIN receipt = Attempt  BY DEF Init
  <2>5. ~(Idle.step \in Holding) /\ ~(Idle.step \in Attempting)  BY IdleType DEF Holding, Attempting
  <2>. QED  BY <1>1, <1>6, <1>8, <2>1, <2>2, <2>3, <2>4, <2>5 DEF Types
<1>10. \A j \in MailJob : JobInv(j)
  <2>. SUFFICES ASSUME NEW j \in MailJob PROVE JobInv(j)  OBVIOUS
  <2>1. job[j].state \in {"queued", "none"} /\ job[j].ack = "none"
    BY <1>3, <1>4, <1>5, NoJobIsNone
  <2>. QED  BY <1>7, <2>1 DEF JobInv, NoDelivery
<1>11. \A r \in Runner : RunInv(r)  BY <1>8, IdleType DEF RunInv
<1>12. \A i \in JobId : i.event = "expired" => job[i].state = "none"  BY <1>3, <1>5
<1>. QED  BY <1>9, <1>10, <1>11, <1>12 DEF Inv, MailInv, ReminderInv, OneReminderPerDeadline

\* The invariant holds in every reachable state.
THEOREM InvAlways == Spec => []Inv
<1>1. Inv /\ [Next]_vars => Inv'
  <2>1. Inv /\ UNCHANGED vars => Inv'
    BY DEF vars, Inv, Types, MailInv, JobInv, RunInv, FingerprintOf, ReminderInv,
           OneReminderPerDeadline
  <2>. QED  BY <2>1, NextKeepsInv
<1>. QED  BY <1>1, InitInv, PTL DEF Spec

\* No job is mailed twice ("sendingLifetime" and the acknowledgement's replay of
\* website-booking/delivery.ts), whatever the runs, crashes and time-outs.
THEOREM OneMailPerJobAlways == Spec => []OneMailPerJob
<1>1. Inv => OneMailPerJob  BY DEF Inv, MailInv, JobInv, OneMailPerJob
<1>. QED  BY <1>1, InvAlways, PTL

\* The outbox says of an e-mail what happened to it.
THEOREM OutcomeIsTrueAlways == Spec => []OutcomeIsTrue
<1>1. Inv => OutcomeIsTrue
  <2>. SUFFICES ASSUME Inv, NEW j \in MailJob
                PROVE  /\ job[j].state = "sent" => mails[j] = 1
                       /\ job[j].state = "failed" => mails[j] = 0
                       /\ job[j].ack = "unknown" => delivery[j].state = "unknown"
    BY DEF OutcomeIsTrue
  <2>1. JobInv(j)  BY DEF Inv, MailInv
  <2>. QED  BY <2>1 DEF JobInv
<1>. QED  BY <1>1, InvAlways, PTL

\* A deadline of the hold is reminded of once per channel (expiredNotifiedHold of lifecycle.ts).
THEOREM OneReminderAlways == Spec => []OneReminderPerDeadline
<1>1. Inv => OneReminderPerDeadline  BY DEF Inv, MailInv
<1>. QED  BY <1>1, InvAlways, PTL

\* An e-mail is dispatched only while the booking is as it says (notificationDispatchPlan's
\* commit compares the booking it read).
THEOREM MailStaysTrue == Spec => MailStillTrue
<1>. DEFINE Fits == \A j \in MailJob :
                      delivery[j].state = "none" /\ delivery'[j].state = "sending"
                      => ws.owner /\ job[j].print = FingerprintOf(ws)
<1>1. Inv /\ [Next]_vars => [Fits]_vars
  <2>. SUFFICES ASSUME Inv, Next, NEW j \in MailJob,
                       delivery[j].state = "none", delivery'[j].state = "sending"
                PROVE  ws.owner /\ job[j].print = FingerprintOf(ws)
    OBVIOUS
  <2>1. CASE delivery' = delivery  BY <2>1
  <2>2. ASSUME NEW r \in Runner, Dispatch(r)
        PROVE  ws.owner /\ job[j].print = FingerprintOf(ws)
    <3>1. /\ run[r].step = "dispatch" /\ ws = run[r].seen
          /\ delivery' = [delivery EXCEPT ![run[r].job] = [state |-> "sending", by |-> r]]
      BY <2>2 DEF Dispatch, DispatchStands, At
    <3>2. j = run[r].job  BY <3>1 DEF Inv, Types
    <3>3. RunInv(r)  BY DEF Inv, MailInv
    <3>. QED  BY <3>1, <3>2, <3>3 DEF RunInv
  <2>3. ASSUME NEW r \in Runner, Interrupted(r) \/ Accepted(r) \/ Uncertain(r) \/ SettleDelivery(r)
        PROVE  FALSE
    <3>1. run[r].job \in MailJob /\ RunInv(r)
      BY <2>3, InHand DEF Interrupted, Accepted, Uncertain, RecordAnswer, SettleDelivery, At, Holding
    <3>2. CASE delivery' = delivery  BY <3>2
    <3>3. CASE Interrupted(r) \/ ((Accepted(r) \/ Uncertain(r)) /\ Own(r))
      <4>1. PICK x \in {"unknown", "accepted"} :
              delivery' = [delivery EXCEPT ![run[r].job].state = x]
        BY <3>3 DEF Interrupted, Accepted, Uncertain, RecordAnswer
      <4>2. x \in Dispatched /\ x # "sending"  BY DEF Dispatched
      <4>. QED  BY <3>1, <4>1, <4>2, RecordFacts
    <3>4. CASE delivery' = [delivery EXCEPT ![run[r].job].state = Verdict(r)]
      <4>1. Verdict(r) \in Dispatched /\ Verdict(r) # "sending"  BY DEF Verdict, Dispatched
      <4>. QED  BY <3>1, <3>4, <4>1, RecordFacts
    <3>5. CASE Accepted(r) \/ Uncertain(r)
      <4>1. Own(r) \/ delivery' = delivery  BY <3>5 DEF Accepted, Uncertain, RecordAnswer
      <4>. QED  BY <3>2, <3>3, <3>5, <4>1
    <3>6. CASE SettleDelivery(r)  BY <3>2, <3>4, <3>6 DEF SettleDelivery
    <3>. QED  BY <2>3, <3>3, <3>5, <3>6
  <2>4. ASSUME NEW r \in Runner, Works(r) \/ Fail(r), delivery' # delivery
        PROVE  Dispatch(r) \/ Interrupted(r) \/ Accepted(r) \/ Uncertain(r) \/ SettleDelivery(r)
    <3>1. ~(\E took, told \in BOOLEAN : Send(r, took, told))  BY <2>4 DEF Send
    <3>. QED
      BY <2>4, <3>1 DEF Works, Fail, Start, TakeCursor, NewAttempt, NothingNew, MakeClaim, Replay,
                  AwaitSender, ResumeAck, GiveUp, PlanDispatch, DispatchConflict, Acknowledge, FinishCursor, sending
  <2>5. (\E r \in Runner : Works(r) \/ Fail(r)) \/ delivery' = delivery
    BY DEF Next, Extend, Convert, Release, Decide, Revise, Revoke, DeadlinePasses, EnqueueExpired,
           TimePasses, ClaimAges, DispatchAges, sending
  <2>. QED  BY <2>1, <2>2, <2>3, <2>4, <2>5
<1>2. MailStillTrue <=> [][Fits]_vars  BY PTL DEF MailStillTrue
<1>. QED  BY <1>1, <1>2, InvAlways, PTL DEF Spec

-----------------------------------------------------------------------------
(* What Keep keeps.  It is defined by recursion over the queue; what is said of *)
(* it is shown of the shortest beginning of the queue it could be wrong of.     *)

\* A set of natural numbers has a least one.
LEMMA LeastNumber ==
  ASSUME NEW N, N \subseteq Nat, N # {}
  PROVE  \E n \in N : \A m \in N : n <= m
<1>. DEFINE R == OpToRel(<, Nat)
<1>1. IsWellFoundedOn(R, Nat)  BY NatLessThanWellFounded
<1>2. \A n, m \in Nat : m < n => <<m, n>> \in R  BY DEF OpToRel
<1>. HIDE DEF R
<1>3. PICK n \in N : \A m \in N : ~(<<m, n>> \in R)  BY <1>1, WFMin
<1>4. ASSUME NEW m \in N  PROVE n <= m
  <2>1. n \in Nat /\ m \in Nat /\ ~(m < n)  BY <1>2, <1>3
  <2>. QED  BY <2>1
<1>. QED  BY <1>4

\* What it means for a function to keep what is in S of every beginning of the queue.
Keeps(f, q, S, n) ==
  f = [i \in 0..n |-> IF i = 0 THEN <<>>
                      ELSE IF q[i] \in S THEN Append(f[i - 1], q[i]) ELSE f[i - 1]]

\* What is kept of the queue is what such a function says of its whole length.
LEMMA KeepIs ==
  ASSUME NEW q, NEW S
  PROVE  Keep(q, S) = (CHOOSE f : Keeps(f, q, S, Len(q)))[Len(q)]
BY DEF Keep, Keeps

\* Such a function starts with nothing and goes on entry by entry.
LEMMA KeepsStep ==
  ASSUME NEW q, NEW S, NEW n \in Nat, NEW f, Keeps(f, q, S, n)
  PROVE  /\ f[0] = <<>>
         /\ \A i \in 1..n : f[i] = IF q[i] \in S THEN Append(f[i - 1], q[i]) ELSE f[i - 1]
<1>. DEFINE e(k) == IF k = 0 THEN <<>>
                    ELSE IF q[k] \in S THEN Append(f[k - 1], q[k]) ELSE f[k - 1]
<1>1. f = [k \in 0..n |-> e(k)]  BY DEF Keeps
<1>. HIDE DEF e
<1>2. \A i \in 0..n : f[i] = e(i)  BY <1>1
<1>3. f[0] = <<>>
  <2>1. 0 \in 0..n  OBVIOUS
  <2>2. f[0] = e(0)  BY <1>2, <2>1
  <2>. QED  BY <2>2 DEF e
<1>4. ASSUME NEW i \in 1..n
      PROVE  f[i] = IF q[i] \in S THEN Append(f[i - 1], q[i]) ELSE f[i - 1]
  <2>1. i \in 0..n /\ i # 0  OBVIOUS
  <2>2. f[i] = e(i)  BY <1>2, <2>1
  <2>. QED  BY <2>1, <2>2 DEF e
<1>. QED  BY <1>3, <1>4

\* There is one for every queue.
LEMMA KeepsExist ==
  ASSUME NEW q, NEW S, NEW n \in Nat
  PROVE  \E f : Keeps(f, q, S, n)
<1>. DEFINE N == {m \in Nat : ~ \E f : Keeps(f, q, S, m)}
<1>. SUFFICES ASSUME N # {} PROVE FALSE  BY DEF N
<1>1. PICK m \in N : \A k \in N : m <= k
  <2>. HIDE DEF N
  <2>1. N \subseteq Nat  BY DEF N
  <2>. QED  BY <2>1, LeastNumber
<1>2. CASE m = 0
  <2>. DEFINE h == [i \in 0..m |-> <<>>]
  <2>1. \A i \in 0..m : i = 0  BY <1>2
  <2>2. Keeps(h, q, S, m)  BY <2>1 DEF Keeps
  <2>. QED  BY <2>2
<1>3. CASE m # 0
  <2>. DEFINE p == m - 1
  <2>1. p \in Nat /\ p \notin N /\ m = p + 1  BY <1>1, <1>3
  <2>. HIDE DEF p
  <2>2. PICK g : Keeps(g, q, S, p)  BY <2>1
  <2>3. /\ g[0] = <<>>
        /\ \A i \in 1..p : g[i] = IF q[i] \in S THEN Append(g[i - 1], q[i]) ELSE g[i - 1]
    BY <2>1, <2>2, KeepsStep
  <2>. DEFINE e(i) == IF i = 0 THEN <<>>
                      ELSE IF q[i] \in S THEN Append(g[i - 1], q[i]) ELSE g[i - 1]
              h == [i \in 0..m |-> e(i)]
              k(i) == IF i = 0 THEN <<>>
                      ELSE IF q[i] \in S THEN Append(h[i - 1], q[i]) ELSE h[i - 1]
  <2>4. \A i \in 0..p : h[i] = g[i]
    <3>1. \A i \in 0..p : i = 0 \/ i \in 1..p  OBVIOUS
    <3>2. \A i \in 0..p : g[i] = e(i)  BY <2>3, <3>1
    <3>3. \A i \in 0..p : i \in 0..m  BY <2>1
    <3>. HIDE DEF e
    <3>. QED  BY <3>2, <3>3
  <2>5. \A i \in 0..m : e(i) = k(i)
    <3>. HIDE DEF h
    <3>1. \A i \in 0..m : i # 0 => i - 1 \in 0..p  BY <2>1
    <3>. QED  BY <2>4, <3>1
  <2>6. h = [i \in 0..m |-> k(i)]
    <3>. HIDE DEF e, k
    <3>. QED  BY <2>5
  <2>7. Keeps(h, q, S, m)
    <3>. HIDE DEF h
    <3>. QED  BY <2>6 DEF Keeps
  <2>. QED  BY <2>7
<1>. QED  BY <1>2, <1>3

\* It keeps the entries that are in S, all of them and no others.
LEMMA KeepFacts ==
  ASSUME NEW T, NEW q \in Seq(T), NEW S
  PROVE  /\ Keep(q, S) \in Seq(T \cap S)
         /\ ToSet(Keep(q, S)) = ToSet(q) \cap S
<1>. DEFINE n == Len(q)
            f == CHOOSE g : Keeps(g, q, S, n)
            right(i) == /\ f[i] \in Seq(T \cap S)
                        /\ \A k \in 1..i : q[k] \in S => q[k] \in ToSet(f[i])
                        /\ \A x \in ToSet(f[i]) : \E k \in 1..i : x = q[k]
            N == {i \in 0..n : ~right(i)}
<1>1. n \in Nat  OBVIOUS
<1>2. Keeps(f, q, S, n)  BY <1>1, KeepsExist
<1>3. Keep(q, S) = f[n]  BY KeepIs
<1>4. \A i \in 1..n : q[i] \in T  OBVIOUS
<1>. HIDE DEF f, n
<1>5. N = {}
  <2>. SUFFICES ASSUME N # {} PROVE FALSE  OBVIOUS
  <2>1. PICK i \in N : \A k \in N : i <= k
    <3>. HIDE DEF N
    <3>1. N \subseteq Nat  BY <1>1 DEF N
    <3>. QED  BY <3>1, LeastNumber
  <2>2. i \in 0..n /\ ~right(i)  OBVIOUS
  <2>3. i # 0
    <3>1. ASSUME i = 0 PROVE right(0)
      <4>1. f[0] = <<>>  BY <1>1, <1>2, KeepsStep
      <4>2. ToSet(<<>>) = {}  BY DEF ToSet
      <4>. QED  BY <4>1, <4>2
    <3>. HIDE DEF right
    <3>. QED  BY <2>2, <3>1
  <2>. DEFINE s == f[i - 1]
  <2>4. i - 1 \in 0..n /\ i \in 1..n  BY <1>1, <2>2, <2>3
  <2>5. right(i - 1)
    <3>. HIDE DEF right
    <3>. QED  BY <1>1, <2>1, <2>2, <2>4
  <2>6. /\ s \in Seq(T \cap S)
        /\ \A k \in 1..(i - 1) : q[k] \in S => q[k] \in ToSet(s)
        /\ \A x \in ToSet(s) : \E k \in 1..(i - 1) : x = q[k]
    BY <2>5
  <2>7. f[i] = IF q[i] \in S THEN Append(s, q[i]) ELSE s
    BY <1>1, <1>2, <2>4, KeepsStep
  <2>. HIDE DEF s, N
  <2>8. \A k \in 1..i : k = i \/ k \in 1..(i - 1)  BY <2>4
  <2>9. \A k \in 1..(i - 1) : k \in 1..i  BY <2>4
  <2>10. CASE q[i] \in S
    <3>1. f[i] = Append(s, q[i]) /\ q[i] \in T \cap S  BY <1>4, <2>4, <2>7, <2>10
    <3>2. f[i] \in Seq(T \cap S)  BY <2>6, <3>1
    <3>3. ToSet(f[i]) = ToSet(s) \cup {q[i]}
      <4>1. /\ Len(f[i]) = Len(s) + 1 /\ Len(s) \in Nat /\ f[i][Len(s) + 1] = q[i]
            /\ \A k \in 1..Len(s) : f[i][k] = s[k]
        BY <2>6, <3>1
      <4>2. DOMAIN f[i] = 1..(Len(s) + 1) /\ DOMAIN s = 1..Len(s)  BY <2>6, <3>2, <4>1
      <4>. QED  BY <4>1, <4>2 DEF ToSet
    <3>4. i \in 1..i  BY <2>4
    <3>5. \A k \in 1..i : q[k] \in S => q[k] \in ToSet(f[i])  BY <2>6, <2>8, <3>3
    <3>6. \A x \in ToSet(f[i]) : \E k \in 1..i : x = q[k]  BY <2>6, <2>9, <3>3, <3>4
    <3>. QED  BY <2>2, <3>2, <3>5, <3>6
  <2>11. CASE q[i] \notin S
    <3>1. f[i] = s  BY <2>7, <2>11
    <3>2. right(i)  BY <2>6, <2>8, <2>9, <2>11, <3>1
    <3>. QED  BY <2>2, <3>2
  <2>. QED  BY <2>10, <2>11
<1>6. right(n)
  <2>1. n \in 0..n  BY <1>1
  <2>. HIDE DEF right
  <2>. QED  BY <1>5, <2>1
<1>7. \A x \in ToSet(f[n]) : x \in T \cap S  BY <1>6 DEF ToSet
<1>8. ToSet(q) = {q[k] : k \in 1..n}  BY DEF ToSet, n
<1>9. ToSet(f[n]) = ToSet(q) \cap S  BY <1>6, <1>7, <1>8
<1>. QED  BY <1>3, <1>6, <1>9

\* The entries of two queues, one behind the other.
LEMMA JoinedEntries ==
  ASSUME NEW T, NEW p \in Seq(T), NEW q \in Seq(T)
  PROVE  p \o q \in Seq(T) /\ ToSet(p \o q) = ToSet(p) \cup ToSet(q)
<1>1. p \o q \in Seq(T) /\ Len(p \o q) = Len(p) + Len(q) /\ Len(p) \in Nat /\ Len(q) \in Nat
  OBVIOUS
<1>2. \A i \in 1..Len(p) : (p \o q)[i] = p[i] /\ i \in 1..Len(p \o q)  OBVIOUS
<1>3. \A i \in 1..Len(q) : (p \o q)[Len(p) + i] = q[i] /\ Len(p) + i \in 1..Len(p \o q)  OBVIOUS
<1>4. \A i \in 1..Len(p \o q) : i \in 1..Len(p) \/ (i - Len(p) \in 1..Len(q) /\ i = Len(p) + (i - Len(p)))
  BY <1>1
<1>5. ToSet(p) \subseteq ToSet(p \o q) /\ ToSet(q) \subseteq ToSet(p \o q)
  <2>1. \A s \in Seq(T) : ToSet(s) = {s[i] : i \in 1..Len(s)}  BY DEF ToSet
  <2>. DEFINE all == p \o q
  <2>2. all \in Seq(T)  BY <1>1
  <2>3. \A i \in 1..Len(p) : p[i] \in ToSet(all)
    <3>1. \A i \in 1..Len(p) : all[i] = p[i] /\ i \in 1..Len(all)  BY <1>2
    <3>. HIDE DEF all
    <3>. QED  BY <2>1, <2>2, <3>1
  <2>4. \A i \in 1..Len(q) : q[i] \in ToSet(all)
    <3>1. \A i \in 1..Len(q) : all[Len(p) + i] = q[i] /\ Len(p) + i \in 1..Len(all)  BY <1>3
    <3>. HIDE DEF all
    <3>. QED  BY <2>1, <2>2, <3>1
  <2>. QED  BY <2>1, <2>3, <2>4
<1>6. ToSet(p \o q) \subseteq ToSet(p) \cup ToSet(q)
  <2>. SUFFICES ASSUME NEW i \in 1..Len(p \o q)
                PROVE  (p \o q)[i] \in ToSet(p) \cup ToSet(q)
    BY <1>1 DEF ToSet
  <2>1. CASE i \in 1..Len(p)  BY <1>2, <2>1 DEF ToSet
  <2>2. CASE i - Len(p) \in 1..Len(q)
    <3>1. (p \o q)[i] = q[i - Len(p)]  BY <1>3, <1>4, <2>2
    <3>. QED  BY <2>2, <3>1 DEF ToSet
  <2>. QED  BY <1>4, <2>1, <2>2
<1>. QED  BY <1>1, <1>5, <1>6

-----------------------------------------------------------------------------
(* The queue: it holds job ids, and every job that is still open.               *)

QueueTypes ==
  /\ late \in BOOLEAN
  /\ index \in Seq(JobId)
  /\ scan \in JobId \cup {NoJob}
  /\ cursor \in [attempt: Attempt \cup {NoAttempt}, empty: SUBSET Seq(JobId)]
  /\ receipt \in [Attempt -> Receipt]
  /\ claimAged \subseteq MailJob
  /\ sentAged \subseteq MailJob
  /\ faults \in 0..MaxFaults

\* No job that is still to be claimed or settled falls out of the binding's queue: a scan drops
\* entries of closed jobs only, and what one revision queues is not lost to a claim of another.
NoJobLost == \A j \in JobId : Open(j) => j \in ToSet(index)

QueueInv == QueueTypes /\ NoJobLost

\* The notices of an event are those of its jobs that exist.
LEMMA NoticesFacts ==
  ASSUME NEW w, NEW event
  PROVE  LET n == Notices(w, event) IN
           /\ n \in Seq(JobId)
           /\ \A j \in JobId : j.ver = w.ver /\ j.event = event => j \in ToSet(n)
<1>. DEFINE id(c) == [ver |-> w.ver, event |-> event, channel |-> c]
            ids == [i \in 1..Len(Channels) |->
                      [ver |-> w.ver, event |-> event, channel |-> Channels[i]]]
            T == {id(c) : c \in ToSet(Channels)}
<1>1. Len(Channels) \in Nat /\ \A i \in 1..Len(Channels) : Channels[i] \in ToSet(Channels)
  BY MailAssumption
<1>2. ids \in Seq(T) /\ Len(ids) = Len(Channels)
  <2>1. \A i \in 1..Len(Channels) : ids[i] \in T  BY <1>1
  <2>. HIDE DEF T
  <2>2. ids \in [1..Len(Channels) -> T]  BY <2>1
  <2>. HIDE DEF ids
  <2>. QED  BY <1>1, <2>2
<1>3. \A c \in ToSet(Channels) : id(c) \in ToSet(ids)
  <2>. SUFFICES ASSUME NEW c \in ToSet(Channels)  PROVE id(c) \in ToSet(ids)
    OBVIOUS
  <2>1. PICK i \in 1..Len(Channels) : c = Channels[i]
    <3>1. DOMAIN Channels = 1..Len(Channels)  BY MailAssumption
    <3>. QED  BY <3>1 DEF ToSet
  <2>2. ids[i] = id(c) /\ DOMAIN ids = 1..Len(Channels)  BY <2>1
  <2>. HIDE DEF ids, id
  <2>. QED  BY <2>2 DEF ToSet
<1>4. Notices(w, event) = Keep(ids, JobId)  BY DEF Notices
<1>. HIDE DEF ids, T
<1>5. /\ Keep(ids, JobId) \in Seq(T \cap JobId)
      /\ ToSet(Keep(ids, JobId)) = ToSet(ids) \cap JobId
  BY <1>2, KeepFacts
<1>6. Keep(ids, JobId) \in Seq(JobId)
  <2>1. T \cap JobId \subseteq JobId  OBVIOUS
  <2>. QED  BY <1>5, <2>1
<1>7. ASSUME NEW j \in JobId, j.ver = w.ver, j.event = event  PROVE j = id(j.channel)
  BY <1>7 DEF JobId
<1>8. \A j \in JobId : j.channel \in ToSet(Channels)  BY DEF JobId
<1>. QED  BY <1>3, <1>4, <1>5, <1>6, <1>7, <1>8

\* Planning queues what it writes.
LEMMA PlanQueues ==
  ASSUME Types, QueueInv, NEW w \in Workspace, NEW event \in Event, Plan(w, event)
  PROVE  index' \in Seq(JobId) /\ NoJobLost'
<1>. DEFINE new(j) == j.ver = w.ver /\ j.event = event /\ job[j].state = "none"
            n == Notices(w, event)
            S == {j \in JobId : new(j) \/ Open(j)} \ ToSet(index)
            more == Keep(n, S)
<1>1. index' = index \o more  BY DEF Plan
<1>2. /\ n \in Seq(JobId)
      /\ \A j \in JobId : j.ver = w.ver /\ j.event = event => j \in ToSet(n)
  BY NoticesFacts
<1>. HIDE DEF n, S
<1>3. more \in Seq(JobId \cap S) /\ ToSet(more) = ToSet(n) \cap S  BY <1>2, KeepFacts
<1>4. more \in Seq(JobId)
  <2>1. JobId \cap S \subseteq JobId  OBVIOUS
  <2>. QED  BY <1>3, <2>1
<1>. HIDE DEF more
<1>5. index' \in Seq(JobId) /\ ToSet(index') = ToSet(index) \cup ToSet(more)
  BY <1>1, <1>4, JoinedEntries DEF QueueInv, QueueTypes
<1>6. ASSUME NEW j \in JobId, Open(j)'  PROVE j \in ToSet(index')
  <2>1. CASE job'[j] = job[j]
    <3>1. Open(j)  BY <1>6, <2>1 DEF Open
    <3>. QED  BY <1>5, <3>1 DEF QueueInv, NoJobLost
  <2>2. CASE j.ver = w.ver /\ j.event = event /\ job[j].state = "none"
    <3>1. j \in ToSet(n)  BY <1>2, <2>2
    <3>2. j \in S \/ j \in ToSet(index)  BY <2>2 DEF S
    <3>. QED  BY <1>3, <1>5, <3>1, <3>2
  <2>. QED  BY <2>1, <2>2, PlanFacts
<1>. QED  BY <1>5, <1>6 DEF NoJobLost

\* Where the next claim starts, and what the scan takes for closed.
LEMMA ScanGoesOn ==
  ASSUME QueueTypes
  PROVE  /\ Scanned.next \in JobId \cup {NoJob}
         /\ \A j \in Scanned.closed : ~Open(j)
<1>. DEFINE start == IF scan \in ToSet(index) THEN CHOOSE i \in 1..Len(index) : index[i] = scan ELSE 1
            window == start..(IF start + MaxScan - 1 <= Len(index) THEN start + MaxScan - 1 ELSE Len(index))
            ours == {i \in window : index[i] \in MailJob}
            fit == {i \in ours : job[index[i]].state = "queued" /\ DeliveryGuard(ws, late, index[i])}
            stop == {i \in fit : \A k \in fit : i <= k}
            passed == {index[i] : i \in {k \in ours : \A m \in stop : k < m}}
            last == IF stop = {} THEN start + Cardinality(window) - 1 ELSE CHOOSE i \in stop : TRUE
<1>1. /\ Scanned.next = IF last < Len(index) THEN index[last + 1] ELSE NoJob
      /\ Scanned.closed = {j \in passed : ~Open(j)}
  BY DEF Scanned
<1>2. index \in Seq(JobId) /\ Len(index) \in Nat  BY DEF QueueTypes
<1>3. start \in Nat /\ start >= 1
  <2>1. CASE scan \in ToSet(index)
    <3>1. \E i \in 1..Len(index) : index[i] = scan  BY <1>2, <2>1 DEF ToSet
    <3>2. start \in 1..Len(index)  BY <2>1, <3>1
    <3>. HIDE DEF start
    <3>. QED  BY <1>2, <3>2
  <2>2. CASE scan \notin ToSet(index)  BY <2>2
  <2>. QED  BY <2>1, <2>2
<1>. DEFINE end == IF start + MaxScan - 1 <= Len(index) THEN start + MaxScan - 1 ELSE Len(index)
<1>. HIDE DEF start
<1>4. end \in Int  BY <1>2, <1>3, MailAssumption
<1>. HIDE DEF end
<1>5. Cardinality(window) \in Nat /\ \A i \in window : i \in Nat
  <2>1. window = start..end  BY DEF end
  <2>2. IsFiniteSet(start..end)  BY <1>3, <1>4, FS_Interval
  <2>3. Cardinality(start..end) \in Nat  BY <2>2, FS_CardinalityType
  <2>4. \A i \in start..end : i \in Nat  BY <1>3, <1>4
  <2>. QED  BY <2>1, <2>3, <2>4
<1>6. stop \subseteq window  OBVIOUS
<1>. HIDE DEF window, stop
<1>7. last \in Nat
  <2>1. CASE stop = {}
    <3>1. last = start + Cardinality(window) - 1  BY <2>1
    <3>. QED  BY <1>3, <1>5, <3>1
  <2>2. CASE stop # {}
    <3>1. last \in stop  BY <2>2
    <3>. QED  BY <1>5, <1>6, <3>1
  <2>. QED  BY <2>1, <2>2
<1>. HIDE DEF last
<1>8. Scanned.next \in JobId \cup {NoJob}
  <2>1. CASE last < Len(index)
    <3>1. last + 1 \in 1..Len(index)  BY <1>2, <1>7, <2>1
    <3>2. index[last + 1] \in JobId  BY <1>2, <3>1
    <3>. QED  BY <1>1, <2>1, <3>2
  <2>2. CASE ~(last < Len(index))  BY <1>1, <2>2
  <2>. QED  BY <2>1, <2>2
<1>. QED  BY <1>1, <1>8

\* A claim drops closed jobs of the queue, and those it closes.
LEMMA ClaimQueues ==
  ASSUME Inv, QueueInv, NEW r \in Runner, MakeClaim(r)
  PROVE  QueueInv'
<1>. DEFINE c == Scanned
            a == run[r].attempt
            gone == c.timedOut \cup c.denied \cup c.closed
            e == IF c.done THEN {index'} ELSE {}
<1>1. /\ index' = Keep(index, JobId \ gone)
      /\ scan' = c.next
      /\ claimAged' = claimAged \ c.timedOut
      /\ receipt' = [receipt EXCEPT ![a] = [made |-> TRUE, job |-> c.pick, empty |-> e]]
      /\ job' = [j \in JobId |->
                   IF j \in c.timedOut THEN [job[j] EXCEPT !.state = "unknown"]
                   ELSE IF j \in c.denied THEN [job[j] EXCEPT !.state = "failed"]
                   ELSE IF j = c.pick THEN [job[j] EXCEPT !.state = "sending"]
                   ELSE job[j]]
      /\ UNCHANGED <<late, cursor, sentAged, faults>>
  BY DEF MakeClaim, booking, sending
<1>2. /\ c.pick \in MailJob \cup {NoJob} /\ c.next \in JobId \cup {NoJob}
      /\ \A j \in c.closed : ~Open(j)
  BY ScanFacts, ScanGoesOn DEF QueueInv
<1>3. \A j \in JobId : JobStep(j)  BY ClaimJobs
<1>. HIDE DEF c
<1>4. index \in Seq(JobId)  BY DEF QueueInv, QueueTypes
<1>5. /\ Keep(index, JobId \ gone) \in Seq(JobId \cap (JobId \ gone))
      /\ ToSet(Keep(index, JobId \ gone)) = ToSet(index) \cap (JobId \ gone)
  BY <1>4, KeepFacts
<1>6. index' \in Seq(JobId)
  <2>1. JobId \cap (JobId \ gone) \subseteq JobId  OBVIOUS
  <2>. QED  BY <1>1, <1>5, <2>1
<1>7. e \in SUBSET Seq(JobId)  BY <1>6
<1>. HIDE DEF e
<1>8. receipt' \in [Attempt -> Receipt]
  <2>1. [made |-> TRUE, job |-> c.pick, empty |-> e] \in Receipt
    BY <1>2, <1>7, NoJobIsNone DEF Receipt
  <2>. QED  BY <1>1, <2>1 DEF QueueInv, QueueTypes
<1>9. QueueTypes'  BY <1>1, <1>2, <1>6, <1>8 DEF QueueInv, QueueTypes
<1>10. ASSUME NEW j \in JobId, Open(j)'  PROVE j \in ToSet(index')
  <2>1. Open(j)
    <3>1. JobStep(j)  BY <1>3
    <3>. QED  BY <1>10, <3>1 DEF JobStep, Open
  <2>2. job[j] \in Job  BY DEF Inv, Types
  <2>3. j \notin c.timedOut
    <3>1. ASSUME j \in c.timedOut  PROVE job'[j].state = "unknown"
      <4>1. job'[j] = [job[j] EXCEPT !.state = "unknown"]  BY <1>1, <3>1
      <4>. QED  BY <2>2, <4>1 DEF Job
    <3>. QED  BY <1>10, <3>1 DEF Open
  <2>4. j \notin c.denied
    <3>1. ASSUME j \in c.denied  PROVE job'[j].state = "failed"
      <4>1. job'[j] = [job[j] EXCEPT !.state = "failed"]  BY <1>1, <2>3, <3>1
      <4>. QED  BY <2>2, <4>1 DEF Job
    <3>. QED  BY <1>10, <3>1 DEF Open
  <2>5. j \notin gone  BY <1>2, <2>1, <2>3, <2>4
  <2>6. j \in ToSet(index)  BY <2>1 DEF QueueInv, NoJobLost
  <2>. QED  BY <1>1, <1>5, <2>5, <2>6
<1>. QED  BY <1>9, <1>10 DEF QueueInv, NoJobLost

\* An acknowledgement closes the job it takes out of the queue.
LEMMA AcknowledgeQueues ==
  ASSUME Inv, QueueInv, NEW r \in Runner, Acknowledge(r)
  PROVE  QueueInv'
<1>. DEFINE j == run[r].job
            v == Verdict(r)
<1>1. j \in JobId /\ UNCHANGED <<late, scan, receipt, cursor, sentAged, faults>>
  BY InHand, NoJobIsNone DEF Acknowledge, At, Holding, booking, sending
<1>2. \A i \in JobId : Open(i)' => Open(i)
  <2>1. \A i \in JobId : JobStep(i)  BY AcknowledgeJobs
  <2>. QED  BY <2>1 DEF JobStep, Open
<1>3. CASE UNCHANGED <<job, index, claimAged>>
  BY <1>1, <1>3 DEF QueueInv, QueueTypes, NoJobLost, Open
<1>4. CASE /\ job' = [job EXCEPT ![j].state = v, ![j].ack = v]
           /\ index' = Keep(index, JobId \ {j})
           /\ claimAged' = claimAged \ {j}
  <2>1. /\ Keep(index, JobId \ {j}) \in Seq(JobId \cap (JobId \ {j}))
        /\ ToSet(Keep(index, JobId \ {j})) = ToSet(index) \cap (JobId \ {j})
    BY KeepFacts DEF QueueInv, QueueTypes
  <2>2. index' \in Seq(JobId)
    <3>1. JobId \cap (JobId \ {j}) \subseteq JobId  OBVIOUS
    <3>. QED  BY <1>4, <2>1, <3>1
  <2>3. ASSUME NEW i \in JobId, i = j  PROVE ~Open(i)'
    <3>1. v \in {"sent", "unknown"}  BY DEF Verdict
    <3>2. job[j] \in Job /\ job \in [JobId -> Job]  BY <1>1 DEF Inv, Types
    <3>3. "state" \in DOMAIN job[j]  BY <3>2 DEF Job
    <3>. DEFINE k == [job EXCEPT ![j].state = v]
    <3>4. k[j].state = v /\ "state" \in DOMAIN k[j] /\ j \in DOMAIN k  BY <1>1, <3>2, <3>3
    <3>5. job' = [k EXCEPT ![j].ack = v]  BY <1>4
    <3>. HIDE DEF k
    <3>6. job'[j].state = v  BY <3>4, <3>5
    <3>. QED  BY <2>3, <3>1, <3>6 DEF Open
  <2>4. QueueTypes'  BY <1>1, <1>4, <2>2 DEF QueueInv, QueueTypes
  <2>5. ASSUME NEW i \in JobId, Open(i)'  PROVE i \in ToSet(index')
    BY <1>2, <1>4, <2>1, <2>3, <2>5 DEF QueueInv, NoJobLost
  <2>. QED  BY <2>4, <2>5 DEF QueueInv, NoJobLost
<1>. QED  BY <1>3, <1>4 DEF Acknowledge

\* The booking's steps and the passing of time queue what they write.
LEMMA BookingQueues ==
  ASSUME Inv, QueueInv,
         Extend \/ Convert \/ Release \/ Revise \/ Revoke \/ DeadlinePasses \/ EnqueueExpired
           \/ TimePasses
  PROVE  QueueInv'
<1>1. ASSUME NEW w \in Workspace, NEW event \in Event, Plan(w, event), late' \in BOOLEAN,
             UNCHANGED <<scan, receipt, cursor, claimAged, sending, faults>>
      PROVE  QueueInv'
  <2>1. index' \in Seq(JobId) /\ NoJobLost'  BY <1>1, PlanQueues DEF Inv
  <2>. QED  BY <1>1, <2>1 DEF QueueInv, QueueTypes, sending
<1>2. CASE Extend \/ Convert \/ Release
  <2>1. ws' \in Workspace  BY <1>2, DecisionKeepsInv DEF Inv, Types
  <2>2. late' \in BOOLEAN  BY <1>2 DEF Extend, Convert, Release, QueueInv, QueueTypes
  <2>. QED  BY <1>1, <1>2, <2>1, <2>2 DEF Extend, Convert, Release, Decide, Event, OwnerEvent
<1>3. CASE EnqueueExpired
  <2>1. ws \in Workspace  BY DEF Inv, Types
  <2>2. \E w \in {ws, ws'} : Plan(w, "expired")  BY <1>3 DEF EnqueueExpired
  <2>3. ws' \in Workspace  BY <1>3, ReminderKeepsInv DEF Inv, Types
  <2>. QED  BY <1>1, <1>3, <2>1, <2>2, <2>3 DEF EnqueueExpired, Event, QueueInv, QueueTypes
<1>4. CASE Revise \/ Revoke \/ DeadlinePasses
  BY <1>4 DEF Revise, Revoke, DeadlinePasses, QueueInv, QueueTypes, NoJobLost, Open, queue, sending
<1>5. CASE TimePasses
  BY <1>5 DEF TimePasses, ClaimAges, DispatchAges, QueueInv, QueueTypes, NoJobLost, Open, booking,
     queue, sending
<1>. QED  BY <1>2, <1>3, <1>4, <1>5

\* The other steps of a run leave the queue alone and close jobs at most.
LEMMA RunQueues ==
  ASSUME Inv, QueueInv, NEW r \in Runner, Works(r) \/ Fail(r), ~MakeClaim(r), ~Acknowledge(r)
  PROVE  QueueInv'
<1>1. CASE Replay(r)
  <2>. DEFINE j == receipt[run[r].attempt].job
  <2>1. \A i \in JobId : Open(i)' => Open(i)
    <3>1. \A i \in JobId : JobStep(i)  BY <1>1, ReplayJobs
    <3>. QED  BY <3>1 DEF JobStep, Open
  <2>2. claimAged' = claimAged \/ claimAged' = claimAged \ {j}  BY <1>1 DEF Replay
  <2>. HIDE DEF j
  <2>. QED  BY <1>1, <2>1, <2>2 DEF Replay, QueueInv, QueueTypes, NoJobLost, booking, sending
<1>2. CASE Start(r) \/ TakeCursor(r) \/ NothingNew(r) \/ AwaitSender(r) \/ ResumeAck(r) \/ GiveUp(r) \/ PlanDispatch(r)
           \/ Dispatch(r) \/ DispatchConflict(r) \/ (\E took, told \in BOOLEAN : Send(r, took, told))
           \/ SettleDelivery(r)
  BY <1>2 DEF Start, TakeCursor, NothingNew, AwaitSender, ResumeAck, GiveUp, PlanDispatch, Dispatch,
     DispatchConflict, Send, SettleDelivery, QueueInv, QueueTypes, NoJobLost, Open, booking, queue, sending
<1>3. CASE Interrupted(r) \/ Accepted(r) \/ Uncertain(r)
  <2>1. sentAged' = sentAged \/ sentAged' = sentAged \ {run[r].job}
    BY <1>3 DEF Interrupted, Accepted, Uncertain, RecordAnswer
  <2>2. UNCHANGED <<late, job, index, scan, receipt, claimAged, cursor, faults>>
    BY <1>3 DEF Interrupted, Accepted, Uncertain, RecordAnswer, booking, queue
  <2>. QED  BY <2>1, <2>2 DEF QueueInv, QueueTypes, NoJobLost, Open
<1>4. CASE NewAttempt(r)
  <2>1. Fresh \in Attempt  BY FreshExists DEF Inv
  <2>2. NoReceipt \in Receipt  BY DEF NoReceipt, Receipt
  <2>. QED
    BY <1>4, <2>1, <2>2 DEF NewAttempt, QueueInv, QueueTypes, NoJobLost, Open, booking, sending
<1>5. CASE FinishCursor(r)
  <2>1. run[r].attempt \in Attempt  BY <1>5 DEF FinishCursor, At, Inv, Types, Attempting
  <2>2. receipt[run[r].attempt].empty \in SUBSET Seq(JobId)
    <3>1. receipt[run[r].attempt] \in Receipt  BY <2>1 DEF QueueInv, QueueTypes
    <3>. QED  BY <3>1 DEF Receipt
  <2>. QED
    BY <1>5, <2>2 DEF FinishCursor, QueueInv, QueueTypes, NoJobLost, Open, booking, queue, sending
<1>6. CASE Fail(r)
  <2>1. faults + 1 \in 0..MaxFaults
    BY <1>6, MailAssumption DEF Fail, QueueInv, QueueTypes
  <2>. QED
    BY <1>6, <2>1 DEF Fail, QueueInv, QueueTypes, NoJobLost, Open, booking, queue, sending
<1>. QED  BY <1>1, <1>2, <1>3, <1>4, <1>5, <1>6 DEF Works

\* The booking was just reserved: the jobs of its first notices are the queue.
LEMMA InitQueues == Init => QueueInv
<1>. SUFFICES ASSUME Init PROVE QueueInv  OBVIOUS
<1>1. index = Notices(ws, "created") /\ ws.ver = 1  BY DEF Init, NewBooking
<1>2. /\ Notices(ws, "created") \in Seq(JobId)
      /\ \A j \in JobId : j.ver = 1 /\ j.event = "created" => j \in ToSet(Notices(ws, "created"))
  BY <1>1, NoticesFacts
<1>3. ASSUME NEW j \in JobId, Open(j)  PROVE j.ver = 1 /\ j.event = "created"
  <2>1. j.event = "created"  BY <1>3 DEF Init, Open, Unwritten
  <2>. QED  BY <2>1 DEF JobId
<1>4. NoReceipt \in Receipt  BY DEF NoReceipt, Receipt
<1>5. 0 \in 0..MaxFaults  BY MailAssumption
<1>. QED  BY <1>1, <1>2, <1>3, <1>4, <1>5 DEF Init, QueueInv, QueueTypes, NoJobLost

\* The queue holds what it should in every reachable state.
THEOREM QueueInvAlways == Spec => []QueueInv
<1>1. Inv /\ QueueInv /\ [Next]_vars => QueueInv'
  <2>. SUFFICES ASSUME Inv, QueueInv, [Next]_vars PROVE QueueInv'  OBVIOUS
  <2>1. CASE UNCHANGED vars  BY <2>1 DEF vars, QueueInv, QueueTypes, NoJobLost, Open
  <2>2. CASE Next
    BY <2>2, BookingQueues, ClaimQueues, AcknowledgeQueues, RunQueues DEF Next
  <2>. QED  BY <2>1, <2>2
<1>. QED  BY <1>1, InitQueues, InvAlways, PTL DEF Spec

\* Every variable keeps its type: the queue holds jobs of the booking, whatever was scanned,
\* dropped, planned and acknowledged.
THEOREM TypeCorrect == Spec => []TypeOK
<1>1. Inv /\ QueueInv => TypeOK  BY DEF Inv, Types, QueueInv, QueueTypes, TypeOK
<1>. QED  BY <1>1, InvAlways, QueueInvAlways, PTL

\* No notification that is open is forgotten by the queue of its binding (notificationPlan
\* and claim of website-booking/notifications.ts write the queue in the same commits as the jobs).
THEOREM NoJobLostAlways == Spec => []NoJobLost
<1>1. QueueInv => NoJobLost  BY DEF QueueInv
<1>. QED  BY <1>1, QueueInvAlways, PTL

-----------------------------------------------------------------------------
(* The outbox keeps the promise. *)

\* A step of the jobs that leaves the mails records outcomes the promise allows.
LEMMA JobsImplement ==
  ASSUME Inv, job' \in [JobId -> Job], UNCHANGED mails,
         \A j \in MailJob : \/ JobStep(j)
                            \/ job[j].state = "none" /\ job'[j].state = "queued"
  PROVE  Promise!Record
<1>1. ASSUME NEW j \in MailJob
      PROVE  /\ Outcome(j)' \in Promise!Outcome
             /\ \/ Outcome(j)' = Outcome(j)
                \/ Promise!May(j, Outcome(j)')
  <2>1. JobInv(j) /\ mails[j] \in Nat /\ j \in JobId  BY NoJobIsNone DEF Inv, Types, MailInv
  <2>2. job[j].state \in JobState /\ job'[j].state \in JobState  BY <2>1 DEF Inv, Types, Job
  <2>3. Outcome(j)' \in Promise!Outcome
    BY <2>2 DEF Outcome, Open, Promise!Outcome, JobState
  <2>4. [i \in MailJob |-> Outcome(i)][j] = Outcome(j)  OBVIOUS
  <2>5. CASE job[j].state = "none" /\ job'[j].state = "queued"
    BY <2>3, <2>4, <2>5 DEF Outcome, Open, Promise!May
  <2>6. CASE JobStep(j)
    <3>. DEFINE s == job[j].state
                t == job'[j].state
    <3>1. CASE t = s \/ (s = "queued" /\ t = "sending")
      BY <2>3, <3>1 DEF Outcome, Open
    <3>2. CASE s = "queued" /\ t = "failed"
      <4>1. mails[j] = 0  BY <2>1, <3>2 DEF JobInv
      <4>. QED  BY <2>3, <2>4, <3>2, <4>1 DEF Outcome, Open, Promise!May
    <3>3. CASE s = "sending" /\ t = "unknown"
      BY <2>3, <2>4, <3>3 DEF Outcome, Open, Promise!May
    <3>4. CASE s \in {"sending", "unknown"} /\ delivery[j].state \in {"accepted", "sent"} /\ t = "sent"
      <4>1. mails[j] = 1  BY <2>1, <3>4 DEF JobInv
      <4>. QED  BY <2>3, <2>4, <3>4, <4>1 DEF Outcome, Open, Promise!May
    <3>. QED  BY <2>6, <3>1, <3>2, <3>3, <3>4 DEF JobStep
  <2>. QED  BY <2>3, <2>5, <2>6
<1>2. [i \in MailJob |-> Outcome(i)]' \in [MailJob -> Promise!Outcome]  BY <1>1
<1>3. \A j \in MailJob : [i \in MailJob |-> Outcome(i)]'[j] = Outcome(j)'
      /\ [i \in MailJob |-> Outcome(i)][j] = Outcome(j)
  OBVIOUS
<1>. QED  BY <1>1, <1>2, <1>3 DEF Promise!Record

\* The notification outbox implements MailPromise.
THEOREM Refinement == Spec => KeepsPromise
<1>. DEFINE abstract == [j \in MailJob |-> Outcome(j)]
<1>1. Init => Promise!Init
  <2>. SUFFICES ASSUME Init PROVE Promise!Init  OBVIOUS
  <2>1. ASSUME NEW j \in MailJob PROVE Outcome(j) \in {"none", "open"}
    <3>1. job[j].state \in {"none", "queued"}
      <4>1. Unwritten.state = "none" /\ [Unwritten EXCEPT !.state = "queued", !.print = FingerprintOf(ws)].state = "queued"
        BY DEF Unwritten
      <4>. QED  BY <4>1, NoJobIsNone DEF Init
    <3>. QED  BY <3>1 DEF Outcome, Open
  <2>. QED  BY <2>1 DEF Init, Promise!Init
<1>2. Inv /\ [Next]_vars => [Promise!Next]_<<abstract, mails>>
  <2>. SUFFICES ASSUME Inv, [Next]_vars, ~UNCHANGED <<abstract, mails>> PROVE Promise!Next
    OBVIOUS
  <2>1. CASE UNCHANGED <<job, mails>>
    <3>1. abstract' = abstract  BY <2>1 DEF Outcome, Open
    <3>. QED  BY <2>1, <3>1
  <2>2. CASE Extend \/ Convert \/ Release \/ EnqueueExpired
    <3>1. UNCHANGED mails /\ \E w \in Workspace, event \in Event : Plan(w, event)
      <4>1. ws' \in Workspace /\ ws \in Workspace
        BY <2>2, DecisionKeepsInv, ReminderKeepsInv DEF Inv, Types
      <4>. QED  BY <2>2, <4>1 DEF Extend, Convert, Release, Decide, EnqueueExpired, sending, Event, OwnerEvent
    <3>2. PICK w \in Workspace, event \in Event : Plan(w, event)  BY <3>1
    <3>3. job' \in [JobId -> Job]
          /\ \A j \in JobId : job'[j] = job[j] \/ (job[j].state = "none" /\ job'[j].state = "queued")
      BY <3>2, PlanFacts DEF Inv
    <3>4. \A j \in MailJob : JobStep(j) \/ (job[j].state = "none" /\ job'[j].state = "queued")
      BY <3>3, NoJobIsNone DEF JobStep
    <3>. QED  BY <3>1, <3>3, <3>4, JobsImplement DEF Promise!Next
  <2>3. ASSUME NEW r \in Runner, MakeClaim(r) \/ Replay(r) \/ Acknowledge(r)
        PROVE  Promise!Next
    <3>1. /\ UNCHANGED mails /\ job' \in [JobId -> Job]
          /\ \A j \in JobId : JobStep(j)
      BY <2>3, ClaimJobs, ReplayJobs, AcknowledgeJobs DEF MakeClaim, Replay, Acknowledge, sending
    <3>. QED  BY <3>1, NoJobIsNone, JobsImplement DEF Promise!Next
  <2>4. ASSUME NEW r \in Runner, NEW took \in BOOLEAN, NEW told \in BOOLEAN, Send(r, took, told)
        PROVE  Promise!Next
    <3>. DEFINE j == run[r].job
    <3>1. run[r].step = "send" /\ run[r].step \in Holding  BY <2>4 DEF Send, At, Holding
    <3>2. j \in MailJob /\ JobInv(j) /\ RunInv(r)  BY <3>1, InHand
    <3>3. mails[j] = 0 /\ job[j].state \in {"sending", "sent", "unknown"}
          /\ delivery[j].state \in {"sending", "unknown"}
      BY <3>1, <3>2 DEF RunInv, JobInv
    <3>4. job[j].state \in {"sending", "unknown"}  BY <3>2, <3>3 DEF JobInv
    <3>5. abstract[j] \in {"open", "unknown"}  BY <3>2, <3>4 DEF Outcome, Open
    <3>6. abstract' = abstract  BY <2>4 DEF Send, queue, Outcome, Open
    <3>7. mails' = [mails EXCEPT ![j] = IF took THEN @ + 1 ELSE @]  BY <2>4 DEF Send
    <3>8. took /\ mails' = [mails EXCEPT ![j] = 1]
      <4>1. CASE took  BY <3>2, <3>3, <3>7, <4>1 DEF Inv, Types
      <4>2. CASE ~took
        <5>1. mails' = mails  BY <3>2, <3>7, <4>2 DEF Inv, Types
        <5>. QED  BY <3>6, <5>1
      <4>. QED  BY <4>1, <4>2
    <3>. QED  BY <3>2, <3>3, <3>5, <3>6, <3>8 DEF Promise!Mail, Promise!Next
  <2>5. ASSUME NEW r \in Runner, Works(r) \/ Fail(r),
               ~(MakeClaim(r) \/ Replay(r) \/ Acknowledge(r)),
               ~(\E took, told \in BOOLEAN : Send(r, took, told))
        PROVE  UNCHANGED <<job, mails>>
    BY <2>5 DEF Works, Fail, Start, TakeCursor, NewAttempt, NothingNew, AwaitSender, Interrupted, ResumeAck, GiveUp,
                PlanDispatch, Dispatch, DispatchConflict, Accepted, Uncertain, RecordAnswer,
                SettleDelivery, FinishCursor, queue, sending
  <2>6. CASE Revise \/ Revoke \/ DeadlinePasses \/ TimePasses
    <3>1. UNCHANGED <<job, mails>>
      BY <2>6 DEF Revise, Revoke, DeadlinePasses, TimePasses, ClaimAges, DispatchAges, queue, sending
    <3>. QED  BY <2>1, <3>1
  <2>7. CASE UNCHANGED vars  BY <2>1, <2>7 DEF vars
  <2>. QED  BY <2>1, <2>2, <2>3, <2>4, <2>5, <2>6, <2>7 DEF Next
<1>. QED  BY <1>1, <1>2, InvAlways, PTL DEF Spec, KeepsPromise, Promise!Spec
=============================================================================
