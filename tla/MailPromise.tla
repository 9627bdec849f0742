---------------------------- MODULE MailPromise ----------------------------
(* What the notification outbox promises for each e-mail job: one call of the   *)
(* provider at most, an outcome that says what happened, and no way back from   *)
(* an outcome to an open job.                                                   *)
EXTENDS Naturals

CONSTANT Job

VARIABLES
  outcome,  \* what the outbox says of each job; an open job is queued or claimed
  mails     \* calls of the e-mail provider made for each job

Outcome == {"none", "open", "sent", "failed", "unknown"}

Init ==
  /\ outcome \in [Job -> {"none", "open"}]
  /\ mails = [j \in Job |-> 0]

\* Only a mail that went out may be called sent, only one that never will may be called failed.
May(j, o) ==
  \/ outcome[j] = "none" /\ o = "open"
  \/ outcome[j] = "open" /\ o = "unknown"
  \/ outcome[j] = "open" /\ o = "failed" /\ mails[j] = 0
  \/ outcome[j] \in {"open", "unknown"} /\ o = "sent" /\ mails[j] = 1

\* One commit may offer or settle several jobs.
Record ==
  /\ outcome' \in [Job -> Outcome]
  /\ \A j \in Job : outcome'[j] = outcome[j] \/ May(j, outcome'[j])
  /\ UNCHANGED mails

\* A stalled sender may still mail a job that was given up as unknown.
Mail(j) ==
  /\ outcome[j] \in {"open", "unknown"}
  /\ mails[j] = 0
  /\ mails' = [mails EXCEPT ![j] = 1]
  /\ UNCHANGED outcome

Next == Record \/ \E j \in Job : Mail(j)

Spec == Init /\ [][Next]_<<outcome, mails>>
=============================================================================
