---------------------------- MODULE PropertyLedger ----------------------------
(* What the property store promises to the service, its callers and the readers *)
(* of its event feed: every request takes effect at once and at most once, an   *)
(* answer tells the truth, and the feed shows the accepted requests in order.   *)
EXTENDS PropertyRequests

VARIABLES
  doc,    \* the property's document
  said,   \* the last answer to each request
  got     \* what a reader of the feed has received, in order

ledgerVars == <<doc, said, got>>

Answer == {"none", "done", "refused", "unknown"}

LedgerTypeOK ==
  /\ doc \in Document
  /\ said \in [Request -> Answer]
  /\ got \in Seq(Request)

LedgerInit ==
  /\ doc = NewDocument
  /\ said = [r \in Request |-> "none"]
  /\ got = <<>>

Say(r, a) == said' = [said EXCEPT ![r] = a]

\* The request takes effect; its answer may be lost.
Apply(r) ==
  /\ Accepts(doc, r)
  /\ doc' = After(doc, r)
  /\ Say(r, "done") \/ Say(r, "unknown")
  /\ UNCHANGED got

\* A request that already took effect gets its receipt again.
Replay(r) ==
  /\ Replays(doc, r)
  /\ Say(r, "done")
  /\ UNCHANGED <<doc, got>>

Refuse(r) ==
  /\ Refuses(doc, r)
  /\ Say(r, "refused")
  /\ UNCHANGED <<doc, got>>

\* An error that tells the caller nothing.
Fail(r) ==
  /\ Say(r, "unknown")
  /\ UNCHANGED <<doc, got>>

Deliver ==
  /\ Len(got) < Len(doc.receipts)
  /\ got' = Append(got, doc.receipts[Len(got) + 1])
  /\ UNCHANGED <<doc, said>>

LedgerNext == Deliver \/ \E r \in Request : Apply(r) \/ Replay(r) \/ Refuse(r) \/ Fail(r)

LedgerSpec == LedgerInit /\ [][LedgerNext]_ledgerVars

-----------------------------------------------------------------------------
\* No room night belongs to two bookings that are still in force (hasConflict, and
\* "commits one last-room winner" of tests/postgres-repository.test.mjs).
NoNightSoldTwice ==
  \A a, b \in Occupying(doc) : a # b => doc.stay[a] \cap doc.stay[b] = {}

\* Of the payments a caller submitted against one version of a booking, under however
\* many request keys, at most one is recorded.
OnePaymentPerRevision ==
  \A i, j \in DOMAIN doc.receipts :
    /\ Input[doc.receipts[i]].kind = "pay"
    /\ Input[doc.receipts[j]].kind = "pay"
    /\ Input[doc.receipts[i]].booking = Input[doc.receipts[j]].booking
    /\ Input[doc.receipts[i]].expects = Input[doc.receipts[j]].expects
    => i = j

\* A request that took effect is never answered with a refusal, whatever its retries met.
RefusedWasNotApplied ==
  [][\A r \in Request :
       said'[r] = "refused" /\ said[r] # "refused" => r \notin Receipted(doc')]_ledgerVars

\* What was answered as done is in the document for good.
AnsweredIsDurable == \A r \in Request : said[r] = "done" => r \in Receipted(doc)

\* The feed shows the accepted requests in the order in which they took effect, with
\* none missing and none twice.
FeedIsPrefix ==
  /\ Len(got) <= Len(doc.receipts)
  /\ \A i \in DOMAIN got : got[i] = doc.receipts[i]
=============================================================================
