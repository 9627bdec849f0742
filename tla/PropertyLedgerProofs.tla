------------------------- MODULE PropertyLedgerProofs -------------------------
(* Theorems about PropertyLedger, for every set of nights, bookings, requests. *)
EXTENDS PropertyLedger, PropertyRequestsProofs

\* The ledger's variables keep their types.
THEOREM LedgerTypeCorrect == LedgerSpec => []LedgerTypeOK
<1>1. NewDocument \in Document  BY DEF NewDocument, Document
<1>2. LedgerInit => LedgerTypeOK  BY <1>1 DEF LedgerInit, LedgerTypeOK, Answer
<1>3. LedgerTypeOK /\ [LedgerNext]_ledgerVars => LedgerTypeOK'
  <2>. SUFFICES ASSUME LedgerTypeOK, [LedgerNext]_ledgerVars PROVE LedgerTypeOK'
    OBVIOUS
  <2>. USE DEF LedgerTypeOK, Answer
  <2>1. ASSUME NEW r \in Request, Apply(r) PROVE LedgerTypeOK'
    BY <2>1, AfterType DEF Apply, Say
  <2>2. ASSUME NEW r \in Request, Replay(r) \/ Refuse(r) \/ Fail(r) PROVE LedgerTypeOK'
    BY <2>2 DEF Replay, Refuse, Fail, Say
  <2>3. CASE Deliver
    <3>1. doc.receipts \in Seq(Request)  BY DEF Document
    <3>. QED  BY <2>3, <3>1 DEF Deliver
  <2>4. CASE UNCHANGED ledgerVars  BY <2>4 DEF ledgerVars
  <2>. QED  BY <2>1, <2>2, <2>3, <2>4 DEF LedgerNext
<1>. QED  BY <1>2, <1>3, PTL DEF LedgerSpec

\* The last room has one winner: no night belongs to two bookings in force (hasConflict).
THEOREM NoNightSoldTwiceAlways == LedgerSpec => []NoNightSoldTwice
<1>1. LedgerInit => NoNightSoldTwice
  BY DEF LedgerInit, NewDocument, NoNightSoldTwice, Occupying
<1>2. LedgerTypeOK /\ NoNightSoldTwice /\ [LedgerNext]_ledgerVars => NoNightSoldTwice'
  <2>. SUFFICES ASSUME LedgerTypeOK, NoNightSoldTwice, [LedgerNext]_ledgerVars
                PROVE  NoNightSoldTwice'
    OBVIOUS
  <2>1. ASSUME NEW r \in Request, Apply(r) PROVE NoNightSoldTwice'
    <3>1. doc \in Document /\ doc' = After(doc, r) /\ Accepts(doc, r)
      BY <2>1 DEF LedgerTypeOK, Apply
    <3>2. SoldOnce(doc)  BY DEF NoNightSoldTwice, SoldOnce
    <3>3. SoldOnce(doc')  BY <3>1, <3>2, AcceptedSoldOnce
    <3>. QED  BY <3>3 DEF NoNightSoldTwice, SoldOnce
  <2>2. CASE doc' = doc  BY <2>2 DEF NoNightSoldTwice, Occupying
  <2>. QED  BY <2>1, <2>2 DEF LedgerNext, ledgerVars, Replay, Refuse, Fail, Deliver
<1>. QED  BY <1>1, <1>2, LedgerTypeCorrect, PTL DEF LedgerSpec

\* A recorded payment is behind the version its booking has now; that is why a second one
\* for the same version finds the booking moved.
PaidBelow ==
  \A i \in DOMAIN doc.receipts :
    Input[doc.receipts[i]].kind = "pay"
      => Input[doc.receipts[i]].expects < doc.rev[Input[doc.receipts[i]].booking]

\* Of the payments submitted against one version of a booking at most one is recorded.
THEOREM OnePaymentAlways == LedgerSpec => []OnePaymentPerRevision
<1>. DEFINE Inv == PaidBelow /\ OnePaymentPerRevision
<1>1. LedgerInit => Inv
  BY DEF LedgerInit, NewDocument, PaidBelow, OnePaymentPerRevision
<1>2. LedgerTypeOK /\ Inv /\ [LedgerNext]_ledgerVars => Inv'
  <2>. SUFFICES ASSUME LedgerTypeOK, Inv, [LedgerNext]_ledgerVars PROVE Inv'
    OBVIOUS
  <2>1. ASSUME NEW r \in Request, Apply(r) PROVE Inv'
    <3>. DEFINE n == Len(doc.receipts)
                x == Input[r]
    <3>1. doc \in Document /\ doc' = After(doc, r) /\ Accepts(doc, r)
      BY <2>1 DEF LedgerTypeOK, Apply
    <3>2. doc.receipts \in Seq(Request) /\ doc.rev \in [Booking -> Nat]
      BY <3>1 DEF Document
    <3>3. /\ n \in Nat
          /\ DOMAIN doc'.receipts = 1..(n + 1) /\ DOMAIN doc.receipts = 1..n
          /\ doc'.receipts[n + 1] = r
          /\ \A i \in 1..n : doc'.receipts[i] = doc.receipts[i]
      <4>1. doc' \in Document /\ Len(doc'.receipts) = n + 1
            /\ doc'.receipts[n + 1] = r /\ \A i \in 1..n : doc'.receipts[i] = doc.receipts[i]
        BY <3>1, AfterType
      <4>2. doc'.receipts \in Seq(Request)  BY <4>1 DEF Document
      <4>. QED  BY <3>2, <4>1, <4>2
    <3>4. \A q \in Request : Input[q].booking \in Booking /\ Input[q].expects \in Nat
      BY InputAssumption DEF RequestInput
    <3>5. doc'.rev = [doc.rev EXCEPT ![x.booking] = doc.rev[x.booking] + 1]
      BY <3>1, AfterParts
    <3>6. x.kind = "pay" => doc.rev[x.booking] = x.expects
      BY <3>1 DEF Accepts, CreateFits, CancelFits, PayFits
    <3>7. \A b \in Booking : doc.rev[b] \in Nat /\ doc'.rev[b] \in Nat /\ doc.rev[b] <= doc'.rev[b]
      BY <3>2, <3>4, <3>5
    <3>8. doc'.rev[x.booking] = doc.rev[x.booking] + 1  BY <3>2, <3>4, <3>5
    <3>9. \A i \in 1..n : doc.receipts[i] \in Request  BY <3>2
    <3>. HIDE DEF n, x
    <3>10. PaidBelow'
      <4>. SUFFICES ASSUME NEW i \in 1..(n + 1), Input[doc'.receipts[i]].kind = "pay"
                    PROVE  Input[doc'.receipts[i]].expects < doc'.rev[Input[doc'.receipts[i]].booking]
        BY <3>3 DEF PaidBelow
      <4>1. CASE i \in 1..n
        <5>1. doc'.receipts[i] = doc.receipts[i] /\ doc.receipts[i] \in Request
          BY <4>1, <3>3, <3>9
        <5>2. Input[doc.receipts[i]].expects < doc.rev[Input[doc.receipts[i]].booking]
          BY <4>1, <5>1, <3>3 DEF PaidBelow
        <5>. QED  BY <5>1, <5>2, <3>4, <3>7
      <4>2. CASE i = n + 1
        BY <4>2, <3>3, <3>4, <3>6, <3>7, <3>8 DEF x
      <4>. QED  BY <4>1, <4>2, <3>3
    <3>11. OnePaymentPerRevision'
      <4>1. \A i \in 1..n : Input[doc.receipts[i]].kind = "pay" /\ x.kind = "pay"
              /\ Input[doc.receipts[i]].booking = x.booking
              => Input[doc.receipts[i]].expects # x.expects
        BY <3>3, <3>4, <3>6, <3>7, <3>9 DEF PaidBelow, x
      <4>2. \A i \in 1..(n + 1) : i \in 1..n \/ i = n + 1  BY <3>3
      <4>3. \A i, j \in 1..n : /\ Input[doc.receipts[i]].kind = "pay"
                               /\ Input[doc.receipts[j]].kind = "pay"
                               /\ Input[doc.receipts[i]].booking = Input[doc.receipts[j]].booking
                               /\ Input[doc.receipts[i]].expects = Input[doc.receipts[j]].expects
                               => i = j
        BY <3>3 DEF OnePaymentPerRevision
      <4>. QED  BY <3>3, <4>1, <4>2, <4>3 DEF OnePaymentPerRevision, x
    <3>. QED  BY <3>10, <3>11
  <2>2. CASE doc' = doc  BY <2>2 DEF OnePaymentPerRevision, PaidBelow
  <2>. QED  BY <2>1, <2>2 DEF LedgerNext, ledgerVars, Replay, Refuse, Fail, Deliver
<1>. QED  BY <1>1, <1>2, LedgerTypeCorrect, PTL DEF LedgerSpec

\* No retry of a request that took effect is told that it was refused.
THEOREM RefusedWasNotAppliedAlways == LedgerSpec => RefusedWasNotApplied
<1>. DEFINE Step == \A r \in Request :
              said'[r] = "refused" /\ said[r] # "refused" => r \notin Receipted(doc')
<1>1. LedgerTypeOK /\ [LedgerNext]_ledgerVars => [Step]_ledgerVars
  <2>. SUFFICES ASSUME LedgerTypeOK, LedgerNext, NEW r \in Request,
                       said'[r] = "refused", said[r] # "refused"
                PROVE  r \notin Receipted(doc')
    OBVIOUS
  <2>1. said \in [Request -> Answer]  BY DEF LedgerTypeOK
  <2>2. ASSUME NEW q \in Request, Refuse(q) PROVE r \notin Receipted(doc')
    <3>1. q = r /\ doc' = doc /\ r \notin Receipted(doc)
      BY <2>1, <2>2 DEF Refuse, Say, Refuses, Replays
    <3>. QED  BY <3>1
  <2>3. \A q \in Request : ~Apply(q) /\ ~Replay(q) /\ ~Fail(q)
    BY <2>1 DEF Apply, Replay, Fail, Say
  <2>4. ~Deliver  BY DEF Deliver
  <2>. QED  BY <2>2, <2>3, <2>4 DEF LedgerNext
<1>. QED  BY <1>1, LedgerTypeCorrect, PTL DEF LedgerSpec, RefusedWasNotApplied

\* What was answered as done stays in the document.
THEOREM AnsweredIsDurableAlways == LedgerSpec => []AnsweredIsDurable
<1>1. LedgerInit => AnsweredIsDurable  BY DEF LedgerInit, AnsweredIsDurable
<1>2. LedgerTypeOK /\ AnsweredIsDurable /\ [LedgerNext]_ledgerVars => AnsweredIsDurable'
  <2>. SUFFICES ASSUME LedgerTypeOK, AnsweredIsDurable, [LedgerNext]_ledgerVars
                PROVE  AnsweredIsDurable'
    OBVIOUS
  <2>. USE DEF AnsweredIsDurable
  <2>1. said \in [Request -> Answer] /\ doc \in Document  BY DEF LedgerTypeOK
  <2>2. ASSUME NEW r \in Request, Apply(r) PROVE AnsweredIsDurable'
    <3>1. Receipted(doc') = Receipted(doc) \cup {r}  BY <2>1, <2>2, ReceiptsGrow DEF Apply
    <3>2. \A q \in Request \ {r} : said'[q] = said[q]  BY <2>1, <2>2 DEF Apply, Say
    <3>. QED  BY <3>1, <3>2
  <2>3. ASSUME NEW r \in Request, Replay(r) \/ Refuse(r) \/ Fail(r) PROVE AnsweredIsDurable'
    <3>1. doc' = doc /\ \A q \in Request \ {r} : said'[q] = said[q]
      BY <2>1, <2>3 DEF Replay, Refuse, Fail, Say
    <3>2. said'[r] = "done" => r \in Receipted(doc)
      BY <2>1, <2>3 DEF Replay, Replays, Refuse, Fail, Say
    <3>. QED  BY <3>1, <3>2
  <2>4. CASE Deliver \/ UNCHANGED ledgerVars  BY <2>4 DEF Deliver, ledgerVars
  <2>. QED  BY <2>2, <2>3, <2>4 DEF LedgerNext
<1>. QED  BY <1>1, <1>2, LedgerTypeCorrect, PTL DEF LedgerSpec

\* The feed shows the accepted requests in order, none missing and none twice.
THEOREM FeedIsPrefixAlways == LedgerSpec => []FeedIsPrefix
<1>1. LedgerInit => FeedIsPrefix  BY DEF LedgerInit, NewDocument, FeedIsPrefix
<1>2. LedgerTypeOK /\ FeedIsPrefix /\ [LedgerNext]_ledgerVars => FeedIsPrefix'
  <2>. SUFFICES ASSUME LedgerTypeOK, FeedIsPrefix, [LedgerNext]_ledgerVars PROVE FeedIsPrefix'
    OBVIOUS
  <2>1. doc \in Document /\ doc.receipts \in Seq(Request) /\ got \in Seq(Request)
    BY DEF LedgerTypeOK, Document
  <2>2. ASSUME NEW r \in Request, Apply(r) PROVE FeedIsPrefix'
    <3>1. doc' = After(doc, r) /\ got' = got  BY <2>2 DEF Apply
    <3>2. Len(doc'.receipts) = Len(doc.receipts) + 1
          /\ \A i \in 1..Len(doc.receipts) : doc'.receipts[i] = doc.receipts[i]
      BY <2>1, <3>1, AfterType
    <3>. QED  BY <2>1, <3>1, <3>2 DEF FeedIsPrefix
  <2>3. CASE Deliver
    <3>1. got' = Append(got, doc.receipts[Len(got) + 1]) /\ doc' = doc
          /\ Len(got) < Len(doc.receipts)
      BY <2>3 DEF Deliver
    <3>2. doc.receipts[Len(got) + 1] \in Request  BY <2>1, <3>1
    <3>3. Len(got') = Len(got) + 1 /\ got'[Len(got) + 1] = doc.receipts[Len(got) + 1]
          /\ DOMAIN got' = 1..(Len(got) + 1) /\ DOMAIN got = 1..Len(got)
          /\ \A i \in 1..Len(got) : got'[i] = got[i]
      BY <2>1, <3>1, <3>2
    <3>. QED  BY <2>1, <3>1, <3>3 DEF FeedIsPrefix
  <2>4. CASE UNCHANGED <<doc, got>>  BY <2>4 DEF FeedIsPrefix
  <2>. QED  BY <2>2, <2>3, <2>4 DEF LedgerNext, ledgerVars, Replay, Refuse, Fail
<1>. QED  BY <1>1, <1>2, LedgerTypeCorrect, PTL DEF LedgerSpec
=============================================================================
