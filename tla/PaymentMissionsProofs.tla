------------------------ MODULE PaymentMissionsProofs ------------------------
(* For any orders, missions and requests, however people, agents and the source *)
(* of the orders interleave: a receipt is written once, for what was asked and  *)
(* confirmed, a blocked mission has its inquiry, and the missions keep          *)
(* PaymentPromise.                                                              *)
EXTENDS PaymentMissions, FiniteSetTheorems, WellFoundedInduction, TLAPS

-----------------------------------------------------------------------------
(* The inductive invariant.                                                     *)

\* The receipts a mission has in the ledger, and its open inquiries.
Own(m) == {r \in ledger : r.mission = m}
Pending(m) == {i \in 1..Len(inquiry) : /\ inquiry[i].parent = m
                                       /\ inquiry[i].status = "waiting_user"}

\* What a query says beyond what was asked narrows it down.
Narrows(q, asked) == /\ asked.order \in {Anything, q.order}
                     /\ asked.guest \in {Anything, q.guest}

\* What record, receipts, open inquiries and last confirmed view of a mission have to do with
\* one another: a confirmation is one of the very snapshot that stands.
Consistent(rec, own, pending, view) ==
  /\ rec.step = "update_order" => rec.snapshot # None
  /\ rec.step = "check_order" => rec.confirmed = Unconfirmed
  /\ rec.confirmed # Unconfirmed =>
       rec.snapshot # None /\ view = rec.snapshot /\ rec.confirmed = rec.snapshot.row.version
  /\ Narrows(rec.query, rec.request.query)
  /\ own = IF rec.written = None THEN {} ELSE {rec.written}
  /\ rec.written = None => rec.step # "verify_order" /\ rec.status # "completed"
  /\ rec.written # None =>
       /\ rec.snapshot # None
       /\ rec.written.version = rec.snapshot.row.version + 1
       /\ rec.status # "canceled"
       /\ rec.step = "verify_order" \/ (rec.step = "done" /\ rec.status = "completed")
  /\ IF rec.status = "blocked" THEN pending = {rec.blockedBy}
     ELSE pending = {} /\ rec.blockedBy = Unblocked

MissionInv(m) ==
  IF mission[m] = None THEN Own(m) = {} /\ Pending(m) = {}
  ELSE Consistent(mission[m], Own(m), Pending(m), approved[m])

\* TypeOK but for the range of blockedBy, which follows from MissionInv.
Types ==
  /\ state \in [sandbox: BOOLEAN, writes: BOOLEAN, direct: BOOLEAN]
  /\ order \in [Order -> Row]
  /\ fresh \subseteq Order
  /\ ledger \subseteq Receipt
  /\ mission \in [Mission -> MissionRecord \cup {None}]
  /\ inquiry \in Seq(Inquiry)
  /\ approved \in [Mission -> Snapshot \cup {None}]
  /\ changes \in 0..MaxChanges

\* No receipt is of a version its order has not reached.
VersionsReached == \A r \in ledger : r.version <= order[r.order].version

Inv == Types /\ (\A m \in Mission : MissionInv(m)) /\ VersionsReached

-----------------------------------------------------------------------------
(* Facts about the operators.                                                   *)

\* A unique match is one active order without a rival, seen as it is.
LEMMA UniqueMatch ==
  ASSUME Types, NEW q, CheckOrder(q).status = "unique_match"
  PROVE  \E o \in Order : /\ CheckOrder(q).view = View(o)
                          /\ View(o) \in Snapshot
                          /\ o \in Matches(q)
                          /\ Active(o)
                          /\ Rivals(o) = {}
<1>. DEFINE only == CHOOSE o \in Matches(q) : TRUE
<1>1. /\ Matches(q) = {only}
      /\ ~Conflicting(Matches(q))
      /\ CheckOrder(q).view = View(only)
  BY DEF CheckOrder
<1>2. only \in Order /\ Active(only) /\ only \in Matches(q)  BY <1>1 DEF Matches
<1>3. Rivals(only) = {}  BY <1>1 DEF Conflicting
<1>4. View(only) \in Snapshot
  <2>1. order[only] \in Row /\ ReceiptsOf(only) \subseteq Receipt
    BY <1>2 DEF Types, ReceiptsOf
  <2>. QED  BY <1>2, <2>1 DEF View, Snapshot
<1>. QED  BY <1>1, <1>2, <1>3, <1>4

\* A check has one of the five outcomes.
LEMMA CheckType ==
  ASSUME NEW q
  PROVE  CheckOrder(q).status \in Checked
BY DEF CheckOrder, Checked

\* Narrowed criteria are met only where those asked for are.
LEMMA NarrowMatches ==
  ASSUME NEW q, NEW asked, Narrows(q, asked), NEW o \in Matches(q), Types,
         q \in Query
  PROVE  o \in Matches(asked)
<1>1. o \in Order /\ Active(o) /\ q.order \in {Anything, o}
      /\ q.guest \in {Anything, order[o].is.guest}
  BY DEF Matches
<1>2. asked.order \in {Anything, o} /\ asked.guest \in {Anything, order[o].is.guest}
  BY <1>1 DEF Narrows
<1>. QED  BY <1>1, <1>2 DEF Matches

\* An existing mission is a record, and its request is one of those that may be asked.
LEMMA RecordType ==
  ASSUME Types, NEW m \in Mission, Exists(m)
  PROVE  /\ mission[m] \in MissionRecord
         /\ mission[m].request \in Request
         /\ mission[m].request.amount \in Nat
         /\ mission[m].query \in Query
<1>1. mission[m] \in MissionRecord  BY DEF Types, Exists
<1>2. mission[m].request \in Request /\ mission[m].query \in Query  BY <1>1 DEF MissionRecord
<1>3. mission[m].request.amount \in Nat  BY <1>2, PaymentAssumption
<1>. QED  BY <1>1, <1>2, <1>3

-----------------------------------------------------------------------------
(* A step of one mission.                                                       *)

\* What one mission does leaves the others as they are.
LEMMA OneMission ==
  ASSUME Inv, NEW m \in Mission, NEW new \in MissionRecord,
         Save(m, new),
         \A x \in Mission \ {m} : /\ Own(x)' = Own(x)
                                  /\ Pending(x)' = Pending(x)
                                  /\ approved'[x] = approved[x],
         Consistent(new, Own(m)', Pending(m)', approved'[m])
  PROVE  /\ mission' \in [Mission -> MissionRecord \cup {None}]
         /\ \A x \in Mission : MissionInv(x)'
<1>1. mission' \in [Mission -> MissionRecord \cup {None}]  BY DEF Inv, Types, Save
<1>2. mission'[m] = new /\ mission'[m] # None
  BY NoneAssumption DEF Inv, Types, Save
<1>3. MissionInv(m)'  BY <1>2 DEF MissionInv
<1>4. ASSUME NEW x \in Mission \ {m}  PROVE MissionInv(x)'
  <2>1. mission'[x] = mission[x]  BY DEF Inv, Types, Save
  <2>2. MissionInv(x)  BY DEF Inv
  <2>. QED  BY <2>1, <2>2 DEF MissionInv
<1>. QED  BY <1>1, <1>3, <1>4

\* A step that leaves ledger, inquiries and confirmations alone.
LEMMA OneRecord ==
  ASSUME Inv, NEW m \in Mission, NEW new \in MissionRecord, Save(m, new),
         UNCHANGED <<ledger, inquiry, approved>>,
         Consistent(new, Own(m), Pending(m), approved[m])
  PROVE  /\ mission' \in [Mission -> MissionRecord \cup {None}]
         /\ \A x \in Mission : MissionInv(x)'
<1>1. \A x \in Mission : Own(x)' = Own(x) /\ Pending(x)' = Pending(x)
                         /\ approved'[x] = approved[x]
  BY DEF Own, Pending
<1>. QED  BY <1>1, OneMission

\* An inquiry is opened about a mission and the mission points at it.
LEMMA BlockKeeps ==
  ASSUME Inv, NEW m \in Mission, Open(m), NEW result \in Result, Block(m, result),
         UNCHANGED <<ledger, approved>>
  PROVE  /\ mission' \in [Mission -> MissionRecord \cup {None}]
         /\ inquiry' \in Seq(Inquiry)
         /\ \A x \in Mission : MissionInv(x)'
<1>. DEFINE child == [parent |-> m, status |-> "waiting_user",
                      kind |-> IF mission[m].written # None THEN "verify_payment"
                               ELSE "investigate_order_conflict"]
            id == Len(inquiry) + 1
            new == [mission[m] EXCEPT !.status = "blocked", !.confirmed = Unconfirmed,
                                      !.blockedBy = id, !.result = result]
<1>1. inquiry \in Seq(Inquiry) /\ mission[m] \in MissionRecord /\ Exists(m)
  BY RecordType DEF Inv, Types, Open
<1>2. child \in Inquiry  BY DEF Inquiry
<1>3. inquiry' = Append(inquiry, child) /\ Save(m, new)  BY DEF Block
<1>4. /\ inquiry' \in Seq(Inquiry)
      /\ Len(inquiry') = id /\ inquiry'[id] = child
      /\ \A i \in 1..Len(inquiry) : inquiry'[i] = inquiry[i]
  BY <1>1, <1>2, <1>3
<1>5. Len(inquiry) \in Nat /\ id \in Nat /\ 1..id = 1..Len(inquiry) \cup {id}
  BY <1>1
<1>6. \A x \in Mission : Pending(x)' = Pending(x) \cup (IF x = m THEN {id} ELSE {})
  BY <1>4, <1>5 DEF Pending
<1>7. new \in MissionRecord  BY <1>1, <1>5 DEF MissionRecord, Status, Unconfirmed
<1>8. Consistent(mission[m], Own(m), Pending(m), approved[m])
  BY <1>1 DEF Inv, MissionInv, Exists
<1>9. Pending(m) = {} /\ mission[m].status # "completed"  BY <1>8 DEF Consistent, Open
<1>10. Consistent(new, Own(m)', Pending(m)', approved'[m])
  <2>1. Own(m)' = Own(m) /\ Pending(m)' = {id}  BY <1>6, <1>9 DEF Own
  <2>2. /\ new.step = mission[m].step /\ new.snapshot = mission[m].snapshot
        /\ new.query = mission[m].query /\ new.request = mission[m].request
        /\ new.written = mission[m].written /\ new.status = "blocked"
        /\ new.confirmed = Unconfirmed /\ new.blockedBy = id
    BY <1>1 DEF MissionRecord
  <2>. QED  BY <1>8, <1>9, <2>1, <2>2 DEF Consistent
<1>11. \A x \in Mission \ {m} : /\ Own(x)' = Own(x) /\ Pending(x)' = Pending(x)
                                /\ approved'[x] = approved[x]
  BY <1>6 DEF Own
<1>. QED  BY <1>3, <1>4, <1>7, <1>10, <1>11, OneMission

\* The outcome of a check is accepted: at the first check, or over the same snapshot.
LEMMA AcceptKeeps ==
  ASSUME Inv, NEW m \in Mission, Open(m), NEW q,
         mission[m].written = None,
         \/ mission[m].step = "check_order"
         \/ CheckOrder(q).status # "unique_match"
         \/ CheckOrder(q).view = mission[m].snapshot,
         AcceptCheck(m, CheckOrder(q)),
         UNCHANGED <<ledger, approved>>
  PROVE  /\ mission' \in [Mission -> MissionRecord \cup {None}]
         /\ inquiry' \in Seq(Inquiry)
         /\ \A x \in Mission : MissionInv(x)'
<1>. DEFINE check == CheckOrder(q)
<1>1. /\ mission[m] \in MissionRecord /\ Exists(m) /\ inquiry \in Seq(Inquiry)
      /\ Consistent(mission[m], Own(m), Pending(m), approved[m])
  BY RecordType DEF Inv, Types, Open, MissionInv, Exists
<1>2. mission[m].status \notin {"blocked", "completed", "canceled"}
  BY DEF Open
<1>3. check.status \in Checked  BY CheckType
<1>4. CASE check.status = "unique_match"
  <2>. DEFINE waits == ConfirmationDue(m, check.view.row) /\ ~Approved(m, check.view.row)
              new == [mission[m] EXCEPT !.snapshot = check.view, !.step = "update_order",
                                        !.status = IF waits THEN "waiting_user" ELSE "queued",
                                        !.result = "unique_match"]
  <2>1. check.view \in Snapshot  BY <1>4, UniqueMatch DEF Inv
  <2>2. Save(m, new) /\ inquiry' = inquiry  BY <1>4 DEF AcceptCheck
  <2>3. new \in MissionRecord  BY <1>1, <2>1 DEF MissionRecord, Status, Step, Result, Checked
  <2>4. /\ new.snapshot = check.view /\ new.step = "update_order"
        /\ new.status \in {"waiting_user", "queued"}
        /\ new.confirmed = mission[m].confirmed /\ new.query = mission[m].query
        /\ new.request = mission[m].request /\ new.written = None
        /\ new.blockedBy = mission[m].blockedBy
    BY <1>1 DEF MissionRecord
  <2>5. mission[m].confirmed # Unconfirmed => check.view = mission[m].snapshot
    BY <1>1, <1>4 DEF Consistent
  <2>6. check.view # None  BY <2>1, NoneAssumption
  <2>7. Consistent(new, Own(m), Pending(m), approved[m])
    BY <1>1, <1>2, <2>4, <2>5, <2>6 DEF Consistent
  <2>8. UNCHANGED <<ledger, inquiry, approved>>  BY <2>2
  <2>. QED  BY <1>1, <2>2, <2>3, <2>7, <2>8, OneRecord
<1>5. CASE check.status = "data_integrity_conflict"
  <2>1. Block(m, check.status)  BY <1>5 DEF AcceptCheck
  <2>2. check.status \in Result  BY <1>3 DEF Result
  <2>. QED  BY <2>1, <2>2, BlockKeeps
<1>6. ASSUME check.status \notin {"unique_match", "data_integrity_conflict"}
      PROVE  /\ mission' \in [Mission -> MissionRecord \cup {None}]
             /\ inquiry' \in Seq(Inquiry)
             /\ \A x \in Mission : MissionInv(x)'
  <2>1. PICK status \in {"waiting_external", "waiting_user"} : Stop(m, status, check.status)
    BY <1>6 DEF AcceptCheck
  <2>2. inquiry' = inquiry  BY <1>6 DEF AcceptCheck
  <2>. DEFINE new == [mission[m] EXCEPT !.status = status, !.confirmed = Unconfirmed,
                                        !.result = check.status]
  <2>3. Save(m, new)  BY <2>1 DEF Stop
  <2>4. new \in MissionRecord
    BY <1>1, <1>3 DEF MissionRecord, Status, Result, Unconfirmed
  <2>5. /\ new.snapshot = mission[m].snapshot /\ new.step = mission[m].step
        /\ new.status = status
        /\ new.confirmed = Unconfirmed /\ new.query = mission[m].query
        /\ new.request = mission[m].request /\ new.written = None
        /\ new.blockedBy = mission[m].blockedBy
    BY <1>1 DEF MissionRecord
  <2>6. Consistent(new, Own(m), Pending(m), approved[m])
    BY <1>1, <1>2, <2>5 DEF Consistent
  <2>7. UNCHANGED <<ledger, inquiry, approved>>  BY <2>2
  <2>. QED  BY <1>1, <2>2, <2>3, <2>4, <2>6, <2>7, OneRecord
<1>. QED  BY <1>4, <1>5, <1>6

\* A version conflict sends a mission without a receipt back to its first check.
LEMMA ConflictKeeps ==
  ASSUME Inv, NEW m \in Mission, Open(m), mission[m].written = None,
         VersionConflict(m), UNCHANGED <<ledger, approved>>
  PROVE  /\ mission' \in [Mission -> MissionRecord \cup {None}]
         /\ inquiry' \in Seq(Inquiry)
         /\ \A x \in Mission : MissionInv(x)'
<1>. DEFINE new == [mission[m] EXCEPT !.status = "paused", !.step = "check_order",
                                      !.confirmed = Unconfirmed, !.result = "version_conflict"]
<1>1. /\ mission[m] \in MissionRecord /\ Exists(m) /\ inquiry \in Seq(Inquiry)
      /\ Consistent(mission[m], Own(m), Pending(m), approved[m])
  BY RecordType DEF Inv, Types, Open, MissionInv, Exists
<1>2. Save(m, new) /\ UNCHANGED <<ledger, inquiry, approved>>  BY DEF VersionConflict
<1>3. new \in MissionRecord
  BY <1>1 DEF MissionRecord, Status, Step, Result, Unconfirmed
<1>4. /\ new.snapshot = mission[m].snapshot /\ new.step = "check_order"
      /\ new.status = "paused"
      /\ new.confirmed = Unconfirmed /\ new.query = mission[m].query
      /\ new.request = mission[m].request /\ new.written = None
      /\ new.blockedBy = mission[m].blockedBy
  BY <1>1 DEF MissionRecord
<1>5. Consistent(new, Own(m), Pending(m), approved[m])  BY <1>1, <1>4 DEF Consistent, Open
<1>. QED  BY <1>1, <1>2, <1>3, <1>5, OneRecord

\* The ways update_order ends; a receipt is written only over the snapshot that was checked,
\* and confirmed if that is due.
LEMMA UpdateOutcomes ==
  ASSUME Inv, NEW m \in Mission, mission[m].step = "update_order", Open(m),
         NEW timely \in BOOLEAN, UpdateOrder(m, timely)
  PROVE  \/ /\ AcceptCheck(m, CheckOrder(mission[m].query))
            /\ \/ CheckOrder(mission[m].query).status # "unique_match"
               \/ CheckOrder(mission[m].query).view = mission[m].snapshot
            /\ UNCHANGED <<order, fresh, ledger>>
         \/ VersionConflict(m) /\ UNCHANGED <<order, fresh, ledger>>
         \/ \E status \in {"waiting_external", "waiting_user"},
               result \in {"source_unavailable", "validation_error"} :
              /\ Save(m, [mission[m] EXCEPT !.status = status, !.result = result])
              /\ UNCHANGED <<order, fresh, ledger, inquiry>>
         \/ Block(m, "data_integrity_conflict") /\ UNCHANGED <<order, fresh, ledger>>
         \/ \E o \in Order : /\ Record(m, o) /\ UNCHANGED inquiry
                             /\ View(o) = mission[m].snapshot /\ View(o) \in Snapshot
                             /\ o \in Matches(mission[m].query)
                             /\ Active(o) /\ Rivals(o) = {}
                             /\ Payable(o, mission[m].request.amount)
                             /\ ConfirmationDue(m, order[o]) => Approved(m, order[o])
<1>. DEFINE check == CheckOrder(mission[m].query)
<1>1. CASE check.status # "unique_match"
  BY <1>1 DEF UpdateOrder
<1>2. CASE check.status = "unique_match"
  <2>1. PICK o \in Order : /\ check.view = View(o) /\ View(o) \in Snapshot
                           /\ o \in Matches(mission[m].query) /\ Active(o) /\ Rivals(o) = {}
    BY <1>2, UniqueMatch DEF Inv
  <2>2. check.view.row = order[o] /\ check.view.order = o  BY <2>1 DEF View
  <2>3. CASE ~Same(check.view, mission[m].snapshot)
    BY <1>2, <2>3 DEF UpdateOrder
  <2>4. CASE Same(check.view, mission[m].snapshot)
    <3>1. check.view = mission[m].snapshot  BY <2>4 DEF Same
    <3>2. CASE ~state.writes
      BY <1>2, <2>4, <3>2 DEF UpdateOrder
    <3>3. CASE state.writes /\ ConfirmationDue(m, check.view.row) /\ ~Approved(m, check.view.row)
      BY <1>2, <2>4, <3>1, <3>3 DEF UpdateOrder
    <3>4. CASE state.writes /\ (ConfirmationDue(m, check.view.row) => Approved(m, check.view.row))
      <4>1. CASE ~(timely /\ Payable(check.view.order, mission[m].request.amount))
        BY <1>2, <2>4, <3>4, <4>1 DEF UpdateOrder
      <4>2. CASE /\ timely /\ Payable(check.view.order, mission[m].request.amount)
                 /\ \E r \in ledger : r.mission = m
        BY <1>2, <2>4, <3>4, <4>2 DEF UpdateOrder
      <4>3. CASE /\ timely /\ Payable(check.view.order, mission[m].request.amount)
                 /\ ~\E r \in ledger : r.mission = m
        <5>1. Record(m, o) /\ UNCHANGED inquiry
          BY <1>2, <2>2, <2>4, <3>4, <4>3 DEF UpdateOrder
        <5>. QED  BY <5>1, <2>1, <2>2, <3>1, <3>4, <4>3
      <4>. QED  BY <4>1, <4>2, <4>3
    <3>. QED  BY <3>2, <3>3, <3>4
  <2>. QED  BY <2>3, <2>4
<1>. QED  BY <1>1, <1>2

\* The receipt of a mission, as Record writes it.
NewReceipt(m, o) == [mission |-> m, order |-> o, amount |-> mission[m].request.amount,
                     version |-> order[o].version + 1]

\* A receipt is written for a mission that has none, over its snapshot.
LEMMA RecordKeeps ==
  ASSUME Inv, NEW m \in Mission, Open(m), mission[m].step = "update_order",
         NEW o \in Order, View(o) = mission[m].snapshot,
         Record(m, o), UNCHANGED <<state, inquiry, approved, changes>>
  PROVE  Inv' /\ mission[m].written = None /\ NewReceipts = {NewReceipt(m, o)}
<1>. DEFINE receipt == NewReceipt(m, o)
            new == [mission[m] EXCEPT !.status = "queued", !.step = "verify_order",
                                      !.written = receipt, !.result = "verification_pending"]
<1>1. /\ mission[m] \in MissionRecord /\ Exists(m) /\ mission[m].request.amount \in Nat
      /\ Consistent(mission[m], Own(m), Pending(m), approved[m])
  BY RecordType DEF Inv, Types, Open, MissionInv, Exists
<1>2. mission[m].written = None /\ Own(m) = {}  BY <1>1 DEF Consistent
<1>3. order[o] \in Row /\ order[o].version \in Nat \ {0} /\ order[o].checkedAt \in Nat
  BY DEF Inv, Types, Row
<1>4. receipt \in Receipt  BY <1>1, <1>3 DEF Receipt, NewReceipt
<1>5. /\ ledger' = ledger \cup {receipt}
      /\ order' = [order EXCEPT ![o].version = @ + 1, ![o].checkedAt = @ + 1]
      /\ fresh' = fresh \cup {o}
      /\ Save(m, new)
  BY DEF Record, NewReceipt
<1>6. receipt \notin ledger  BY <1>2 DEF Own, NewReceipt
<1>7. new \in MissionRecord  BY <1>1, <1>4 DEF MissionRecord, Status, Step, Result
<1>8. /\ new.snapshot = mission[m].snapshot /\ new.step = "verify_order"
      /\ new.status = "queued" /\ new.confirmed = mission[m].confirmed
      /\ new.query = mission[m].query /\ new.request = mission[m].request
      /\ new.written = receipt /\ new.blockedBy = mission[m].blockedBy
  BY <1>1 DEF MissionRecord
<1>9. receipt # None /\ mission[m].snapshot # None
      /\ receipt.version = mission[m].snapshot.row.version + 1
  BY <1>1, <1>4, NoneAssumption DEF NewReceipt, View, Consistent
<1>10. Own(m)' = {receipt}  BY <1>2, <1>5 DEF Own, NewReceipt
<1>11. \A x \in Mission : Pending(x)' = Pending(x)  BY DEF Pending
<1>12. Consistent(new, Own(m)', Pending(m)', approved'[m])
  BY <1>1, <1>8, <1>9, <1>10, <1>11 DEF Consistent, Open
<1>13. \A x \in Mission \ {m} : Own(x)' = Own(x)  BY <1>5 DEF Own, NewReceipt
<1>14. /\ mission' \in [Mission -> MissionRecord \cup {None}]
       /\ \A x \in Mission : MissionInv(x)'
  BY <1>5, <1>7, <1>11, <1>12, <1>13, OneMission
<1>15. /\ order' \in [Order -> Row]
       /\ \A x \in Order : order'[x].version = IF x = o THEN order[x].version + 1 ELSE order[x].version
  BY <1>3, <1>5 DEF Inv, Types, Row
<1>16. Types'  BY <1>4, <1>5, <1>14, <1>15 DEF Inv, Types
<1>17. VersionsReached'
  <2>. SUFFICES ASSUME NEW r \in ledger'  PROVE r.version <= order'[r.order].version
    BY DEF VersionsReached
  <2>1. CASE r = receipt  BY <1>3, <1>15, <2>1 DEF NewReceipt
  <2>2. CASE r \in ledger
    <3>1. r.order \in Order /\ r.version \in Nat /\ order[r.order].version \in Nat
          /\ r.version <= order[r.order].version
      BY <2>2 DEF Inv, Types, Receipt, Row, VersionsReached
    <3>. QED  BY <1>15, <3>1
  <2>. QED  BY <1>5, <2>1, <2>2
<1>18. NewReceipts = {receipt}  BY <1>5, <1>6 DEF NewReceipts
<1>. QED  BY <1>2, <1>14, <1>16, <1>17, <1>18 DEF Inv

-----------------------------------------------------------------------------
(* The calls.                                                                   *)

\* A step of the missions that writes no receipt keeps the invariant if it keeps their records.
LEMMA Quiet ==
  ASSUME Inv, UNCHANGED <<source, ledger, changes>>,
         mission' \in [Mission -> MissionRecord \cup {None}], inquiry' \in Seq(Inquiry),
         approved' \in [Mission -> Snapshot \cup {None}],
         \A x \in Mission : MissionInv(x)'
  PROVE  Inv'
BY DEF Inv, Types, VersionsReached, source

\* A new mission starts without snapshot, receipt or inquiry.
LEMMA CreateKeeps ==
  ASSUME Inv, NEW m \in Mission, NEW r \in Request, Create(m, r)
  PROVE  Inv'
<1>1. NewMission(r) \in MissionRecord
  BY PaymentAssumption DEF NewMission, MissionRecord, Status, Step, Result, Unconfirmed, Unblocked
<1>2. mission[m] = None /\ Own(m) = {} /\ Pending(m) = {}
  BY DEF Create, Exists, Inv, MissionInv
<1>3. Consistent(NewMission(r), Own(m), Pending(m), approved[m])
  BY <1>2 DEF Consistent, NewMission, Narrows, Unconfirmed, Unblocked
<1>4. Save(m, NewMission(r)) /\ UNCHANGED <<source, ledger, inquiry, approved, changes>>
  BY DEF Create
<1>. QED  BY <1>1, <1>3, <1>4, OneRecord, Quiet DEF Inv, Types

\* Every advance either writes the receipt of its mission or leaves orders and ledger alone.
LEMMA AdvanceOutcomes ==
  ASSUME Inv, NEW m \in Mission, Advance(m)
  PROVE  \/ /\ UNCHANGED <<source, ledger, approved, changes>>
            /\ mission' \in [Mission -> MissionRecord \cup {None}]
            /\ inquiry' \in Seq(Inquiry)
            /\ \A x \in Mission : MissionInv(x)'
         \/ \E o \in Order : /\ Record(m, o) /\ mission[m].step = "update_order"
                             /\ UNCHANGED <<state, inquiry, approved, changes>>
                             /\ View(o) = mission[m].snapshot /\ View(o) \in Snapshot
                             /\ o \in Matches(mission[m].query)
                             /\ Active(o) /\ Rivals(o) = {}
                             /\ Payable(o, mission[m].request.amount)
                             /\ ConfirmationDue(m, order[o]) => Approved(m, order[o])
<1>1. /\ Open(m) /\ Exists(m) /\ mission[m] \in MissionRecord /\ inquiry \in Seq(Inquiry)
      /\ Consistent(mission[m], Own(m), Pending(m), approved[m])
      /\ UNCHANGED <<state, approved, changes>>
  BY RecordType DEF Inv, Types, Open, MissionInv, Exists, Advance
<1>2. CASE /\ mission[m].step = "check_order"
           /\ AcceptCheck(m, CheckOrder(mission[m].query))
           /\ UNCHANGED <<order, fresh, ledger>>
  <2>1. mission[m].written = None  BY <1>1, <1>2 DEF Consistent
  <2>. QED  BY <1>1, <1>2, <2>1, AcceptKeeps DEF source
<1>3. ASSUME mission[m].step = "update_order",
             NEW timely \in BOOLEAN, UpdateOrder(m, timely)
      PROVE  \/ /\ UNCHANGED <<source, ledger, approved, changes>>
                /\ mission' \in [Mission -> MissionRecord \cup {None}]
                /\ inquiry' \in Seq(Inquiry)
                /\ \A x \in Mission : MissionInv(x)'
             \/ \E o \in Order : /\ Record(m, o) /\ mission[m].step = "update_order"
                                 /\ UNCHANGED <<state, inquiry, approved, changes>>
                                 /\ View(o) = mission[m].snapshot /\ View(o) \in Snapshot
                                 /\ o \in Matches(mission[m].query)
                                 /\ Active(o) /\ Rivals(o) = {}
                                 /\ Payable(o, mission[m].request.amount)
                                 /\ ConfirmationDue(m, order[o]) => Approved(m, order[o])
  <2>1. mission[m].written = None  BY <1>1, <1>3 DEF Consistent
  <2>2. CASE /\ AcceptCheck(m, CheckOrder(mission[m].query))
             /\ \/ CheckOrder(mission[m].query).status # "unique_match"
                \/ CheckOrder(mission[m].query).view = mission[m].snapshot
             /\ UNCHANGED <<order, fresh, ledger>>
    BY <1>1, <2>1, <2>2, AcceptKeeps DEF source
  <2>3. CASE VersionConflict(m) /\ UNCHANGED <<order, fresh, ledger>>
    BY <1>1, <2>1, <2>3, ConflictKeeps DEF source
  <2>4. ASSUME NEW status \in {"waiting_external", "waiting_user"},
               NEW result \in {"source_unavailable", "validation_error"},
               Save(m, [mission[m] EXCEPT !.status = status, !.result = result]),
               UNCHANGED <<order, fresh, ledger, inquiry>>
        PROVE  /\ UNCHANGED <<source, ledger, approved, changes>>
               /\ mission' \in [Mission -> MissionRecord \cup {None}]
               /\ inquiry' \in Seq(Inquiry)
               /\ \A x \in Mission : MissionInv(x)'
    <3>. DEFINE new == [mission[m] EXCEPT !.status = status, !.result = result]
    <3>1. new \in MissionRecord  BY <1>1 DEF MissionRecord, Status, Result, Checked
    <3>2. /\ new.snapshot = mission[m].snapshot /\ new.step = mission[m].step
          /\ new.status = status /\ new.confirmed = mission[m].confirmed
          /\ new.query = mission[m].query /\ new.request = mission[m].request
          /\ new.written = None /\ new.blockedBy = mission[m].blockedBy
      BY <1>1, <2>1 DEF MissionRecord
    <3>3. Consistent(new, Own(m), Pending(m), approved[m])
      BY <1>1, <2>1, <3>2 DEF Consistent, Open
    <3>. QED  BY <1>1, <2>4, <3>1, <3>3, OneRecord DEF source
  <2>5. CASE Block(m, "data_integrity_conflict") /\ UNCHANGED <<order, fresh, ledger>>
    <3>1. "data_integrity_conflict" \in Result  BY DEF Result, Checked
    <3>. QED  BY <1>1, <2>5, <3>1, BlockKeeps DEF source
  <2>. QED  BY <1>1, <1>3, <2>2, <2>3, <2>4, <2>5, UpdateOutcomes DEF source
<1>4. CASE /\ mission[m].step = "verify_order"
           /\ Verify(m)
           /\ UNCHANGED <<order, fresh, ledger>>
  <2>1. mission[m].written # None  BY <1>1, <1>4 DEF Consistent
  <2>2. CASE Block(m, "verification_mismatch")
    <3>1. "verification_mismatch" \in Result  BY DEF Result
    <3>. QED  BY <1>1, <1>4, <2>2, <3>1, BlockKeeps DEF source
  <2>3. ASSUME NEW status, NEW step, NEW result,
               \/ status = "completed" /\ step = "done" /\ result = "verified"
               \/ /\ status = "waiting_external" /\ step = mission[m].step
                  /\ result = "partial_success",
               Save(m, [mission[m] EXCEPT !.status = status, !.step = step, !.result = result]),
               UNCHANGED inquiry
        PROVE  /\ UNCHANGED <<source, ledger, approved, changes>>
               /\ mission' \in [Mission -> MissionRecord \cup {None}]
               /\ inquiry' \in Seq(Inquiry)
               /\ \A x \in Mission : MissionInv(x)'
    <3>. DEFINE new == [mission[m] EXCEPT !.status = status, !.step = step, !.result = result]
    <3>1. new \in MissionRecord  BY <1>1, <2>3 DEF MissionRecord, Status, Step, Result
    <3>2. /\ new.snapshot = mission[m].snapshot /\ new.step = step
          /\ new.status = status /\ new.confirmed = mission[m].confirmed
          /\ new.query = mission[m].query /\ new.request = mission[m].request
          /\ new.written = mission[m].written /\ new.blockedBy = mission[m].blockedBy
      BY <1>1 DEF MissionRecord
    <3>3. Consistent(new, Own(m), Pending(m), approved[m])
      BY <1>1, <1>4, <2>1, <2>3, <3>2 DEF Consistent, Open
    <3>. QED  BY <1>1, <1>4, <2>3, <3>1, <3>3, OneRecord DEF source
  <2>. QED  BY <1>4, <2>2, <2>3 DEF Verify
<1>. QED  BY <1>2, <1>3, <1>4 DEF Advance

\* An advance keeps the invariant, whichever step it runs.
LEMMA AdvanceKeeps ==
  ASSUME Inv, NEW m \in Mission, Advance(m)
  PROVE  Inv'
<1>1. Open(m) /\ approved \in [Mission -> Snapshot \cup {None}]  BY DEF Advance, Inv, Types
<1>2. CASE /\ UNCHANGED <<source, ledger, approved, changes>>
           /\ mission' \in [Mission -> MissionRecord \cup {None}]
           /\ inquiry' \in Seq(Inquiry)
           /\ \A x \in Mission : MissionInv(x)'
  BY <1>1, <1>2, Quiet
<1>3. ASSUME NEW o \in Order, Record(m, o), mission[m].step = "update_order",
             UNCHANGED <<state, inquiry, approved, changes>>, View(o) = mission[m].snapshot
      PROVE  Inv'
  BY <1>1, <1>3, RecordKeeps
<1>. QED  BY <1>2, <1>3, AdvanceOutcomes

\* A confirmation is of the snapshot that stands, or nothing is confirmed.
LEMMA ConfirmKeeps ==
  ASSUME Inv, NEW m \in Mission, NEW v \in Nat \ {0}, Confirm(m, v)
  PROVE  Inv'
<1>. DEFINE check == CheckOrder(mission[m].query)
<1>1. /\ Exists(m) /\ Open(m) /\ mission[m].written = None
      /\ mission[m].step = "update_order" /\ mission[m].status = "waiting_user"
      /\ UNCHANGED <<source, ledger, changes>>
  BY DEF Confirm, Open
<1>2. /\ mission[m] \in MissionRecord /\ inquiry \in Seq(Inquiry)
      /\ approved \in [Mission -> Snapshot \cup {None}]
      /\ Consistent(mission[m], Own(m), Pending(m), approved[m])
  BY <1>1, RecordType DEF Inv, Types, MissionInv, Exists
<1>3. CASE check.status # "unique_match" /\ AcceptCheck(m, check) /\ UNCHANGED approved
  BY <1>1, <1>2, <1>3, AcceptKeeps, Quiet
<1>4. CASE VersionConflict(m) /\ UNCHANGED approved
  BY <1>1, <1>2, <1>4, ConflictKeeps, Quiet
<1>5. CASE /\ check.status = "unique_match"
           /\ Same(check.view, mission[m].snapshot) /\ v = check.view.row.version
           /\ Save(m, [mission[m] EXCEPT !.confirmed = v, !.status = "queued"])
           /\ approved' = [approved EXCEPT ![m] = check.view]
           /\ UNCHANGED inquiry
  <2>. DEFINE new == [mission[m] EXCEPT !.confirmed = v, !.status = "queued"]
  <2>1. check.view \in Snapshot  BY <1>5, UniqueMatch DEF Inv
  <2>2. check.view = mission[m].snapshot /\ check.view # None
    BY <1>5, <2>1, NoneAssumption DEF Same
  <2>3. new \in MissionRecord  BY <1>2 DEF MissionRecord, Status
  <2>4. /\ new.snapshot = mission[m].snapshot /\ new.step = "update_order"
        /\ new.status = "queued" /\ new.confirmed = v
        /\ new.query = mission[m].query /\ new.request = mission[m].request
        /\ new.written = None /\ new.blockedBy = mission[m].blockedBy
    BY <1>1, <1>2 DEF MissionRecord
  <2>5. /\ approved' \in [Mission -> Snapshot \cup {None}] /\ approved'[m] = check.view
        /\ \A x \in Mission \ {m} : approved'[x] = approved[x]
    BY <1>2, <1>5, <2>1
  <2>6. \A x \in Mission : Own(x)' = Own(x) /\ Pending(x)' = Pending(x)
    BY <1>1, <1>5 DEF Own, Pending
  <2>7. Consistent(new, Own(m)', Pending(m)', approved'[m])
    BY <1>1, <1>2, <1>5, <2>2, <2>4, <2>5, <2>6 DEF Consistent
  <2>8. /\ mission' \in [Mission -> MissionRecord \cup {None}]
        /\ \A x \in Mission : MissionInv(x)'
    BY <1>5, <2>3, <2>5, <2>6, <2>7, OneMission
  <2>. QED  BY <1>1, <1>2, <1>5, <2>5, <2>8, Quiet
<1>. QED  BY <1>3, <1>4, <1>5 DEF Confirm

\* Back to the check that comes first, for a mission no inquiry is open about.
LEMMA RecheckKeeps ==
  ASSUME Inv, NEW m \in Mission, Exists(m), mission[m].status \notin {"completed", "canceled"},
         NEW new, new = [Recheck(m) EXCEPT !.blockedBy = Unblocked], Save(m, new),
         UNCHANGED <<source, ledger, changes>>,
         inquiry' \in Seq(Inquiry),
         Pending(m)' = {}, \A x \in Mission \ {m} : Pending(x)' = Pending(x),
         approved' = [approved EXCEPT ![m] = None]
  PROVE  Inv'
<1>1. /\ mission[m] \in MissionRecord
      /\ approved \in [Mission -> Snapshot \cup {None}]
      /\ Consistent(mission[m], Own(m), Pending(m), approved[m])
  BY RecordType DEF Inv, Types, MissionInv, Exists
<1>. DEFINE next == IF mission[m].written # None THEN "verify_order" ELSE "check_order"
<1>2. new \in MissionRecord
  BY <1>1 DEF Recheck, MissionRecord, Status, Step, Unconfirmed, Unblocked
<1>3. /\ new.snapshot = mission[m].snapshot /\ new.step = next
      /\ new.status = "queued" /\ new.confirmed = Unconfirmed
      /\ new.query = mission[m].query /\ new.request = mission[m].request
      /\ new.written = mission[m].written /\ new.blockedBy = Unblocked
  BY <1>1 DEF Recheck, MissionRecord
<1>4. \A x \in Mission : Own(x)' = Own(x)  BY DEF Own
<1>5. Consistent(new, Own(m)', Pending(m)', approved'[m])
  BY <1>1, <1>3, <1>4 DEF Consistent
<1>6. /\ approved' \in [Mission -> Snapshot \cup {None}]
      /\ \A x \in Mission \ {m} : approved'[x] = approved[x]
  BY <1>1
<1>7. /\ mission' \in [Mission -> MissionRecord \cup {None}]
      /\ \A x \in Mission : MissionInv(x)'
  BY <1>2, <1>4, <1>5, <1>6, OneMission
<1>. QED  BY <1>6, <1>7, Quiet

\* An open mission checks anew; no inquiry is open about it.
LEMMA ResumeKeeps ==
  ASSUME Inv, NEW m \in Mission, Resume(m)
  PROVE  Inv'
<1>1. /\ Exists(m) /\ mission[m] \in MissionRecord /\ inquiry \in Seq(Inquiry)
      /\ Consistent(mission[m], Own(m), Pending(m), approved[m])
  BY RecordType DEF Resume, Open, Inv, Types, MissionInv, Exists
<1>2. mission[m].blockedBy = Unblocked /\ Pending(m) = {}
  BY <1>1 DEF Consistent, Resume, Open
<1>3. Recheck(m) = [Recheck(m) EXCEPT !.blockedBy = Unblocked]
  BY <1>1, <1>2 DEF Recheck, MissionRecord
<1>4. \A x \in Mission : Pending(x)' = Pending(x)  BY DEF Resume, Pending
<1>5. Save(m, [Recheck(m) EXCEPT !.blockedBy = Unblocked])  BY <1>3 DEF Resume
<1>. QED  BY <1>1, <1>2, <1>4, <1>5, RecheckKeeps DEF Resume, Open

\* An inquiry that is answered is the one its blocked mission points at.
LEMMA ResolveKeeps ==
  ASSUME Inv, NEW child \in 1..Len(inquiry), Resolve(child)
  PROVE  Inv' /\ mission[inquiry[child].parent].status = "blocked"
<1>1. inquiry \in Seq(Inquiry) /\ Len(inquiry) \in Nat  BY DEF Inv, Types
<1>2. PICK old \in Inquiry : old = inquiry[child]  BY <1>1
<1>3. PICK m \in Mission : m = old.parent  BY DEF Inquiry
<1>4. child \in Pending(m)  BY <1>2, <1>3 DEF Resolve, Pending
<1>5. Exists(m)  BY <1>4 DEF Inv, MissionInv, Exists
<1>6. Consistent(mission[m], Own(m), Pending(m), approved[m])
  BY <1>5 DEF Inv, MissionInv, Exists
<1>7. mission[m].status = "blocked" /\ Pending(m) = {child}
  BY <1>4, <1>6 DEF Consistent
<1>. DEFINE answered == [old EXCEPT !.status = "completed"]
<1>8. inquiry' = [inquiry EXCEPT ![child] = answered]  BY <1>2 DEF Resolve
<1>9. answered \in Inquiry /\ answered.status = "completed" /\ answered.parent = m
  BY <1>3 DEF Inquiry
<1>10. /\ inquiry' \in Seq(Inquiry) /\ Len(inquiry') = Len(inquiry)
       /\ \A i \in 1..Len(inquiry) : inquiry'[i] = IF i = child THEN answered ELSE inquiry[i]
  BY <1>1, <1>8, <1>9
<1>. HIDE DEF answered
<1>11. Pending(m)' = {}  BY <1>7, <1>9, <1>10 DEF Pending
<1>12. \A x \in Mission \ {m} : Pending(x)' = Pending(x)
  BY <1>2, <1>3, <1>9, <1>10 DEF Pending
<1>13. /\ Save(m, [Recheck(m) EXCEPT !.blockedBy = Unblocked])
       /\ approved' = [approved EXCEPT ![m] = None]
       /\ UNCHANGED <<source, ledger, changes>>
  BY <1>2, <1>3 DEF Resolve
<1>14. Inv'  BY <1>5, <1>7, <1>10, <1>11, <1>12, <1>13, RecheckKeeps
<1>. QED  BY <1>2, <1>3, <1>7, <1>14

\* Only a mission without receipt or inquiry is withdrawn.
LEMMA CancelKeeps ==
  ASSUME Inv, NEW m \in Mission, Cancel(m)
  PROVE  Inv' /\ mission[m].status # "completed"
<1>. DEFINE new == [mission[m] EXCEPT !.status = "canceled", !.step = "done", !.result = "canceled"]
<1>1. /\ Exists(m) /\ mission[m].written = None /\ mission[m].blockedBy = Unblocked
      /\ Save(m, new) /\ UNCHANGED <<source, ledger, inquiry, approved, changes>>
  BY DEF Cancel
<1>2. /\ mission[m] \in MissionRecord /\ inquiry \in Seq(Inquiry)
      /\ Consistent(mission[m], Own(m), Pending(m), approved[m])
  BY <1>1, RecordType DEF Inv, Types, MissionInv, Exists
<1>3. Pending(m) = {}
  <2>1. 0 \notin Pending(m)  BY <1>2 DEF Pending
  <2>. QED  BY <1>1, <1>2, <2>1 DEF Consistent, Unblocked
<1>4. new \in MissionRecord  BY <1>2 DEF MissionRecord, Status, Step, Result
<1>5. /\ new.snapshot = mission[m].snapshot /\ new.step = "done"
      /\ new.status = "canceled" /\ new.confirmed = mission[m].confirmed
      /\ new.query = mission[m].query /\ new.request = mission[m].request
      /\ new.written = None /\ new.blockedBy = Unblocked
  BY <1>1, <1>2 DEF MissionRecord
<1>6. Consistent(new, Own(m), Pending(m), approved[m])
  BY <1>1, <1>2, <1>3, <1>5 DEF Consistent
<1>7. mission[m].status # "completed"  BY <1>1, <1>2 DEF Consistent
<1>. QED  BY <1>1, <1>4, <1>6, <1>7, OneRecord, Quiet DEF Inv, Types

\* A clarification of a narrowed query narrows what was asked further.
LEMMA ClarifyKeeps ==
  ASSUME Inv, NEW m \in Mission, NEW supplied \in Query, Clarify(m, supplied)
  PROVE  Inv'
<1>. DEFINE previous == mission[m].query
            query == Refinement(previous, supplied)
            new == [mission[m] EXCEPT !.query = query, !.snapshot = None, !.status = "queued",
                                      !.step = "check_order", !.confirmed = Unconfirmed]
<1>1. /\ Exists(m) /\ mission[m].written = None /\ mission[m].status = "waiting_user"
      /\ \A key \in DOMAIN previous :
           supplied[key] = Anything \/ previous[key] \in {Anything, supplied[key]}
      /\ Save(m, new) /\ UNCHANGED <<source, ledger, inquiry, approved, changes>>
  BY DEF Clarify
<1>2. /\ mission[m] \in MissionRecord /\ inquiry \in Seq(Inquiry) /\ previous \in Query
      /\ Consistent(mission[m], Own(m), Pending(m), approved[m])
  BY <1>1, RecordType DEF Inv, Types, MissionInv, Exists
<1>3. /\ query = [guest |-> IF supplied.guest = Anything THEN previous.guest ELSE supplied.guest,
                  order |-> IF supplied.order = Anything THEN previous.order ELSE supplied.order]
      /\ supplied.guest = Anything \/ previous.guest \in {Anything, supplied.guest}
      /\ supplied.order = Anything \/ previous.order \in {Anything, supplied.order}
  BY <1>1, <1>2 DEF Refinement, Query
<1>4. query \in Query  BY <1>2, <1>3 DEF Query
<1>5. Narrows(query, mission[m].request.query)
  BY <1>2, <1>3 DEF Consistent, Narrows
<1>6. new \in MissionRecord
  BY <1>2, <1>4 DEF MissionRecord, Status, Step, Unconfirmed
<1>7. /\ new.snapshot = None /\ new.step = "check_order"
      /\ new.status = "queued" /\ new.confirmed = Unconfirmed
      /\ new.query = query /\ new.request = mission[m].request
      /\ new.written = None /\ new.blockedBy = mission[m].blockedBy
  BY <1>1, <1>2 DEF MissionRecord
<1>8. Consistent(new, Own(m), Pending(m), approved[m])
  BY <1>1, <1>2, <1>5, <1>7 DEF Consistent
<1>. QED  BY <1>1, <1>6, <1>8, OneRecord, Quiet DEF Inv, Types

-----------------------------------------------------------------------------
(* Every step.                                                                  *)

\* The source and the switches may change anything of an order but never take a version back.
LEMMA SourceKeeps ==
  ASSUME Inv, UNCHANGED <<ledger, mission, inquiry, approved>>, changes' \in 0..MaxChanges,
         state' \in [sandbox: BOOLEAN, writes: BOOLEAN, direct: BOOLEAN],
         order' \in [Order -> Row], fresh' \subseteq Order,
         \A o \in Order : order[o].version <= order'[o].version
  PROVE  Inv'
<1>1. Types'  BY DEF Inv, Types
<1>2. ASSUME NEW m \in Mission  PROVE MissionInv(m)'
  <2>1. Own(m)' = Own(m) /\ Pending(m)' = Pending(m)  BY DEF Own, Pending
  <2>2. MissionInv(m)  BY DEF Inv
  <2>. QED  BY <2>1, <2>2 DEF MissionInv
<1>3. ASSUME NEW r \in ledger  PROVE r.version <= order'[r.order].version
  <2>1. /\ r.order \in Order /\ r.version \in Nat /\ order[r.order].version \in Nat
        /\ order'[r.order].version \in Nat /\ r.version <= order[r.order].version
    BY DEF Inv, Types, Receipt, Row, VersionsReached
  <2>. QED  BY <2>1
<1>. QED  BY <1>1, <1>2, <1>3 DEF Inv, VersionsReached

\* The invariant holds before the first mission.
LEMMA InvInit == Init => Inv
<1>. SUFFICES ASSUME Init  PROVE Inv
  OBVIOUS
<1>1. order \in [Order -> Row]  BY DEF Init, Row
<1>2. Types
  <2>1. inquiry \in Seq(Inquiry) /\ 0 \in 0..MaxChanges  BY PaymentAssumption DEF Init
  <2>2. mission \in [Mission -> MissionRecord \cup {None}]  BY DEF Init
  <2>3. approved \in [Mission -> Snapshot \cup {None}]  BY DEF Init
  <2>4. state \in [sandbox: BOOLEAN, writes: BOOLEAN, direct: BOOLEAN]  BY DEF Init
  <2>. QED  BY <1>1, <2>1, <2>2, <2>3, <2>4 DEF Init, Types
<1>3. \A m \in Mission : MissionInv(m)  BY DEF Init, MissionInv, Own, Pending
<1>. QED  BY <1>2, <1>3 DEF Init, Inv, VersionsReached

\* Every call and every change of the source keeps the invariant.
LEMMA InvNext == Inv /\ [Next]_vars => Inv'
<1>. SUFFICES ASSUME Inv, [Next]_vars  PROVE Inv'
  OBVIOUS
<1>1. ASSUME NEW m \in Mission, NEW r \in Request, Create(m, r)  PROVE Inv'
  BY <1>1, CreateKeeps
<1>2. ASSUME NEW m \in Mission, Advance(m)  PROVE Inv'
  BY <1>2, AdvanceKeeps
<1>3. ASSUME NEW m \in Mission, NEW v \in {order[o].version : o \in Order}, Confirm(m, v)
      PROVE  Inv'
  <2>1. v \in Nat \ {0}  BY DEF Inv, Types, Row
  <2>. QED  BY <1>3, <2>1, ConfirmKeeps
<1>4. ASSUME NEW m \in Mission, Resume(m)  PROVE Inv'
  BY <1>4, ResumeKeeps
<1>5. ASSUME NEW m \in Mission, Cancel(m)  PROVE Inv'
  BY <1>5, CancelKeeps
<1>6. ASSUME NEW m \in Mission, NEW q \in Query, Clarify(m, q)  PROVE Inv'
  BY <1>6, ClarifyKeeps
<1>7. ASSUME NEW child \in 1..Len(inquiry), Resolve(child)  PROVE Inv'
  BY <1>7, ResolveKeeps
<1>8. ASSUME NEW o \in Order, NEW content \in Content, NEW bump \in 0..1, NEW checked \in BOOLEAN,
             Amend(o, content, bump, checked)
      PROVE  Inv'
  <2>1. order[o] \in Row /\ order[o].version \in Nat \ {0} /\ order[o].checkedAt \in Nat
    BY DEF Inv, Types, Row
  <2>. DEFINE more == IF checked THEN 1 ELSE 0
  <2>2. more \in Nat /\ bump \in Nat  OBVIOUS
  <2>3. order' = [order EXCEPT ![o].is = content, ![o].version = @ + bump, ![o].checkedAt = @ + more]
    BY <1>8 DEF Amend
  <2>. HIDE DEF more
  <2>4. /\ DOMAIN order' = Order
        /\ \A x \in Order \ {o} : order'[x] = order[x]
    BY <2>3 DEF Inv, Types
  <2>5. order'[o] = [[[order[o] EXCEPT !.is = content] EXCEPT !.version = order[o].version + bump]
                       EXCEPT !.checkedAt = order[o].checkedAt + more]
    BY <2>1, <2>3 DEF Inv, Types, Row
  <2>6. order'[o] \in Row /\ order'[o].version = order[o].version + bump
    <3>1. order[o].version + bump \in Nat \ {0} /\ order[o].checkedAt + more \in Nat
      BY <2>1, <2>2
    <3>. QED  BY <2>1, <2>5, <3>1 DEF Row
  <2>7. order' \in [Order -> Row]
    <3>1. order' = [x \in Order |-> order'[x]]  BY <2>3, <2>4 DEF Inv, Types
    <3>. QED  BY <2>4, <2>6, <3>1 DEF Inv, Types
  <2>8. \A x \in Order : order[x].version <= order'[x].version
    BY <2>1, <2>2, <2>4, <2>6 DEF Inv, Types, Row
  <2>. QED  BY <1>8, <2>7, <2>8, SourceKeeps, PaymentAssumption DEF Amend, Inv, Types
<1>9. ASSUME NEW o \in Order, Age(o)  PROVE Inv'
  <2>1. \A x \in Order : order'[x].version \in Nat /\ order[x].version <= order'[x].version
    BY <1>9 DEF Age, Inv, Types, Row
  <2>. QED  BY <1>9, <2>1, SourceKeeps, PaymentAssumption DEF Age, Inv, Types
<1>10. ASSUME NEW flag \in DOMAIN state, Switch(flag)  PROVE Inv'
  <2>1. \A x \in Order : order'[x].version \in Nat /\ order[x].version <= order'[x].version
    BY <1>10 DEF Switch, Inv, Types, Row
  <2>2. state' \in [sandbox: BOOLEAN, writes: BOOLEAN, direct: BOOLEAN]
    BY <1>10 DEF Switch, Inv, Types
  <2>. QED  BY <1>10, <2>1, <2>2, SourceKeeps, PaymentAssumption DEF Switch, Inv, Types
<1>11. CASE UNCHANGED vars
  <2>1. \A x \in Order : order'[x].version \in Nat /\ order[x].version <= order'[x].version
    BY <1>11 DEF vars, Inv, Types, Row
  <2>. QED  BY <1>11, <2>1, SourceKeeps DEF vars, Inv, Types
<1>. QED
  BY <1>1, <1>2, <1>3, <1>4, <1>5, <1>6, <1>7, <1>8, <1>9, <1>10, <1>11 DEF Next

-----------------------------------------------------------------------------
(* The invariant and what follows from it.                                      *)

\* Missions, receipts, inquiries and confirmations agree after every call.
THEOREM InvAlways == Spec => []Inv
BY InvInit, InvNext, PTL DEF Spec

\* Every variable keeps its type, and no mission points at an inquiry that was never opened.
THEOREM TypeCorrect == Spec => []TypeOK
<1>1. Inv => TypeOK
  <2>. SUFFICES ASSUME Inv, NEW m \in Mission, Exists(m)
                PROVE  mission[m].blockedBy \in 0..Len(inquiry)
    BY DEF Inv, Types, TypeOK
  <2>1. Consistent(mission[m], Own(m), Pending(m), approved[m]) /\ Len(inquiry) \in Nat
    BY DEF Inv, Types, MissionInv, Exists
  <2>2. Pending(m) \subseteq 1..Len(inquiry)  BY DEF Pending
  <2>3. mission[m].blockedBy \in Pending(m) \/ mission[m].blockedBy = 0
    BY <2>1 DEF Consistent, Unblocked
  <2>. QED  BY <2>1, <2>2, <2>3
<1>. QED  BY <1>1, InvAlways, PTL

\* A mission is blocked exactly while the one inquiry about it is open.
THEOREM InquiryHoldsAlways == Spec => []InquiryHolds
<1>1. Inv => InquiryHolds  BY DEF Inv, InquiryHolds, MissionInv, Consistent, Exists, Pending
<1>. QED  BY <1>1, InvAlways, PTL

\* The receipt a mission speaks of, and no other of it, is in the ledger, one version after the
\* snapshot it was checked against.
THEOREM ReceiptStandsAlways == Spec => []ReceiptStands
<1>1. Inv => ReceiptStands  BY DEF Inv, ReceiptStands, MissionInv, Consistent, Exists, Own
<1>. QED  BY <1>1, InvAlways, PTL

\* Missions, inquiries and receipts agree after every call.
THEOREM MissionsHoldAlways == Spec => []MissionsHold
BY InquiryHoldsAlways, ReceiptStandsAlways, PTL DEF MissionsHold

\* Every receipt is written by an advance over the snapshot its mission had checked, on an
\* active order without a rival that its query matches, for no more than is due, and
\* confirmed if it must be.
LEMMA ReceiptWritten ==
  ASSUME Inv, [Next]_vars, NEW r \in NewReceipts
  PROVE  \E m \in Mission, o \in Order :
           /\ r = NewReceipt(m, o) /\ ledger' = ledger \cup {r}
           /\ Exists(m) /\ mission[m].written = None
           /\ View(o) = mission[m].snapshot /\ View(o) \in Snapshot
           /\ o \in Matches(mission[m].query) /\ Active(o) /\ Rivals(o) = {}
           /\ Payable(o, mission[m].request.amount)
           /\ ConfirmationDue(m, order[o]) => Approved(m, order[o])
<1>1. ledger' # ledger  BY DEF NewReceipts
<1>2. PICK m \in Mission : Advance(m)
  BY <1>1 DEF Next, vars, source, Create, Confirm, Resume, Cancel, Clarify, Resolve, Amend, Age,
     Switch
<1>3. PICK o \in Order : /\ Record(m, o) /\ mission[m].step = "update_order"
                         /\ UNCHANGED <<state, inquiry, approved, changes>>
                         /\ View(o) = mission[m].snapshot /\ View(o) \in Snapshot
                         /\ o \in Matches(mission[m].query)
                         /\ Active(o) /\ Rivals(o) = {}
                         /\ Payable(o, mission[m].request.amount)
                         /\ ConfirmationDue(m, order[o]) => Approved(m, order[o])
  BY <1>1, <1>2, AdvanceOutcomes
<1>4. Open(m) /\ Exists(m)  BY <1>2 DEF Advance, Open
<1>5. mission[m].written = None /\ NewReceipts = {NewReceipt(m, o)}
  BY <1>3, <1>4, RecordKeeps
<1>6. ledger' = ledger \cup {NewReceipt(m, o)}  BY <1>3 DEF Record, NewReceipt
<1>. QED  BY <1>3, <1>4, <1>5, <1>6

\* What is paid under a confirmation is, to the last column and receipt, what was confirmed.
THEOREM ApprovedIsPaidAlways == Spec => ApprovedIsPaid
<1>1. ASSUME Inv, [Next]_vars, NEW r \in NewReceipts, ConfirmationDue(r.mission, order[r.order])
      PROVE  approved[r.mission] = View(r.order)
  <2>1. PICK m \in Mission, o \in Order :
          /\ r = NewReceipt(m, o) /\ Exists(m)
          /\ View(o) = mission[m].snapshot
          /\ ConfirmationDue(m, order[o]) => Approved(m, order[o])
    BY <1>1, ReceiptWritten
  <2>2. r.mission = m /\ r.order = o  BY <2>1 DEF NewReceipt
  <2>3. mission[m].confirmed = order[o].version /\ order[o].version \in Nat \ {0}
    BY <1>1, <2>1, <2>2 DEF Approved, Inv, Types, Row
  <2>4. Consistent(mission[m], Own(m), Pending(m), approved[m])
    BY <1>1, <2>1 DEF Inv, MissionInv, Exists
  <2>5. approved[m] = mission[m].snapshot  BY <2>3, <2>4 DEF Consistent, Unconfirmed
  <2>. QED  BY <2>1, <2>2, <2>5
<1>2. Inv /\ [Next]_vars =>
        [\A r \in NewReceipts :
           ConfirmationDue(r.mission, order[r.order]) => approved[r.mission] = View(r.order)]_vars
  BY <1>1
<1>. QED  BY <1>2, InvAlways, PTL DEF Spec, ApprovedIsPaid

\* No receipt is written on one of two active orders that claim the same room and nights.
THEOREM NoHiddenOverlapAlways == Spec => NoHiddenOverlap
<1>1. ASSUME Inv, [Next]_vars, NEW r \in NewReceipts
      PROVE  Active(r.order) /\ Rivals(r.order) = {}
  BY <1>1, ReceiptWritten DEF NewReceipt
<1>2. Inv /\ [Next]_vars =>
        [\A r \in NewReceipts : Active(r.order) /\ Rivals(r.order) = {}]_vars
  BY <1>1
<1>. QED  BY <1>2, InvAlways, PTL DEF Spec, NoHiddenOverlap

\* A receipt is written on an order that the query as first asked matches, whatever was
\* clarified since.
THEOREM AsAskedAlways == Spec => AsAsked
<1>1. ASSUME Inv, [Next]_vars, NEW r \in NewReceipts
      PROVE  r.order \in Matches(mission[r.mission].request.query)
  <2>1. PICK m \in Mission, o \in Order : /\ r = NewReceipt(m, o) /\ Exists(m)
                                          /\ o \in Matches(mission[m].query)
    BY <1>1, ReceiptWritten
  <2>2. r.mission = m /\ r.order = o  BY <2>1 DEF NewReceipt
  <2>3. Narrows(mission[m].query, mission[m].request.query)
    BY <1>1, <2>1 DEF Inv, MissionInv, Exists, Consistent
  <2>4. Types /\ mission[m].query \in Query  BY <1>1, <2>1, RecordType DEF Inv
  <2>. QED  BY <2>1, <2>2, <2>3, <2>4, NarrowMatches
<1>2. Inv /\ [Next]_vars =>
        [\A r \in NewReceipts : r.order \in Matches(mission[r.mission].request.query)]_vars
  BY <1>1
<1>. QED  BY <1>2, InvAlways, PTL DEF Spec, AsAsked

\* Every receipt is due when it is written.
THEOREM EachReceiptIsDueAlways == Spec => EachReceiptIsDue
BY ApprovedIsPaidAlways, NoHiddenOverlapAlways, AsAskedAlways DEF EachReceiptIsDue

-----------------------------------------------------------------------------
(* The sum of the receipts of an order.  It is defined by recursion over the    *)
(* set, and what is said of it is shown of a smallest set it could be wrong of.  *)

\* Some set of a family of subsets of a finite set contains no other of the family.
LEMMA SmallestSubset ==
  ASSUME NEW U, IsFiniteSet(U), NEW F, F \subseteq SUBSET U, F # {}
  PROVE  \E s \in F : \A t \in F : t \subseteq s => t = s
<1>. DEFINE R == StrictSubsetOrdering(U)
<1>1. IsWellFoundedOn(R, SUBSET U)
  BY FS_StrictSubsetOrderingWellFounded, FS_FiniteSubsetsOfFinite
<1>2. \A s, t \in F : t \subseteq s /\ t # s => <<t, s>> \in R
  BY DEF StrictSubsetOrdering
<1>. HIDE DEF R
<1>3. \E s \in F : \A t \in F : ~(<<t, s>> \in R)  BY <1>1, WFMin
<1>. QED  BY <1>2, <1>3

\* The element the sum takes first, and what it means for a function to compute sums.
Picked(s) == CHOOSE x \in s : TRUE
Sums(f, U) ==
  f = [s \in SUBSET U |-> IF s = {} THEN 0 ELSE Picked(s).amount + f[s \ {Picked(s)}]]

\* The sum is what such a function computes.
LEMMA TotalIs ==
  ASSUME NEW U
  PROVE  Total(U) = (CHOOSE f : Sums(f, U))[U]
BY DEF Total, MapThenSumSet, MapThenFoldSet, Sums, Picked

\* A set that is not empty has an element to take.
LEMMA PickedIn == \A s : s # {} => Picked(s) \in s
BY DEF Picked

\* What such a function computes.
LEMMA SumsOf ==
  ASSUME NEW U, NEW f, Sums(f, U), NEW s, s \subseteq U
  PROVE  f[s] = IF s = {} THEN 0 ELSE Picked(s).amount + f[s \ {Picked(s)}]
<1>1. f = [t \in SUBSET U |-> IF t = {} THEN 0 ELSE Picked(t).amount + f[t \ {Picked(t)}]]
  BY DEF Sums
<1>2. s \in SUBSET U  OBVIOUS
<1>. DEFINE e(t) == IF t = {} THEN 0 ELSE Picked(t).amount + f[t \ {Picked(t)}]
<1>3. f = [t \in SUBSET U |-> e(t)]  BY <1>1
<1>. HIDE DEF e
<1>4. f[s] = e(s)  BY <1>2, <1>3
<1>. QED  BY <1>4 DEF e

\* Two of them compute the same.
LEMMA SumsAgree ==
  ASSUME NEW U, NEW V, IsFiniteSet(U), NEW f, NEW g, Sums(f, U), Sums(g, V),
         NEW s, s \subseteq U, s \subseteq V
  PROVE  f[s] = g[s]
<1>. DEFINE W == {t \in SUBSET s : f[t] # g[t]}
<1>. SUFFICES ASSUME W # {} PROVE FALSE  OBVIOUS
<1>1. IsFiniteSet(s)  BY FS_Subset
<1>2. PICK t \in W : \A u \in W : u \subseteq t => u = t
  <2>. HIDE DEF W
  <2>1. W \subseteq SUBSET s  BY DEF W
  <2>. QED  BY <1>1, <2>1, SmallestSubset
<1>3. t \subseteq U /\ t \subseteq V  OBVIOUS
<1>4. t # {}  BY <1>3, SumsOf
<1>5. Picked(t) \in t  BY <1>4, PickedIn
<1>6. f[t \ {Picked(t)}] = g[t \ {Picked(t)}]
  <2>1. t \ {Picked(t)} # t /\ t \ {Picked(t)} \subseteq t  BY <1>5
  <2>. QED  BY <1>2, <2>1
<1>7. f[t] = g[t]  BY <1>3, <1>4, <1>6, SumsOf
<1>. QED  BY <1>7

\* The sum of a set is the function's value there.
LEMMA TotalBy ==
  ASSUME NEW U, IsFiniteSet(U), NEW f, Sums(f, U)
  PROVE  Total(U) = f[U]
<1>. DEFINE g == CHOOSE h : Sums(h, U)
<1>1. Sums(g, U)  OBVIOUS
<1>2. Total(U) = g[U]  BY TotalIs
<1>. HIDE DEF g
<1>. QED  BY <1>1, <1>2, SumsAgree

\* The function for a set computes the sums of its subsets.
LEMMA SumsWithin ==
  ASSUME NEW U, IsFiniteSet(U), NEW f, Sums(f, U), NEW V, V \subseteq U, NEW g, Sums(g, V)
  PROVE  Total(V) = f[V]
<1>1. IsFiniteSet(V)  BY FS_Subset
<1>. QED  BY <1>1, SumsAgree, TotalBy

\* There is such a function for every finite set.
LEMMA SumsExist ==
  ASSUME NEW U, IsFiniteSet(U)
  PROVE  \E f : Sums(f, U)
<1>. DEFINE W == {V \in SUBSET U : ~ \E f : Sums(f, V)}
<1>. SUFFICES ASSUME W # {} PROVE FALSE  BY DEF W
<1>1. PICK V \in W : \A t \in W : t \subseteq V => t = V
  <2>. HIDE DEF W
  <2>1. W \subseteq SUBSET U  BY DEF W
  <2>. QED  BY <2>1, SmallestSubset
<1>2. IsFiniteSet(V)  BY FS_Subset
<1>3. \A t : t \subseteq V /\ t # V => \E f : Sums(f, t)  BY <1>1
<1>. DEFINE e(t) == IF t = {} THEN 0 ELSE Picked(t).amount + Total(t \ {Picked(t)})
            h == [t \in SUBSET V |-> e(t)]
<1>4. ASSUME NEW t, t \subseteq V, t # V  PROVE Total(t) = e(t)
  <2>1. PICK f : Sums(f, t)  BY <1>3, <1>4
  <2>2. IsFiniteSet(t)  BY <1>2, <1>4, FS_Subset
  <2>3. Total(t) = f[t]  BY <2>1, <2>2, TotalBy
  <2>4. CASE t = {}  BY <2>1, <2>3, <2>4, SumsOf
  <2>5. CASE t # {}
    <3>. DEFINE r == t \ {Picked(t)}
    <3>1. f[t] = Picked(t).amount + f[r]  BY <2>1, <2>5, SumsOf
    <3>2. r \subseteq t /\ r # V /\ r \subseteq V  BY <1>4, <2>5, PickedIn
    <3>3. PICK g : Sums(g, r)  BY <1>3, <3>2
    <3>. HIDE DEF r
    <3>4. Total(r) = f[r]  BY <2>1, <2>2, <3>2, <3>3, SumsWithin
    <3>5. e(t) = Picked(t).amount + Total(r)  BY <2>5 DEF r
    <3>. HIDE DEF e
    <3>. QED  BY <2>3, <3>1, <3>4, <3>5
  <2>. QED  BY <2>4, <2>5
<1>5. h = [t \in SUBSET V |-> IF t = {} THEN 0 ELSE Picked(t).amount + h[t \ {Picked(t)}]]
  <2>1. ASSUME NEW t \in SUBSET V, t # {}  PROVE h[t \ {Picked(t)}] = Total(t \ {Picked(t)})
    <3>. DEFINE r == t \ {Picked(t)}
    <3>1. r \subseteq V /\ r # V  BY <2>1, PickedIn
    <3>2. h[r] = e(r)
      <4>. HIDE DEF e, r
      <4>. QED  BY <3>1
    <3>. HIDE DEF h, r, e
    <3>3. h[r] = Total(r)  BY <1>4, <3>1, <3>2
    <3>. QED  BY <3>3 DEF r
  <2>. DEFINE k(t) == IF t = {} THEN 0 ELSE Picked(t).amount + h[t \ {Picked(t)}]
  <2>2. ASSUME NEW t \in SUBSET V  PROVE e(t) = k(t)
    <3>1. CASE t = {}  BY <3>1
    <3>2. CASE t # {}
      <4>1. h[t \ {Picked(t)}] = Total(t \ {Picked(t)})  BY <2>1, <3>2
      <4>. HIDE DEF h
      <4>. QED  BY <4>1, <3>2
    <3>. QED  BY <3>1, <3>2
  <2>3. [t \in SUBSET V |-> e(t)] = [t \in SUBSET V |-> k(t)]
    <3>. HIDE DEF e, k
    <3>. QED  BY <2>2
  <2>. QED  BY <2>3
<1>6. Sums(h, V)
  <2>. HIDE DEF h
  <2>. QED  BY <1>5 DEF Sums
<1>. QED  BY <1>6

\* The sum of a set is that of one of its elements and of the rest.
LEMMA TotalStep ==
  ASSUME NEW U, IsFiniteSet(U)
  PROVE  Total(U) = IF U = {} THEN 0 ELSE Picked(U).amount + Total(U \ {Picked(U)})
<1>1. PICK f : Sums(f, U)  BY SumsExist
<1>2. Total(U) = f[U]  BY <1>1, TotalBy
<1>3. CASE U = {}  BY <1>1, <1>2, <1>3, SumsOf
<1>4. CASE U # {}
  <2>. DEFINE r == U \ {Picked(U)}
  <2>1. f[U] = Picked(U).amount + f[r]  BY <1>1, <1>4, SumsOf
  <2>2. r \subseteq U /\ IsFiniteSet(r)  BY FS_Subset
  <2>. HIDE DEF r
  <2>3. PICK g : Sums(g, r)  BY <2>2, SumsExist
  <2>4. Total(r) = f[r]  BY <1>1, <2>2, <2>3, SumsWithin
  <2>5. Total(U) = Picked(U).amount + Total(r)  BY <1>2, <2>1, <2>4
  <2>. QED  BY <1>4, <2>5 DEF r
<1>. QED  BY <1>3, <1>4

\* Amounts add up to an amount.
LEMMA TotalType ==
  ASSUME NEW U, IsFiniteSet(U), \A r \in U : r.amount \in Nat
  PROVE  Total(U) \in Nat
<1>. DEFINE W == {s \in SUBSET U : Total(s) \notin Nat}
<1>. SUFFICES ASSUME W # {} PROVE FALSE  OBVIOUS
<1>1. PICK s \in W : \A t \in W : t \subseteq s => t = s
  <2>. HIDE DEF W
  <2>1. W \subseteq SUBSET U  BY DEF W
  <2>. QED  BY <2>1, SmallestSubset
<1>2. IsFiniteSet(s) /\ s \subseteq U /\ Total(s) \notin Nat  BY FS_Subset
<1>. DEFINE x == Picked(s)
            r == s \ {x}
<1>3. s # {} /\ Total(s) = x.amount + Total(r)  BY <1>2, TotalStep
<1>4. x \in s  BY <1>3, PickedIn
<1>5. r \subseteq s /\ r # s  BY <1>4
<1>6. Total(r) \in Nat  BY <1>1, <1>5
<1>7. x.amount \in Nat  BY <1>2, <1>4
<1>. HIDE DEF x, r
<1>. QED  BY <1>2, <1>3, <1>6, <1>7

\* Whichever element is taken from a set, the sum is that of the element and of the rest.
LEMMA TotalWithout ==
  ASSUME NEW U, IsFiniteSet(U), \A r \in U : r.amount \in Nat, NEW y \in U
  PROVE  Total(U) = y.amount + Total(U \ {y})
<1>. DEFINE wrong(s) == \E z \in s : Total(s) # z.amount + Total(s \ {z})
            W == {s \in SUBSET U : wrong(s)}
<1>. SUFFICES ASSUME W # {} PROVE FALSE  OBVIOUS
<1>1. PICK s \in W : \A t \in W : t \subseteq s => t = s
  <2>. HIDE DEF W
  <2>1. W \subseteq SUBSET U  BY DEF W
  <2>. QED  BY <2>1, SmallestSubset
<1>2. IsFiniteSet(s) /\ s \subseteq U  BY FS_Subset
<1>3. PICK z \in s : Total(s) # z.amount + Total(s \ {z})  OBVIOUS
<1>. DEFINE x == Picked(s)
<1>4. x \in s /\ Total(s) = x.amount + Total(s \ {x})  BY <1>2, <1>3, TotalStep, PickedIn
<1>5. x # z  BY <1>3, <1>4
<1>6. \A t : t \subseteq s /\ t # s => ~wrong(t)
  <2>. HIDE DEF wrong
  <2>. QED  BY <1>1, <1>2
<1>7. \A a \in s : \A b \in s \ {a} : Total(s \ {a}) = b.amount + Total((s \ {a}) \ {b})
  BY <1>6
<1>. HIDE DEF x, W, wrong
<1>8. Total(s \ {x}) = z.amount + Total((s \ {x}) \ {z})  BY <1>4, <1>5, <1>7
<1>9. Total(s \ {z}) = x.amount + Total((s \ {z}) \ {x})  BY <1>4, <1>5, <1>7
<1>10. (s \ {z}) \ {x} = (s \ {x}) \ {z}  OBVIOUS
<1>11. x.amount \in Nat /\ z.amount \in Nat  BY <1>2, <1>3, <1>4
<1>12. Total((s \ {x}) \ {z}) \in Nat
  <2>1. IsFiniteSet((s \ {x}) \ {z})  BY <1>2, FS_Subset
  <2>. QED  BY <1>2, <2>1, TotalType
<1>. DEFINE rest == (s \ {x}) \ {z}
<1>13. Total(s) = x.amount + (z.amount + Total(rest))  BY <1>4, <1>8
<1>14. z.amount + Total(s \ {z}) = z.amount + (x.amount + Total(rest))  BY <1>9, <1>10
<1>15. \A a, b, c \in Nat : a + (b + c) = b + (a + c)  OBVIOUS
<1>16. Total(s) = z.amount + Total(s \ {z})
  <2>1. Total(rest) \in Nat  BY <1>12
  <2>. HIDE DEF rest
  <2>. QED  BY <1>11, <1>13, <1>14, <1>15, <2>1
<1>. QED  BY <1>3, <1>16

\* One more receipt adds its amount.
LEMMA TotalAdds ==
  ASSUME NEW U, IsFiniteSet(U), \A r \in U : r.amount \in Nat,
         NEW y, y \notin U, y.amount \in Nat
  PROVE  Total(U \cup {y}) = Total(U) + y.amount
<1>1. IsFiniteSet(U \cup {y})  BY FS_AddElement
<1>2. Total(U \cup {y}) = y.amount + Total((U \cup {y}) \ {y})  BY <1>1, TotalWithout
<1>3. (U \cup {y}) \ {y} = U  OBVIOUS
<1>4. Total(U \cup {y}) = y.amount + Total(U)  BY <1>2, <1>3
<1>5. Total(U) \in Nat  BY TotalType
<1>. QED  BY <1>4, <1>5

\* The ledger stays finite: a step adds the receipt of one mission at most.
LEMMA FiniteLedger == Spec => []IsFiniteSet(ledger)
<1>1. Init => IsFiniteSet(ledger)  BY FS_EmptySet DEF Init
<1>2. ASSUME Inv, [Next]_vars, IsFiniteSet(ledger)  PROVE IsFiniteSet(ledger)'
  <2>1. CASE NewReceipts = {}
    <3>1. ledger' \subseteq ledger  BY <2>1 DEF NewReceipts
    <3>. QED  BY <1>2, <3>1, FS_Subset
  <2>2. CASE NewReceipts # {}
    <3>1. PICK r : ledger' = ledger \cup {r}  BY <1>2, <2>2, ReceiptWritten
    <3>. QED  BY <1>2, <3>1, FS_AddElement
  <2>. QED  BY <2>1, <2>2
<1>. QED  BY <1>1, <1>2, InvAlways, PTL DEF Spec

\* A receipt is written only as far as the order's total goes, counting every receipt the
\* order has by then, whichever missions wrote them.
THEOREM LedgerWithinTotalAlways == Spec => LedgerWithinTotal
<1>1. ASSUME Inv, [Next]_vars, IsFiniteSet(ledger), NEW r \in NewReceipts
      PROVE  Total({s \in ledger' : s.order = r.order}) <= order[r.order].is.total
  <2>1. PICK m \in Mission, o \in Order :
          /\ r = NewReceipt(m, o) /\ ledger' = ledger \cup {r}
          /\ Exists(m) /\ Payable(o, mission[m].request.amount)
    BY <1>1, ReceiptWritten
  <2>2. r.order = o /\ r.amount = mission[m].request.amount /\ r \notin ledger
    BY <2>1 DEF NewReceipt, NewReceipts
  <2>3. r.amount \in Nat  BY <1>1, <2>1, <2>2, RecordType DEF Inv
  <2>4. {s \in ledger' : s.order = o} = ReceiptsOf(o) \cup {r}  BY <2>1, <2>2 DEF ReceiptsOf
  <2>5. IsFiniteSet(ReceiptsOf(o)) /\ r \notin ReceiptsOf(o)
    BY <1>1, <2>2, FS_Subset DEF ReceiptsOf
  <2>6. \A s \in ReceiptsOf(o) : s.amount \in Nat  BY <1>1 DEF ReceiptsOf, Inv, Types, Receipt
  <2>7. /\ Total(ReceiptsOf(o)) \in Nat
        /\ Total(ReceiptsOf(o) \cup {r}) = Total(ReceiptsOf(o)) + r.amount
    BY <2>3, <2>5, <2>6, TotalType, TotalAdds
  <2>8. order[o].is.total \in Nat
    <3>1. order[o].is \in Content  BY <1>1 DEF Inv, Types, Row
    <3>. QED  BY <3>1, PaymentAssumption
  <2>9. r.amount <= order[o].is.total - Total(ReceiptsOf(o))  BY <2>1, <2>2 DEF Payable
  <2>10. Total(ReceiptsOf(o) \cup {r}) <= order[o].is.total  BY <2>3, <2>7, <2>8, <2>9
  <2>. QED  BY <2>2, <2>4, <2>10
<1>2. Inv /\ IsFiniteSet(ledger) /\ [Next]_vars =>
        [\A r \in NewReceipts :
           Total({s \in ledger' : s.order = r.order}) <= order[r.order].is.total]_vars
  BY <1>1
<1>. QED  BY <1>2, InvAlways, FiniteLedger, PTL DEF Spec, LedgerWithinTotal

-----------------------------------------------------------------------------
(* The missions keep the promise.                                               *)

\* What the promise sees of a mission and of the ledger.
IntentOf(rec) ==
  IF rec = None THEN "none"
  ELSE IF rec.status = "canceled" THEN "withdrawn"
  ELSE IF rec.status = "completed" THEN "verified"
  ELSE IF rec.written # None THEN "recorded"
  ELSE "open"

Intents == [m \in Mission |-> IntentOf(mission[m])]

Mark(r) == [mission |-> r.mission, order |-> r.order, version |-> r.version]
Marks == {Mark(r) : r \in ledger}

\* A mission goes on: the others, its receipt and the ledger stay, and it is not over.
Continues(m) ==
  /\ \A x \in Mission \ {m} : mission'[x] = mission[x]
  /\ mission'[m] \in MissionRecord
  /\ mission'[m].written = mission[m].written
  /\ mission'[m].status \notin {"completed", "canceled"}

\* The promise does not see a mission that goes on.
LEMMA ContinuesUnseen ==
  ASSUME NEW m \in Mission, Exists(m), Continues(m),
         mission[m].status \notin {"completed", "canceled"}
  PROVE  Intents' = Intents
<1>1. IntentOf(mission[m])' = IntentOf(mission[m])
  BY NoneAssumption DEF Continues, IntentOf, Exists
<1>2. \A x \in Mission \ {m} : IntentOf(mission[x])' = IntentOf(mission[x])
  BY DEF Continues, IntentOf
<1>. QED  BY <1>1, <1>2 DEF Intents

\* A mission that is blocked goes on: its inquiry may be answered.
LEMMA BlockContinues ==
  ASSUME Inv, NEW m \in Mission, Exists(m), NEW result \in Result, Block(m, result)
  PROVE  Continues(m)
<1>1. mission[m] \in MissionRecord /\ Len(inquiry) + 1 \in Nat
  BY RecordType DEF Inv, Types
<1>2. mission' = [mission EXCEPT ![m] =
        [mission[m] EXCEPT !.status = "blocked", !.confirmed = Unconfirmed,
                           !.blockedBy = Len(inquiry) + 1, !.result = result]]
  BY DEF Block, Save
<1>. QED  BY <1>1, <1>2 DEF Inv, Types, Continues, MissionRecord, Status, Unconfirmed

\* A mission goes on whatever its check says.
LEMMA AcceptContinues ==
  ASSUME Inv, NEW m \in Mission, Exists(m), NEW q, AcceptCheck(m, CheckOrder(q))
  PROVE  Continues(m)
<1>. DEFINE check == CheckOrder(q)
<1>1. mission[m] \in MissionRecord /\ DOMAIN mission = Mission  BY RecordType DEF Inv, Types
<1>2. check.status \in Checked /\ check.status \in Result  BY CheckType DEF Result
<1>3. CASE check.status = "unique_match"
  <2>1. check.view \in Snapshot  BY <1>3, UniqueMatch DEF Inv
  <2>2. PICK status \in {"waiting_user", "queued"} :
          mission' = [mission EXCEPT ![m] =
            [mission[m] EXCEPT !.snapshot = check.view, !.step = "update_order",
                               !.status = status, !.result = "unique_match"]]
    BY <1>3 DEF AcceptCheck, Save
  <2>. HIDE DEF check
  <2>. QED  BY <1>1, <2>1, <2>2 DEF Continues, MissionRecord, Status, Step, Result, Checked
<1>4. CASE check.status = "data_integrity_conflict"
  BY <1>2, <1>4, BlockContinues DEF AcceptCheck
<1>5. CASE check.status \notin {"unique_match", "data_integrity_conflict"}
  <2>1. PICK status \in {"waiting_external", "waiting_user"} :
          mission' = [mission EXCEPT ![m] =
            [mission[m] EXCEPT !.status = status, !.confirmed = Unconfirmed,
                               !.result = check.status]]
    BY <1>5 DEF AcceptCheck, Stop, Save
  <2>. HIDE DEF check
  <2>. QED  BY <1>1, <1>2, <2>1 DEF Continues, MissionRecord, Status, Unconfirmed
<1>. QED  BY <1>3, <1>4, <1>5

\* A mission goes on after a version conflict.
LEMMA ConflictContinues ==
  ASSUME Inv, NEW m \in Mission, Exists(m), VersionConflict(m)
  PROVE  Continues(m)
<1>1. mission[m] \in MissionRecord /\ DOMAIN mission = Mission  BY RecordType DEF Inv, Types
<1>2. mission' = [mission EXCEPT ![m] =
        [mission[m] EXCEPT !.status = "paused", !.step = "check_order",
                           !.confirmed = Unconfirmed, !.result = "version_conflict"]]
  BY DEF VersionConflict, Save
<1>. QED  BY <1>1, <1>2 DEF Continues, MissionRecord, Status, Step, Result, Unconfirmed

\* A mission that was resumed or released goes on.
LEMMA RecheckContinues ==
  ASSUME Inv, NEW m \in Mission, Exists(m),
         Save(m, Recheck(m)) \/ Save(m, [Recheck(m) EXCEPT !.blockedBy = Unblocked])
  PROVE  Continues(m)
<1>1. mission[m] \in MissionRecord /\ DOMAIN mission = Mission  BY RecordType DEF Inv, Types
<1>. DEFINE next == IF mission[m].written # None THEN "verify_order" ELSE "check_order"
            again == [mission[m] EXCEPT !.status = "queued", !.confirmed = Unconfirmed,
                                        !.step = next]
<1>2. again = Recheck(m)  BY DEF Recheck
<1>3. /\ again \in MissionRecord /\ again.written = mission[m].written
      /\ again.status = "queued"
  BY <1>1 DEF MissionRecord, Status, Step, Unconfirmed
<1>. HIDE DEF again
<1>4. LET released == [again EXCEPT !.blockedBy = Unblocked]
      IN /\ released \in MissionRecord /\ released.written = mission[m].written
         /\ released.status = "queued"
  BY <1>3 DEF MissionRecord, Unblocked
<1>. QED  BY <1>1, <1>2, <1>3, <1>4 DEF Save, Continues

\* An advance that writes no receipt goes on, or verifies the one it has.
LEMMA AdvanceContinues ==
  ASSUME Inv, NEW m \in Mission, Advance(m)
  PROVE  \/ Continues(m)
         \/ \E o \in Order : Record(m, o) /\ View(o) = mission[m].snapshot
         \/ /\ mission[m].written # None
            /\ \E new \in MissionRecord : Save(m, new) /\ new.status = "completed"
<1>1. /\ Open(m) /\ Exists(m) /\ mission[m] \in MissionRecord /\ DOMAIN mission = Mission
      /\ Consistent(mission[m], Own(m), Pending(m), approved[m])
  BY RecordType DEF Inv, Types, Open, MissionInv, Exists, Advance
<1>2. CASE mission[m].step = "check_order" /\ AcceptCheck(m, CheckOrder(mission[m].query))
  BY <1>1, <1>2, AcceptContinues
<1>3. ASSUME mission[m].step = "update_order",
             NEW timely \in BOOLEAN, UpdateOrder(m, timely)
      PROVE  \/ Continues(m)
             \/ \E o \in Order : Record(m, o) /\ View(o) = mission[m].snapshot
  <2>1. CASE AcceptCheck(m, CheckOrder(mission[m].query))
    BY <1>1, <2>1, AcceptContinues
  <2>2. CASE VersionConflict(m)
    BY <1>1, <2>2, ConflictContinues
  <2>3. ASSUME NEW status \in {"waiting_external", "waiting_user"},
               NEW result \in {"source_unavailable", "validation_error"},
               Save(m, [mission[m] EXCEPT !.status = status, !.result = result])
        PROVE  Continues(m)
    BY <1>1, <2>3 DEF Save, Continues, MissionRecord, Status, Result, Checked
  <2>4. CASE Block(m, "data_integrity_conflict")
    <3>1. "data_integrity_conflict" \in Result  BY DEF Result, Checked
    <3>. QED  BY <1>1, <2>4, <3>1, BlockContinues
  <2>. QED  BY <1>1, <1>3, <2>1, <2>2, <2>3, <2>4, UpdateOutcomes
<1>4. ASSUME mission[m].step = "verify_order", Verify(m)
      PROVE  \/ Continues(m)
             \/ /\ mission[m].written # None
                /\ \E new \in MissionRecord : Save(m, new) /\ new.status = "completed"
  <2>1. mission[m].written # None  BY <1>1, <1>4 DEF Consistent
  <2>2. CASE Block(m, "verification_mismatch")
    <3>1. "verification_mismatch" \in Result  BY DEF Result
    <3>. QED  BY <1>1, <2>2, <3>1, BlockContinues
  <2>. DEFINE done == [mission[m] EXCEPT !.status = "completed", !.step = "done",
                                         !.result = "verified"]
              later == [mission[m] EXCEPT !.status = "waiting_external",
                                          !.step = mission[m].step,
                                          !.result = "partial_success"]
  <2>3. CASE Save(m, done)
    <3>1. done \in MissionRecord /\ done.status = "completed"
      BY <1>1 DEF MissionRecord, Status, Step, Result
    <3>. QED  BY <2>1, <2>3, <3>1
  <2>4. CASE Save(m, later)
    BY <1>1, <2>4 DEF Save, Continues, MissionRecord, Status, Result
  <2>. QED  BY <1>4, <2>2, <2>3, <2>4 DEF Verify
<1>. QED  BY <1>1, <1>2, <1>3, <1>4 DEF Advance

\* One mission's intent moves where a step saves a record of it.
LEMMA IntentMoves ==
  ASSUME Inv, NEW m \in Mission, NEW new \in MissionRecord, Save(m, new)
  PROVE  Intents' = [Intents EXCEPT ![m] = IntentOf(new)] /\ Intents[m] = IntentOf(mission[m])
<1>1. mission'[m] = new /\ \A x \in Mission \ {m} : mission'[x] = mission[x]
  BY DEF Inv, Types, Save
<1>2. /\ IntentOf(mission[m])' = IntentOf(new)
      /\ \A x \in Mission \ {m} : IntentOf(mission[x])' = IntentOf(mission[x])
  BY <1>1 DEF IntentOf
<1>. QED  BY <1>2 DEF Intents

\* The refinement mapping of Promise, in the names above.
LEMMA PromiseMapping ==
  /\ Promise!Init <=> Intents = [m \in Mission |-> "none"] /\ Marks = {}
  /\ \A m \in Mission : /\ Intents[m] = "none" /\ Marks' = Marks
                            /\ Intents' = [Intents EXCEPT ![m] = "open"] => Promise!Open(m)
  /\ \A m \in Mission : /\ Intents[m] = "open" /\ Marks' = Marks
                            /\ Intents' = [Intents EXCEPT ![m] = "withdrawn"]
                         => Promise!Withdraw(m)
  /\ \A m \in Mission : /\ Intents[m] = "recorded" /\ Marks' = Marks
                            /\ Intents' = [Intents EXCEPT ![m] = "verified"]
                         => Promise!Verify(m)
  /\ \A m \in Mission : \A mark \in [mission: {m}, order: Order, version: Nat] :
       /\ Intents[m] = "open" /\ Intents' = [Intents EXCEPT ![m] = "recorded"]
       /\ Marks' = Marks \cup {mark}
       /\ \A r \in Marks : r.order = mark.order => r.version < mark.version
       => Promise!Record(m)
  /\ Intents' = Intents /\ Marks' = Marks => UNCHANGED Promise!vars
BY DEF Intents, IntentOf, Marks, Mark, Promise!Init, Promise!Open, Promise!Withdraw,
   Promise!Record, Promise!Verify, Promise!Become, Promise!vars

\* A receipt that is written is of a later version than every other of its order.
LEMMA RecordRefines ==
  ASSUME Inv, NEW m \in Mission, NEW o \in Order, Record(m, o), Exists(m),
         mission[m].written = None, mission[m].status \notin {"completed", "canceled"}
  PROVE  Promise!Record(m)
<1>. DEFINE receipt == NewReceipt(m, o)
            mark == Mark(receipt)
            new == [mission[m] EXCEPT !.status = "queued", !.step = "verify_order",
                                      !.written = receipt, !.result = "verification_pending"]
<1>1. mission[m] \in MissionRecord /\ mission[m].request.amount \in Nat
  BY RecordType DEF Inv
<1>2. order[o].version \in Nat /\ order[o].version + 1 \in Nat  BY DEF Inv, Types, Row
<1>3. receipt \in Receipt  BY <1>1, <1>2 DEF Receipt, NewReceipt
<1>4. Save(m, new) /\ ledger' = ledger \cup {receipt}  BY DEF Record, NewReceipt
<1>5. new \in MissionRecord /\ new.status = "queued" /\ new.written = receipt /\ receipt # None
  BY <1>1, <1>3, NoneAssumption DEF MissionRecord, Status, Step, Result
<1>6. Intents[m] = "open" /\ Intents' = [Intents EXCEPT ![m] = "recorded"]
  <2>1. IntentOf(mission[m]) = "open"  BY DEF IntentOf, Exists
  <2>2. IntentOf(new) = "recorded"  BY <1>5, NoneAssumption DEF IntentOf
  <2>. QED  BY <1>4, <1>5, <2>1, <2>2, IntentMoves
<1>7. mark \in [mission: {m}, order: Order, version: Nat] /\ mark.order = o
      /\ mark.version = order[o].version + 1
  BY <1>2 DEF Mark, NewReceipt
<1>8. Marks' = Marks \cup {mark}  BY <1>4 DEF Marks
<1>9. ASSUME NEW r \in Marks, r.order = mark.order  PROVE r.version < mark.version
  <2>1. PICK s \in ledger : r = Mark(s)  BY DEF Marks
  <2>2. r.version = s.version /\ s.order = o  BY <1>7, <1>9, <2>1 DEF Mark
  <2>3. s.version \in Nat /\ s.version <= order[o].version
    BY <2>1, <2>2 DEF Inv, Types, Receipt, VersionsReached
  <2>. QED  BY <1>2, <1>7, <2>2, <2>3
<1>. QED  BY <1>6, <1>7, <1>8, <1>9, PromiseMapping

\* A step that leaves the ledger alone and every mission as it is, or one that goes on, is not
\* seen by the promise.
LEMMA Unseen ==
  ASSUME Marks' = Marks, Intents' = Intents
  PROVE  [Promise!Next]_(Promise!vars)
BY PromiseMapping

\* Every step of the missions is a step of the promise or a stutter.
LEMMA PromiseStep ==
  ASSUME Inv, [Next]_vars
  PROVE  [Promise!Next]_(Promise!vars)
<1>1. ASSUME NEW m \in Mission, NEW r \in Request, Create(m, r)
      PROVE  Promise!Open(m)
  <2>1. NewMission(r) \in MissionRecord
    BY PaymentAssumption DEF NewMission, MissionRecord, Status, Step, Result, Unconfirmed,
       Unblocked
  <2>2. Save(m, NewMission(r)) /\ Marks' = Marks /\ mission[m] = None
    BY <1>1 DEF Create, Exists, Marks
  <2>3. IntentOf(mission[m]) = "none" /\ IntentOf(NewMission(r)) = "open"
    BY <2>1, <2>2, NoneAssumption DEF IntentOf, NewMission
  <2>. QED  BY <2>1, <2>2, <2>3, IntentMoves, PromiseMapping
<1>2. ASSUME NEW m \in Mission, Advance(m)
      PROVE  [Promise!Next]_(Promise!vars)
  <2>1. Open(m) /\ Exists(m) /\ mission[m].status \notin {"completed", "canceled"}
    BY <1>2 DEF Advance, Open
  <2>2. ASSUME NEW o \in Order, Record(m, o), mission[m].step = "update_order"
        PROVE  Promise!Record(m)
    <3>1. mission[m].written = None  BY <2>1, <2>2 DEF Inv, MissionInv, Exists, Consistent
    <3>. QED  BY <2>1, <2>2, <3>1, RecordRefines
  <2>3. CASE UNCHANGED ledger
    <3>1. Marks' = Marks  BY <2>3 DEF Marks
    <3>2. CASE Continues(m)  BY <2>1, <3>1, <3>2, ContinuesUnseen, Unseen
    <3>3. ASSUME mission[m].written # None, NEW new \in MissionRecord, Save(m, new),
                 new.status = "completed"
          PROVE  Promise!Verify(m)
      <4>1. IntentOf(mission[m]) = "recorded"  BY <2>1, <3>3 DEF IntentOf, Exists
      <4>2. IntentOf(new) = "verified"  BY <3>3, NoneAssumption DEF IntentOf
      <4>. QED  BY <3>1, <3>3, <4>1, <4>2, IntentMoves, PromiseMapping
    <3>4. ASSUME NEW o \in Order, Record(m, o), View(o) = mission[m].snapshot  PROVE FALSE
      <4>1. ledger' = ledger \cup {NewReceipt(m, o)}  BY <3>4 DEF Record, NewReceipt
      <4>2. NewReceipt(m, o) \in ledger /\ NewReceipt(m, o).version = order[o].version + 1
            /\ NewReceipt(m, o).order = o
        BY <2>3, <4>1 DEF NewReceipt
      <4>3. order[o].version \in Nat  BY DEF Inv, Types, Row
      <4>. QED  BY <4>2, <4>3 DEF Inv, VersionsReached
    <3>. QED  BY <1>2, <3>2, <3>3, <3>4, AdvanceContinues DEF Promise!Next
  <2>4. CASE ~UNCHANGED ledger
    <3>1. PICK o \in Order : Record(m, o) /\ mission[m].step = "update_order"
      BY <1>2, <2>4, AdvanceOutcomes
    <3>. QED  BY <2>2, <3>1 DEF Promise!Next
  <2>. QED  BY <2>3, <2>4
<1>3. ASSUME NEW m \in Mission, NEW v \in {order[o].version : o \in Order}, Confirm(m, v)
      PROVE  [Promise!Next]_(Promise!vars)
  <2>1. /\ Exists(m) /\ mission[m].status = "waiting_user" /\ Marks' = Marks
        /\ mission[m] \in MissionRecord /\ DOMAIN mission = Mission
    BY <1>3, RecordType DEF Confirm, Marks, Inv, Types
  <2>2. v \in Nat  BY DEF Inv, Types, Row
  <2>3. CASE AcceptCheck(m, CheckOrder(mission[m].query))
    BY <2>1, <2>3, AcceptContinues, ContinuesUnseen, Unseen
  <2>4. CASE VersionConflict(m)
    BY <2>1, <2>4, ConflictContinues, ContinuesUnseen, Unseen
  <2>5. CASE Save(m, [mission[m] EXCEPT !.confirmed = v, !.status = "queued"])
    <3>1. Continues(m)  BY <2>1, <2>2, <2>5 DEF Save, Continues, MissionRecord, Status
    <3>. QED  BY <2>1, <3>1, ContinuesUnseen, Unseen
  <2>. QED  BY <1>3, <2>3, <2>4, <2>5 DEF Confirm
<1>4. ASSUME NEW m \in Mission, Resume(m)
      PROVE  [Promise!Next]_(Promise!vars)
  <2>1. Exists(m) /\ mission[m].status \notin {"completed", "canceled"} /\ Marks' = Marks
        /\ Save(m, Recheck(m))
    BY <1>4 DEF Resume, Open, Marks
  <2>. QED  BY <2>1, RecheckContinues, ContinuesUnseen, Unseen
<1>5. ASSUME NEW m \in Mission, Cancel(m)
      PROVE  Promise!Withdraw(m)
  <2>. DEFINE new == [mission[m] EXCEPT !.status = "canceled", !.step = "done",
                                        !.result = "canceled"]
  <2>1. Exists(m) /\ mission[m].written = None /\ mission[m].status # "canceled"
        /\ Save(m, new) /\ Marks' = Marks
    BY <1>5 DEF Cancel, Marks
  <2>2. new \in MissionRecord /\ new.status = "canceled"
    BY <2>1, RecordType DEF Inv, MissionRecord, Status, Step, Result
  <2>3. IntentOf(mission[m]) = "open"
    BY <1>5, <2>1, CancelKeeps DEF IntentOf, Exists
  <2>4. IntentOf(new) = "withdrawn"  BY <2>2, NoneAssumption DEF IntentOf
  <2>. QED  BY <2>1, <2>2, <2>3, <2>4, IntentMoves, PromiseMapping
<1>6. ASSUME NEW m \in Mission, NEW q \in Query, Clarify(m, q)
      PROVE  [Promise!Next]_(Promise!vars)
  <2>1. /\ Exists(m) /\ mission[m].status = "waiting_user" /\ Marks' = Marks
        /\ mission[m] \in MissionRecord /\ DOMAIN mission = Mission
    BY <1>6, RecordType DEF Clarify, Marks, Inv, Types
  <2>2. Refinement(mission[m].query, q) \in Query
    BY <2>1 DEF Refinement, Query, MissionRecord
  <2>3. mission' = [mission EXCEPT ![m] =
          [mission[m] EXCEPT !.query = Refinement(mission[m].query, q), !.snapshot = None,
                             !.status = "queued", !.step = "check_order",
                             !.confirmed = Unconfirmed]]
    BY <1>6 DEF Clarify, Save
  <2>4. Continues(m)
    BY <2>1, <2>2, <2>3 DEF Continues, MissionRecord, Status, Step, Unconfirmed
  <2>. QED  BY <2>1, <2>4, ContinuesUnseen, Unseen
<1>7. ASSUME NEW child \in 1..Len(inquiry), Resolve(child)
      PROVE  [Promise!Next]_(Promise!vars)
  <2>1. PICK m \in Mission : m = inquiry[child].parent
    <3>1. inquiry[child] \in Inquiry  BY DEF Inv, Types
    <3>. QED  BY <3>1 DEF Inquiry
  <2>2. mission[m].status = "blocked"  BY <1>7, <2>1, ResolveKeeps
  <2>3. child \in Pending(m)  BY <1>7, <2>1 DEF Resolve, Pending
  <2>4. Exists(m)  BY <2>3 DEF Inv, MissionInv, Exists
  <2>5. Marks' = Marks /\ Save(m, [Recheck(m) EXCEPT !.blockedBy = Unblocked])
    BY <1>7, <2>1 DEF Resolve, Marks
  <2>. QED  BY <2>2, <2>4, <2>5, RecheckContinues, ContinuesUnseen, Unseen
<1>8. CASE UNCHANGED <<ledger, mission>>
  <2>1. Marks' = Marks /\ Intents' = Intents  BY <1>8 DEF Marks, Intents, IntentOf
  <2>. QED  BY <2>1, Unseen
<1>. QED
  BY <1>1, <1>2, <1>3, <1>4, <1>5, <1>6, <1>7, <1>8
  DEF Next, vars, Amend, Age, Switch, Promise!Next

\* Whatever is called, repeated or changed meanwhile, an intent is recorded at most once or
\* withdrawn, only a recorded one is verified, and no two receipts share a version.
THEOREM KeepsPromiseAlways == Spec => KeepsPromise
<1>1. Init => Promise!Init
  BY PromiseMapping DEF Init, Intents, IntentOf, Marks
<1>2. Inv /\ [Next]_vars => [Promise!Next]_(Promise!vars)  BY PromiseStep
<1>. QED  BY <1>1, <1>2, InvAlways, PTL DEF Spec, KeepsPromise, Promise!Spec
=============================================================================
