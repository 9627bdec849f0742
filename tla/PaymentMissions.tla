--------------------------- MODULE PaymentMissions ---------------------------
(* The payment missions of one property.  A mission checks its order, waits for *)
(* a confirmation where one is due, records one receipt and checks again; every *)
(* call is one transaction under the property's advisory lock, and people and   *)
(* agents call in any order and repeat what they call.  Meanwhile the source of *)
(* the orders, its freshness and the property's switches change at will.  It    *)
(* implements PaymentPromise.                                                   *)
EXTENDS Naturals, Sequences, FiniteSets, FiniteSetsExt

CONSTANTS
  Order,
  Mission,     \* stands for the idempotency keys of create; one mission each
  Content,     \* what the source may say of an order: status, room, guest, total, expected
  Request,     \* what a mission may be asked: query, amount, deposit
  Anything,    \* a criterion left open
  None,
  MaxChanges   \* bound on changes made outside of the missions

VARIABLES
  state,     \* property_state: the switches, and whether the source is usable
  order,     \* the rows of orders
  fresh,     \* orders whose source_checked_at is within five minutes
  ledger,    \* receipts, append-only
  mission,
  inquiry,   \* the investigation missions, in the order they were opened
  approved,  \* what each mission's order was when somebody last confirmed it
  changes

source == <<state, order, fresh>>
vars == <<state, order, fresh, ledger, mission, inquiry, approved, changes>>

-----------------------------------------------------------------------------
(* Orders, receipts and what a check makes of them. *)

Guest == {c.guest : c \in Content}

Row == [is: Content, version: Nat \ {0}, checkedAt: Nat]

Receipt == [mission: Mission, order: Order, amount: Nat, version: Nat]

ReceiptsOf(o) == {r \in ledger : r.order = o}

Total(receipts) == MapThenSumSet(LAMBDA r : r.amount, receipts)

\* The snapshot of a check: the row with its receipts, from which every sum derives.
View(o) == [order |-> o, row |-> order[o], receipts |-> ReceiptsOf(o)]

Snapshot == [order: Order, row: Row, receipts: SUBSET Receipt]

\* The criteria of a query; the guest stands for those that several orders may meet and a
\* change of an order may affect.
Query == [guest: Guest \cup {Anything}, order: Order \cup {Anything}]
Unspecific == [guest |-> Anything, order |-> Anything]
ById(o) == [guest |-> Anything, order |-> o]

ASSUME PaymentAssumption ==
  /\ \A c \in Content : c.total \in Nat
  /\ Request \subseteq [amount: Nat \ {0}, deposit: BOOLEAN, query: Query]
  /\ Anything \notin Order \cup Guest
  /\ MaxChanges \in Nat

Active(o) == order[o].is.status # "canceled"

Matches(q) ==
  {o \in Order : /\ Active(o)
                 /\ q.order \in {Anything, o}
                 /\ q.guest \in {Anything, order[o].is.guest}}

\* Other active orders of the same room and nights, whether the query matches them or not.
Rivals(o) == {p \in Order \ {o} : Active(p) /\ order[p].is.room = order[o].is.room}

\* Mutant: only the orders the query names are compared.
Conflicting_OfMatches(found) == \E o \in found : Rivals(o) \cap found # {}

Conflicting(found) == \E o \in found : Rivals(o) # {}

SourceReady == state.sandbox

\* check_order: the status, and the order only where it is "unique_match".
CheckOrder(q) ==
  LET found == Matches(q)
      only == CHOOSE o \in found : TRUE
      status == IF ~SourceReady THEN "source_unavailable"
                ELSE IF q = Unspecific THEN "needs_more_criteria"
                ELSE IF found = {} THEN "not_found"
                ELSE IF Conflicting(found) THEN "data_integrity_conflict"
                ELSE IF found # {only} THEN "needs_more_criteria"
                ELSE IF only \notin fresh THEN "source_unavailable"
                ELSE IF Total(ReceiptsOf(only)) > order[only].is.total
                     THEN "data_integrity_conflict"
                ELSE "unique_match"
  IN [status |-> status, view |-> IF status = "unique_match" THEN View(only) ELSE None]

-----------------------------------------------------------------------------
(* Missions. *)

Status == {"queued", "paused", "blocked", "waiting_user", "waiting_external",
           "completed", "canceled"}
Step == {"check_order", "update_order", "verify_order", "done"}
Checked == {"unique_match", "not_found", "needs_more_criteria", "data_integrity_conflict",
            "source_unavailable"}
Result == Checked \cup {"none", "version_conflict", "validation_error", "verification_pending",
                        "verification_mismatch", "partial_success", "verified", "canceled"}

MissionRecord ==
  [request: Request, query: Query, status: Status, step: Step, snapshot: Snapshot \cup {None},
   written: Receipt \cup {None}, confirmed: Nat, blockedBy: Nat, result: Result]

ASSUME NoneAssumption ==
  /\ None \notin Snapshot
  /\ None \notin Receipt
  /\ None \notin MissionRecord

\* confirmed_version and blocked_by are null.
Unconfirmed == 0
Unblocked == 0

Exists(m) == mission[m] # None
Open(m) == Exists(m) /\ mission[m].status \notin {"completed", "blocked", "canceled"}

NewMission(r) ==
  [request |-> r, query |-> r.query, status |-> "queued", step |-> "check_order",
   snapshot |-> None, written |-> None, confirmed |-> Unconfirmed, blockedBy |-> Unblocked,
   result |-> "none"]

Inquiry == [parent: Mission, kind: {"investigate_order_conflict", "verify_payment"},
            status: {"waiting_user", "completed"}]

Save(m, new) == mission' = [mission EXCEPT ![m] = new]

TypeOK ==
  /\ state \in [sandbox: BOOLEAN, writes: BOOLEAN, direct: BOOLEAN]
  /\ order \in [Order -> Row]
  /\ fresh \subseteq Order
  /\ ledger \subseteq Receipt
  /\ mission \in [Mission -> MissionRecord \cup {None}]
  /\ inquiry \in Seq(Inquiry)
  /\ \A m \in Mission : Exists(m) => mission[m].blockedBy \in 0..Len(inquiry)
  /\ approved \in [Mission -> Snapshot \cup {None}]
  /\ changes \in 0..MaxChanges

Init ==
  /\ state \in [sandbox: {TRUE}, writes: {TRUE}, direct: BOOLEAN]
  /\ order \in [Order -> [is: Content, version: {1}, checkedAt: {0}]]
  /\ fresh = Order
  /\ ledger = {}
  /\ mission = [m \in Mission |-> None]
  /\ inquiry = <<>>
  /\ approved = [m \in Mission |-> None]
  /\ changes = 0

-----------------------------------------------------------------------------
(* The tools, inside one transaction. *)

\* A confirmation is due unless the owner lets agents modify and the deposit is the expected one.
Unexpected(request, row) ==
  request.deposit /\ row.is.expected # None /\ request.amount # row.is.expected

ConfirmationDue(m, row) == ~state.direct \/ Unexpected(mission[m].request, row)

Approved(m, row) == mission[m].confirmed = row.version

Stop(m, status, result) ==
  Save(m, [mission[m] EXCEPT !.status = status, !.confirmed = Unconfirmed, !.result = result])

\* Mutant: the mission points one inquiry too far.
Block_NextId(m, result) ==
  /\ inquiry' = Append(inquiry,
       [parent |-> m, status |-> "waiting_user", kind |-> "investigate_order_conflict"])
  /\ Save(m, [mission[m] EXCEPT !.status = "blocked", !.confirmed = Unconfirmed,
                                !.blockedBy = Len(inquiry) + 2, !.result = result])

Block(m, result) ==
  /\ inquiry' = Append(inquiry,
       [parent |-> m, status |-> "waiting_user",
        kind |-> IF mission[m].written # None THEN "verify_payment"
                 ELSE "investigate_order_conflict"])
  /\ Save(m, [mission[m] EXCEPT !.status = "blocked", !.confirmed = Unconfirmed,
                                !.blockedBy = Len(inquiry) + 1, !.result = result])

AcceptCheck(m, check) ==
  CASE check.status = "unique_match" ->
         LET waits == ConfirmationDue(m, check.view.row) /\ ~Approved(m, check.view.row)
         IN /\ Save(m, [mission[m] EXCEPT !.snapshot = check.view, !.step = "update_order",
                                          !.status = IF waits THEN "waiting_user" ELSE "queued",
                                          !.result = "unique_match"])
            /\ UNCHANGED inquiry
    [] check.status = "data_integrity_conflict" -> Block(m, check.status)
    [] check.status = "source_unavailable" ->
         Stop(m, "waiting_external", check.status) /\ UNCHANGED inquiry
    [] OTHER -> Stop(m, "waiting_user", check.status) /\ UNCHANGED inquiry

\* Back to the first check, without the confirmation.
VersionConflict(m) ==
  /\ Save(m, [mission[m] EXCEPT !.status = "paused", !.step = "check_order",
                                !.confirmed = Unconfirmed, !.result = "version_conflict"])
  /\ UNCHANGED inquiry

\* Mutant: the version alone is compared.
Same_Version(current, before) ==
  current.order = before.order /\ current.row.version = before.row.version

Same(current, before) == current = before

\* Mutant: the amount is held against the total instead of the balance.
Payable_OfTotal(o, amount) ==
  order[o].is.status \in {"confirmed", "checked_in"} /\ amount <= order[o].is.total

Payable(o, amount) ==
  /\ order[o].is.status \in {"confirmed", "checked_in"}
  /\ amount <= order[o].is.total - Total(ReceiptsOf(o))

\* Mutant: the version of the order stays.
Record_SameVersion(m, o) ==
  LET receipt == [mission |-> m, order |-> o, amount |-> mission[m].request.amount,
                  version |-> order[o].version + 1]
  IN /\ ledger' = ledger \cup {receipt}
     /\ order' = [order EXCEPT ![o].checkedAt = @ + 1]
     /\ fresh' = fresh \cup {o}
     /\ Save(m, [mission[m] EXCEPT !.status = "queued", !.step = "verify_order",
                                   !.written = receipt, !.result = "verification_pending"])

\* The ledger, the order's version and the mission change in one commit.
Record(m, o) ==
  LET receipt == [mission |-> m, order |-> o, amount |-> mission[m].request.amount,
                  version |-> order[o].version + 1]
  IN /\ ledger' = ledger \cup {receipt}
     /\ order' = [order EXCEPT ![o].version = @ + 1, ![o].checkedAt = @ + 1]
     /\ fresh' = fresh \cup {o}
     /\ Save(m, [mission[m] EXCEPT !.status = "queued", !.step = "verify_order",
                                   !.written = receipt, !.result = "verification_pending"])

\* timely: the receipt was not received in the future of the server's clock.
UpdateOrder(m, timely) ==
  LET check == CheckOrder(mission[m].query)
      view == check.view
      refuse(status, result) ==
        Save(m, [mission[m] EXCEPT !.status = status, !.result = result]) /\ UNCHANGED inquiry
  IN IF check.status # "unique_match"
       THEN AcceptCheck(m, check) /\ UNCHANGED <<order, fresh, ledger>>
     ELSE IF ~Same(view, mission[m].snapshot)
       THEN VersionConflict(m) /\ UNCHANGED <<order, fresh, ledger>>
     ELSE IF ~state.writes
       THEN refuse("waiting_external", "source_unavailable") /\ UNCHANGED <<order, fresh, ledger>>
     ELSE IF ConfirmationDue(m, view.row) /\ ~Approved(m, view.row)
       THEN AcceptCheck(m, check) /\ UNCHANGED <<order, fresh, ledger>>
     ELSE IF ~(timely /\ Payable(view.order, mission[m].request.amount))
       THEN refuse("waiting_user", "validation_error") /\ UNCHANGED <<order, fresh, ledger>>
     ELSE IF \E r \in ledger : r.mission = m
       THEN Block(m, "data_integrity_conflict") /\ UNCHANGED <<order, fresh, ledger>>
     ELSE Record(m, view.order) /\ UNCHANGED inquiry

\* verification_matches: the order differs from the snapshot by this mission's receipt only.
VerificationMatches(m, check) ==
  LET before == mission[m].snapshot
      written == mission[m].written
      now == check.view
  IN /\ check.status = "unique_match"
     /\ written \in now.receipts
     /\ now.order = before.order
     /\ now.row.is = before.row.is
     /\ now.row.version = written.version
     /\ now.row.version = before.row.version + 1
     /\ Total(now.receipts) = Total(before.receipts) + mission[m].request.amount

Verify(m) ==
  LET check == CheckOrder(ById(mission[m].written.order))
      save(status, step, result) ==
        /\ Save(m, [mission[m] EXCEPT !.status = status, !.step = step, !.result = result])
        /\ UNCHANGED inquiry
  IN IF VerificationMatches(m, check) THEN save("completed", "done", "verified")
     ELSE IF check.status = "source_unavailable"
       THEN save("waiting_external", mission[m].step, "partial_success")
     ELSE Block(m, "verification_mismatch")

-----------------------------------------------------------------------------
(* The calls. *)

\* A known key returns its mission, or a conflict if the request differs.
Create(m, r) ==
  /\ ~Exists(m)
  /\ Save(m, NewMission(r))
  /\ UNCHANGED <<source, ledger, inquiry, approved, changes>>

\* A call of update_order with the mission's own command is the same step, once its order is
\* checked; with any other command, or when its receipt exists, it changes nothing.
Advance(m) ==
  /\ Open(m)
  /\ \/ /\ mission[m].step = "check_order"
        /\ AcceptCheck(m, CheckOrder(mission[m].query))
        /\ UNCHANGED <<order, fresh, ledger>>
     \/ /\ mission[m].step = "update_order"
        /\ \E timely \in BOOLEAN : UpdateOrder(m, timely)
     \/ /\ mission[m].step = "verify_order"
        /\ Verify(m)
        /\ UNCHANGED <<order, fresh, ledger>>
  /\ UNCHANGED <<state, approved, changes>>

Confirm(m, expectedVersion) ==
  LET check == CheckOrder(mission[m].query)
      stands == /\ Same(check.view, mission[m].snapshot)
                /\ expectedVersion = check.view.row.version
  IN /\ Exists(m)
     /\ mission[m].step = "update_order"
     /\ mission[m].status = "waiting_user"
     /\ mission[m].written = None
     /\ \/ /\ check.status # "unique_match"
           /\ AcceptCheck(m, check)
           /\ UNCHANGED approved
        \/ /\ check.status = "unique_match"
           /\ ~stands
           /\ VersionConflict(m)
           /\ UNCHANGED approved
        \/ /\ check.status = "unique_match"
           /\ stands
           /\ Save(m, [mission[m] EXCEPT !.confirmed = expectedVersion, !.status = "queued"])
           /\ approved' = [approved EXCEPT ![m] = check.view]
           /\ UNCHANGED inquiry
     /\ UNCHANGED <<source, ledger, changes>>

\* Mutant: a mission with a receipt starts over, too.
Recheck_FromTheStart(m) ==
  [mission[m] EXCEPT !.status = "queued", !.confirmed = Unconfirmed, !.step = "check_order"]

Recheck(m) ==
  [mission[m] EXCEPT !.status = "queued", !.confirmed = Unconfirmed,
     !.step = IF mission[m].written # None THEN "verify_order" ELSE "check_order"]

Resume(m) ==
  /\ Open(m)
  /\ Save(m, Recheck(m))
  /\ approved' = [approved EXCEPT ![m] = None]
  /\ UNCHANGED <<source, ledger, inquiry, changes>>

\* Mutant: a blocked mission may be withdrawn.
Cancel_Blocked(m) ==
  /\ Exists(m)
  /\ mission[m].status # "canceled"
  /\ mission[m].written = None
  /\ Save(m, [mission[m] EXCEPT !.status = "canceled", !.step = "done", !.result = "canceled"])
  /\ UNCHANGED <<source, ledger, inquiry, approved, changes>>

Cancel(m) ==
  /\ Exists(m)
  /\ mission[m].status # "canceled"
  /\ mission[m].written = None
  /\ mission[m].blockedBy = Unblocked
  /\ Save(m, [mission[m] EXCEPT !.status = "canceled", !.step = "done", !.result = "canceled"])
  /\ UNCHANGED <<source, ledger, inquiry, approved, changes>>

Resolved(m) ==
  LET written == mission[m].written
  IN IF written # None
     THEN VerificationMatches(m, CheckOrder(ById(written.order)))
     ELSE CheckOrder(mission[m].query).status = "unique_match"

\* An incident that is not resolved yet only notes what was observed.
Resolve(child) ==
  LET m == inquiry[child].parent
  IN /\ inquiry[child].status = "waiting_user"
     /\ Resolved(m)
     /\ inquiry' = [inquiry EXCEPT ![child].status = "completed"]
     /\ Save(m, [Recheck(m) EXCEPT !.blockedBy = Unblocked])
     /\ approved' = [approved EXCEPT ![m] = None]
     /\ UNCHANGED <<source, ledger, changes>>

\* Mutant: what is supplied replaces the criteria.
Refinement_Replaces(previous, supplied) == supplied

Refinement(previous, supplied) ==
  [key \in DOMAIN previous |-> IF supplied[key] = Anything THEN previous[key] ELSE supplied[key]]

Clarify(m, supplied) ==
  LET previous == mission[m].query
  IN /\ Exists(m)
     /\ mission[m].written = None
     /\ mission[m].status = "waiting_user"
     /\ mission[m].result \in {"not_found", "needs_more_criteria"}
     /\ supplied # Unspecific
     /\ \A key \in DOMAIN previous :
          supplied[key] = Anything \/ previous[key] \in {Anything, supplied[key]}
     /\ Save(m, [mission[m] EXCEPT !.query = Refinement(previous, supplied), !.snapshot = None,
                                   !.status = "queued", !.step = "check_order",
                                   !.confirmed = Unconfirmed])
     /\ UNCHANGED <<source, ledger, inquiry, approved, changes>>

-----------------------------------------------------------------------------
(* What happens around the missions. *)

\* The source changes an order, under a new version or not, and may check it anew.
Amend(o, content, bump, checked) ==
  /\ changes < MaxChanges
  /\ changes' = changes + 1
  /\ order' = [order EXCEPT ![o].is = content, ![o].version = @ + bump,
                            ![o].checkedAt = @ + (IF checked THEN 1 ELSE 0)]
  /\ fresh' = IF checked THEN fresh \cup {o} ELSE fresh
  /\ UNCHANGED <<state, ledger, mission, inquiry, approved>>

Age(o) ==
  /\ changes < MaxChanges
  /\ changes' = changes + 1
  /\ fresh' = fresh \ {o}
  /\ UNCHANGED <<state, order, ledger, mission, inquiry, approved>>

Switch(flag) ==
  /\ changes < MaxChanges
  /\ changes' = changes + 1
  /\ state' = [state EXCEPT ![flag] = ~@]
  /\ UNCHANGED <<order, fresh, ledger, mission, inquiry, approved>>

Next ==
  \/ \E m \in Mission :
       \/ \E r \in Request : Create(m, r)
       \/ Advance(m)
       \/ \E v \in {order[o].version : o \in Order} : Confirm(m, v)
       \/ Resume(m)
       \/ Cancel(m)
       \/ \E q \in Query : Clarify(m, q)
  \/ \E child \in 1..Len(inquiry) : Resolve(child)
  \/ \E o \in Order :
       \/ \E content \in Content, bump \in 0..1, checked \in BOOLEAN :
            Amend(o, content, bump, checked)
       \/ Age(o)
  \/ \E flag \in DOMAIN state : Switch(flag)

Spec == Init /\ [][Next]_vars

-----------------------------------------------------------------------------
(* Properties. *)

NewReceipts == ledger' \ ledger

\* Where a confirmation is due when a receipt is written (the switch may have been turned, or
\* the expected deposit changed, since the check), somebody confirmed this very order after the
\* last resume or repair: every column and every earlier receipt of it.
ApprovedIsPaid ==
  [][\A r \in NewReceipts :
       ConfirmationDue(r.mission, order[r.order]) => approved[r.mission] = View(r.order)]_vars

\* The receipts of an order never add up to more than its total when one is written, though
\* several missions checked their amounts against the same balance.
LedgerWithinTotal ==
  [][\A r \in NewReceipts :
       Total({s \in ledger' : s.order = r.order}) <= order[r.order].is.total]_vars

\* No payment is booked on one of two active orders of a room, even if the query names one of
\* them exactly and the other appeared after the check.
NoHiddenOverlap ==
  [][\A r \in NewReceipts : Active(r.order) /\ Rivals(r.order) = {}]_vars

\* What clarifications made of a query still is what the request asked for.
AsAsked ==
  [][\A r \in NewReceipts : r.order \in Matches(mission[r.mission].request.query)]_vars

\* Every receipt is due when it is written: confirmed as the order is, on an order without a
\* rival, for what was asked at first.
EachReceiptIsDue == ApprovedIsPaid /\ NoHiddenOverlap /\ AsAsked

\* A mission is blocked exactly while one inquiry about it is open, the one it points at:
\* nobody is left blocked for good by a lost inquiry, or released by an old one.
InquiryHolds ==
  \A m \in Mission :
    LET pending == {i \in 1..Len(inquiry) : /\ inquiry[i].parent = m
                                            /\ inquiry[i].status = "waiting_user"}
    IN Exists(m) => IF mission[m].status = "blocked" THEN pending = {mission[m].blockedBy}
                    ELSE pending = {} /\ mission[m].blockedBy = Unblocked

\* A mission and the ledger agree after every call: the receipt it speaks of is in the ledger,
\* one version after what it had checked, and is verified or nothing else.
ReceiptStands ==
  \A m \in Mission : Exists(m) =>
    LET written == mission[m].written
    IN /\ {r \in ledger : r.mission = m} = IF written = None THEN {} ELSE {written}
       /\ written = None => mission[m].step # "verify_order" /\ mission[m].status # "completed"
       /\ written # None =>
            /\ mission[m].snapshot # None
            /\ written.version = mission[m].snapshot.row.version + 1
            /\ \/ mission[m].step = "verify_order"
               \/ mission[m].step = "done" /\ mission[m].status = "completed"

\* Missions, inquiries and receipts agree after every call (block, resolve, cancel, resume and
\* the one write of update_order).
MissionsHold == InquiryHolds /\ ReceiptStands

Promise == INSTANCE PaymentPromise WITH
  intent <- [m \in Mission |->
               IF mission[m] = None THEN "none"
               ELSE IF mission[m].status = "canceled" THEN "withdrawn"
               ELSE IF mission[m].status = "completed" THEN "verified"
               ELSE IF mission[m].written # None THEN "recorded"
               ELSE "open"],
  ledger <- {[mission |-> r.mission, order |-> r.order, version |-> r.version] : r \in ledger}

\* The missions implement PaymentPromise, whatever is called, repeated or changed meanwhile.
KeepsPromise == Promise!Spec
=============================================================================
