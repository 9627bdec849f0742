--------------------------- MODULE PropertyRequests ---------------------------
(* The document of one property (state_json) and what a request does to it when *)
(* nothing else is going on: the handler functions that service.ts hands to     *)
(* repository.transact().  Three handlers stand for all of them: one that takes *)
(* nights, one that gives them back, one that moves only the booking's version, *)
(* for bookings under LINE's manual policy (no inventory version, no fence).   *)
EXTENDS Naturals, Sequences, FiniteSets

CONSTANTS Night, Booking, Request, Input

RequestInput ==
  [kind: {"create", "cancel", "pay"}, booking: Booking, nights: SUBSET Night, expects: Nat]

\* A request key is bound to its input: the stored hash refuses any other use of it.
ASSUME InputAssumption == Input \in [Request -> RequestInput]

Document ==
  [version: Nat,
   status: [Booking -> {"none", "confirmed", "cancelled"}],
   stay: [Booking -> SUBSET Night],
   rev: [Booking -> Nat],
   receipts: Seq(Request)]

NewDocument ==
  [version |-> 0, status |-> [b \in Booking |-> "none"],
   stay |-> [b \in Booking |-> {}], rev |-> [b \in Booking |-> 0], receipts |-> <<>>]

Receipted(d) == {d.receipts[i] : i \in DOMAIN d.receipts}
Occupying(d) == {b \in Booking : d.status[b] = "confirmed"}
Taken(d) == UNION {d.stay[b] : b \in Occupying(d)}

\* The receipts are not looked at.
Replays_Never(d, r) == r \notin Request

\* A receipt of the same key answers the request; the handler changes nothing.
Replays(d, r) == r \in Receipted(d)

\* A create looks at no other booking.
CreateFits_AnyNight(d, i) == i.kind = "create" /\ d.status[i.booking] = "none"

\* No booking of this id yet, and no rival on the nights (hasConflict).
CreateFits(d, i) ==
  /\ i.kind = "create"
  /\ d.status[i.booking] = "none"
  /\ i.nights \cap Taken(d) = {}

\* An order still in force, at the version the caller has seen.
CancelFits(d, i) ==
  /\ i.kind = "cancel"
  /\ d.status[i.booking] = "confirmed"
  /\ d.rev[i.booking] = i.expects

\* An order of any status, at the version the caller has seen.
PayFits(d, i) ==
  /\ i.kind = "pay"
  /\ d.status[i.booking] # "none"
  /\ d.rev[i.booking] = i.expects

Accepts(d, r) ==
  /\ ~Replays(d, r)
  /\ CreateFits(d, Input[r]) \/ CancelFits(d, Input[r]) \/ PayFits(d, Input[r])
Refuses(d, r) == ~Replays(d, r) /\ ~Accepts(d, r)

Revised(d, b) == [d.rev EXCEPT ![b] = d.rev[b] + 1]

Created(d, i) ==
  [d EXCEPT !.version = d.version + 1,
            !.status = [d.status EXCEPT ![i.booking] = "confirmed"],
            !.stay = [d.stay EXCEPT ![i.booking] = i.nights],
            !.rev = Revised(d, i.booking)]

Cancelled(d, i) ==
  [d EXCEPT !.version = d.version + 1,
            !.status = [d.status EXCEPT ![i.booking] = "cancelled"],
            !.rev = Revised(d, i.booking)]

\* A payment leaves the booking's version alone.
Paid_Unversioned(d, i) == d

\* A payment moves the booking's version and not the inventory's.
Paid(d, i) == [d EXCEPT !.rev = Revised(d, i.booking)]

\* Every handler ends by saving the receipt of its request.
After(d, r) ==
  LET i == Input[r]
      e == CASE i.kind = "create" -> Created(d, i)
             [] i.kind = "cancel" -> Cancelled(d, i)
             [] i.kind = "pay" -> Paid(d, i)
  IN [e EXCEPT !.receipts = Append(d.receipts, r)]
=============================================================================
