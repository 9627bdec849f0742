-------------------------- MODULE PropertyInventory --------------------------
(* The booking authority's room nights: bookings of staff, of LINE and of       *)
(* external sources, payment holds, retained bookings and the fences that keep  *)
(* nights back while the channel or a source has not been settled.  Each        *)
(* handler is one transaction of the property and one action here.              *)
EXTENDS Integers, FiniteSets

CONSTANTS
  Night, Booking,
  Source,     \* who made each booking: "os", "line" or "external"
  MaxFact,    \* bound on the versions a source publishes of an order
  MaxMoney,   \* an order's total, and the bound on its money, in payments of one unit
  NoFact, NoCommand

Status == {"absent", "held", "confirmed", "cancelled", "retained"}
Sync == {"not_required", "awaiting_manual_sync", "action_required", "pending",
         "verified", "review_required", "manually_confirmed"}
Hold == {"none", "active", "overdue", "converted", "released", "late_payment"}
Stay == (SUBSET Night) \ {{}}
Version == 1..MaxFact
Fact == [kind : {"upsert", "cancel"}, nights : Stay]

ASSUME SourceAssumption ==
  /\ Source \in [Booking -> {"os", "line", "external"}]
  /\ MaxFact \in Nat \ {0} /\ MaxMoney \in Nat
  /\ NoFact \notin Fact

VARIABLES
  mode,     \* the property's channel: "none" or "owlnest"
  bk,       \* bookings, with their holds, money and unsettled room changes
  op,       \* the latest channel operation of each booking
  link,     \* the source link of each booking
  fact,     \* what the source says in each version of an order, once it has reported it
  command,  \* one retain or reschedule command and its answers
  shut      \* history: nights last settled as closed at the channel

vars == <<mode, bk, op, link, fact, command, shut>>

-----------------------------------------------------------------------------
(* Records. *)

\* work says which unsettled room change the booking has: lineChannelBaselineNights ("line"),
\* osManualRoomChange ("os") or manualRoomHandling ("hand"); base is its baseline, and aside
\* the fence line:action, os:amend or manual:handling on the nights still closed there.
Bookings ==
  [status : Status, nights : SUBSET Night, hold : Hold, money : 0..MaxMoney, owned : BOOLEAN,
   sync : Sync, key : BOOLEAN, work : {"none", "line", "os", "hand"}, base : SUBSET Night,
   was : Sync, wasKey : BOOLEAN, aside : SUBSET Night]
Absent ==
  [status |-> "absent", nights |-> {}, hold |-> "none", money |-> 0, owned |-> FALSE,
   sync |-> "not_required", key |-> FALSE, work |-> "none", base |-> {},
   was |-> "not_required", wasKey |-> FALSE, aside |-> {}]

Operations ==
  [state : {"none", "sync_pending", "review_required", "sync_verified"},
   close : SUBSET Night, open : SUBSET Night, line : BOOLEAN, own : BOOLEAN]
NoOperation == [state |-> "none", close |-> {}, open |-> {}, line |-> FALSE, own |-> FALSE]
Pending(C, O, byLine, own) ==
  [state |-> "sync_pending", close |-> C, open |-> O, line |-> byLine, own |-> own]

\* at: lastAppliedBookingVersion is the booking's version; fence: review:<sourceKey>.
Links ==
  [ver : 0..MaxFact, at : BOOLEAN, diverged : BOOLEAN, tomb : SUBSET Night,
   imported : BOOLEAN, fence : SUBSET Night]
NoLink == [ver |-> 0, at |-> FALSE, diverged |-> FALSE, tomb |-> {}, imported |-> FALSE, fence |-> {}]
ImportedLink == [NoLink EXCEPT !.ver = 1, !.at = TRUE, !.imported = TRUE]

\* nights: the new stay, {} to retain the order, and forgotten once the command has a receipt;
\* fresh: both versions it expects are current; effects: times it was applied.
Commands ==
  [booking : Booking, nights : SUBSET Night, fresh : BOOLEAN,
   receipt : {"none", "applied", "not_applied"}, told : SUBSET {"applied", "not_applied"},
   effects : Nat]

-----------------------------------------------------------------------------
(* Who has a night. *)

Occupies(b) == bk[b].status \in {"held", "confirmed"}
Taken(b) == IF Occupies(b) THEN bk[b].nights ELSE {}
Current(r) == IF r.status = "confirmed" THEN r.nights ELSE {}

\* An operation's fence lives until its verified readback.
Unsettled(b) == op[b].state \in {"sync_pending", "review_required"}
OpFence(b) == IF Unsettled(b) THEN op[b].close \cup op[b].open ELSE {}

\* One fence of the booking itself may be disregarded.
Kept(b, but) == (IF but = "aside" THEN {} ELSE bk[b].aside)
                \cup (IF but = "operation" THEN {} ELSE OpFence(b)) \cup link[b].fence
Fences(b) == Kept(b, "none")

HasConflict(N, b, but) ==
  \/ \E c \in Booking \ {b} : N \cap (Taken(c) \cup Fences(c)) # {}
  \/ N \cap Kept(b, but) # {}

Direct(b) == Source[b] \in {"os", "line"}

\* A new booking version, or inventory version, outdates what was planned on the old one.
Outdated(b, inventory) ==
  command' = IF command # NoCommand /\ (inventory \/ command.booking = b)
             THEN [command EXCEPT !.fresh = FALSE] ELSE command

\* booking.version++: from then on the source link was applied to an older version.
Revise(b, r, o, inventory) ==
  /\ bk' = [bk EXCEPT ![b] = r]
  /\ op' = [op EXCEPT ![b] = o]
  /\ link' = [link EXCEPT ![b].at = FALSE]
  /\ Outdated(b, inventory)
  /\ UNCHANGED <<mode, fact>>

-----------------------------------------------------------------------------
(* Unsettled room changes, for a booking r that is now to have the nights N. *)

\* A booking of which anything was ever closed counts as synchronised.
LineWork_OnceClosed(r, N) ==
  [r EXCEPT !.sync = IF r.base # {} THEN "verified"
                     ELSE IF r.base # N THEN "action_required" ELSE "not_required",
            !.key = FALSE,
            !.aside = r.base \ N]

\* updateLinePending
LineWork(r, N) ==
  [r EXCEPT !.sync = IF r.base # N THEN "action_required"
                     ELSE IF N # {} THEN "verified" ELSE "not_required",
            !.key = FALSE,
            !.aside = r.base \ N]

\* The nights staff closed by hand are forgotten when the order gives them up.
HandWork_Unfenced(r, N) ==
  [r EXCEPT !.sync = IF r.base = N THEN "manually_confirmed" ELSE "action_required",
            !.key = FALSE,
            !.aside = {}]

\* updateManualHandling
HandWork(r, N) ==
  [r EXCEPT !.sync = IF r.base = N THEN "manually_confirmed" ELSE "action_required",
            !.key = FALSE,
            !.aside = r.base \ N]

\* The work of a LINE booking starts from its baseline, any other from the nights before.
Baseline(r) ==
  IF r.work = "os" THEN r
  ELSE IF r.work = "line"
  THEN [r EXCEPT !.work = "os", !.was = IF r.base # {} THEN "verified" ELSE "not_required",
                 !.wasKey = r.key]
  ELSE [r EXCEPT !.work = "os", !.base = r.nights, !.was = r.sync, !.wasKey = r.key]

\* saveOsRoomChange: back at the baseline, the booking is as synchronised as it was.
OsWork(r, N) ==
  LET s == Baseline(r) IN
  IF s.base = N
  THEN [s EXCEPT !.work = "none", !.base = {}, !.aside = {}, !.sync = s.was,
                 !.key = s.wasKey, !.was = "not_required", !.wasKey = FALSE]
  ELSE [s EXCEPT !.aside = s.base \ N, !.sync = "awaiting_manual_sync", !.key = FALSE]

\* deferLifecycleRoomChange
Deferred(r, N) ==
  IF mode = "none" THEN r
  ELSE IF r.work = "hand" THEN HandWork(r, N)
  ELSE IF r.work # "none" \/ r.sync = "verified" THEN OsWork(r, N)
  ELSE [r EXCEPT !.sync = IF N # {} THEN "awaiting_manual_sync" ELSE "not_required",
                 !.key = FALSE]

-----------------------------------------------------------------------------
(* Bookings of staff and of LINE. *)

Ordered(N) == [Absent EXCEPT !.status = "confirmed", !.nights = N]

\* LINE orders at the channel are registered under the manual policy.
CreateBooking(b, N) ==
  /\ bk[b].status = "absent" /\ Direct(b)
  /\ Source[b] = "line" => mode = "owlnest"
  /\ ~HasConflict(N, b, "none")
  /\ Revise(b, IF mode = "none" THEN Ordered(N)
               ELSE IF Source[b] = "line"
               THEN [Ordered(N) EXCEPT !.work = "line", !.sync = "action_required"]
               ELSE [Ordered(N) EXCEPT !.sync = "awaiting_manual_sync"], op[b], TRUE)
  /\ UNCHANGED shut

\* What staff or LINE may do to a booking's nights, and which work it leaves behind.
OsAmended(r, N) ==
  IF r.work = "hand" THEN HandWork(r, N)
  ELSE IF mode = "owlnest" /\ (r.sync # "awaiting_manual_sync" \/ r.work = "os")
  THEN OsWork(r, N) ELSE r

\* amendBooking by staff, with channelPolicy "manual"; the details need no free night.
AmendBooking(b, N) ==
  /\ bk[b].status = "confirmed" /\ Direct(b)
  /\ N # bk[b].nights => /\ bk[b].sync \notin {"pending", "review_required"}
                         /\ ~HasConflict(N, b, "aside")
  /\ Revise(b, IF N = bk[b].nights THEN bk[b]
               ELSE [OsAmended(bk[b], N) EXCEPT !.nights = N], op[b], N # bk[b].nights)
  /\ UNCHANGED shut

\* requireLineMutation under the manual policy.
LineMay(b) ==
  /\ mode = "owlnest" /\ Direct(b)
  /\ bk[b].status = "confirmed" /\ bk[b].work = "line" /\ bk[b].money = 0
  /\ \/ bk[b].sync = "verified"
     \/ bk[b].sync = "action_required" /\ ~bk[b].key
  /\ ~Unsettled(b)

AmendByLine(b, N) ==
  /\ LineMay(b) /\ N # bk[b].nights
  /\ ~HasConflict(N, b, "aside")
  /\ Revise(b, [LineWork(bk[b], N) EXCEPT !.nights = N], op[b], TRUE)
  /\ UNCHANGED shut

CancelByLine(b) ==
  /\ LineMay(b)
  /\ Revise(b, [LineWork(bk[b], {}) EXCEPT !.status = "cancelled"], op[b], TRUE)
  /\ UNCHANGED shut

\* The operation of the cancelled booking when the channel has one.
Cancelled(b) ==
  IF mode = "none" THEN <<bk[b], op[b]>>
  ELSE IF bk[b].work = "hand" THEN <<HandWork(bk[b], {}), op[b]>>
  ELSE IF bk[b].sync = "awaiting_manual_sync"
  THEN <<[bk[b] EXCEPT !.sync = "not_required"], op[b]>>
  ELSE IF bk[b].sync \in {"pending", "review_required"}
  THEN <<[bk[b] EXCEPT !.sync = "review_required"],
         IF bk[b].key THEN [op[b] EXCEPT !.state = "review_required"] ELSE op[b]>>
  ELSE <<[bk[b] EXCEPT !.sync = "pending", !.key = TRUE], Pending({}, bk[b].nights, FALSE, FALSE)>>

\* cancelBooking by staff: a room change that waits for the channel goes first.
CancelBooking(b) ==
  /\ bk[b].status = "confirmed" /\ Direct(b)
  /\ bk[b].work # "os" /\ bk[b].money = 0
  /\ Revise(b, [Cancelled(b)[1] EXCEPT !.status = "cancelled"], Cancelled(b)[2], TRUE)
  /\ UNCHANGED shut

-----------------------------------------------------------------------------
(* The channel: what staff and LINE ask of it, and what its readback settles. *)

\* manualHandlingCells: staff may vouch for the channel only while no operation ever did.
HandMay(b) ==
  /\ mode = "owlnest" /\ Direct(b)
  /\ ~bk[b].key /\ op[b].state = "none"
  /\ \/ /\ bk[b].work = "hand" /\ bk[b].sync = "action_required"
        /\ bk[b].status \in {"confirmed", "cancelled", "retained"}
     \/ /\ bk[b].work \in {"none", "line"} /\ bk[b].base = {}
        /\ bk[b].status = "confirmed"
        /\ bk[b].sync \in {"awaiting_manual_sync", "action_required"}

ConfirmManualRoomHandling(b) ==
  LET N == Current(bk[b]) IN
  /\ HandMay(b)
  /\ ~HasConflict((N \ bk[b].base) \cup (bk[b].base \ N), b, "aside")
  /\ Revise(b, [bk[b] EXCEPT !.work = "hand", !.base = N, !.aside = {},
                             !.sync = "manually_confirmed"], op[b], TRUE)
  /\ shut' = (shut \ bk[b].base) \cup N

\* requestManualChannelSync: the fence of the room change becomes the operation's.
RequestManualChannelSync(b) ==
  LET r == bk[b]
      N == Current(r)
      B == IF r.work = "os" THEN r.base ELSE {} IN
  /\ mode = "owlnest" /\ Direct(b)
  /\ r.status \in {"confirmed", "retained"}
  /\ r.work # "hand" /\ r.sync = "awaiting_manual_sync" /\ ~r.key
  /\ N # B
  /\ ~HasConflict(N, b, IF r.work = "os" THEN "aside" ELSE "none")
  /\ bk' = [bk EXCEPT ![b] = [r EXCEPT !.sync = "pending", !.key = TRUE,
                                       !.aside = IF r.work = "os" THEN {} ELSE r.aside]]
  /\ op' = [op EXCEPT ![b] = Pending(N \ B, B \ N, FALSE, B = {})]
  /\ Outdated(b, TRUE)
  /\ UNCHANGED <<mode, link, fact, shut>>

\* requestLineChannelAction: first close what was added, then open what was given up.
RequestLineChannelAction(b, wish) ==
  LET add == Current(bk[b]) \ bk[b].base
      drop == bk[b].base \ Current(bk[b]) IN
  /\ mode = "owlnest" /\ Direct(b)
  /\ bk[b].work = "line" /\ bk[b].sync = "action_required" /\ ~bk[b].key /\ ~Unsettled(b)
  /\ \/ wish = "closed" /\ add # {} /\ ~HasConflict(add, b, "none")
     \/ wish = "open" /\ add = {} /\ drop # {} /\ ~HasConflict(drop, b, "aside")
  /\ bk' = [bk EXCEPT ![b].sync = "pending", ![b].key = TRUE,
                      ![b].aside = IF wish = "open" THEN {} ELSE @]
  /\ op' = [op EXCEPT ![b] = IF wish = "open" THEN Pending({}, drop, TRUE, FALSE)
                                             ELSE Pending(add, {}, TRUE, TRUE)]
  /\ Outdated(b, TRUE)
  /\ UNCHANGED <<mode, link, fact, shut>>

\* correctBooking: an operation may only settle nights that are still its booking's to settle.
OwnsNights(b) ==
  LET mine == Current(bk[b]) IN
  /\ bk[b].key
  /\ op[b].own /\ ~op[b].line => op[b].state = "sync_pending"
  /\ \A n \in op[b].close :
       \/ n \in mine
       \/ ~op[b].own /\ HasConflict({n}, b, "operation")
  /\ \A n \in op[b].open : n \notin mine /\ ~HasConflict({n}, b, "operation")
  /\ op[b].open # {} => bk[b].status \in {"confirmed", "cancelled", "retained"}

\* What a verified readback leaves to do.
Settled(b) ==
  IF op[b].line /\ bk[b].work = "line"
  THEN LineWork([bk[b] EXCEPT !.base = (@ \cup op[b].close) \ op[b].open], Current(bk[b]))
  ELSE IF bk[b].work = "os"
  THEN [bk[b] EXCEPT !.sync = "verified", !.work = "none", !.base = {},
                     !.was = "not_required", !.wasKey = FALSE]
  ELSE [bk[b] EXCEPT !.sync = "verified"]

\* recordChannelReadback, of a calendar that is as asked and of one that is not (or whose
\* closes were not the service's own).
RecordReadback(b, exact) ==
  /\ Unsettled(b)
  /\ IF exact /\ OwnsNights(b)
     THEN /\ Revise(b, Settled(b), [op[b] EXCEPT !.state = "sync_verified"], TRUE)
          /\ shut' = (shut \cup op[b].close) \ op[b].open
     ELSE /\ bk' = [bk EXCEPT ![b].sync = "review_required"]
          /\ op' = [op EXCEPT ![b].state = "review_required"]
          /\ Outdated(b, TRUE)
          /\ UNCHANGED <<mode, link, fact, shut>>

-----------------------------------------------------------------------------
(* Payment holds and money. *)

\* Holds exist only at a property without a channel.
CreateHold(b, N) ==
  /\ mode = "none" /\ Source[b] = "os" /\ bk[b].status = "absent"
  /\ ~HasConflict(N, b, "none")
  /\ Revise(b, [Ordered(N) EXCEPT !.status = "held", !.hold = "active"], op[b], TRUE)
  /\ UNCHANGED shut

HoldExpires(b) ==
  /\ bk[b].hold = "active"
  /\ bk' = [bk EXCEPT ![b].hold = "overdue"]
  /\ UNCHANGED <<mode, op, link, fact, command, shut>>

\* Until it is converted or released, an overdue hold keeps its nights and can be extended.
ExtendHold(b) ==
  /\ bk[b].status = "held" /\ ~HasConflict(bk[b].nights, b, "none")
  /\ Revise(b, [bk[b] EXCEPT !.hold = "active"], op[b], FALSE)
  /\ UNCHANGED shut

ConvertHold(b) ==
  /\ bk[b].status = "held" /\ bk[b].hold = "active" /\ bk[b].money > 0
  /\ Revise(b, [bk[b] EXCEPT !.status = "confirmed", !.hold = "converted"], op[b], FALSE)
  /\ UNCHANGED shut

\* Money that came in is not looked at.
ReleaseHold_Paid(b) ==
  /\ bk[b].status = "held"
  /\ Revise(b, [bk[b] EXCEPT !.status = "cancelled", !.hold = "released"], op[b], TRUE)
  /\ UNCHANGED shut

ReleaseHold(b) ==
  /\ bk[b].status = "held" /\ bk[b].money = 0
  /\ Revise(b, [bk[b] EXCEPT !.status = "cancelled", !.hold = "released"], op[b], TRUE)
  /\ UNCHANGED shut

\* An order that staff entered as confirmed takes no more than is due; a hold takes any.
MayReceive(b) ==
  Source[b] = "os" /\ bk[b].hold = "none" => bk[b].status = "confirmed"

\* A refund is not compared with what was received.
RecordPayment_Overdrawn(b, amount) ==
  LET m == bk[b].money + amount IN
  /\ bk[b].status # "absent" /\ m <= MaxMoney
  /\ amount > 0 => MayReceive(b)
  /\ Revise(b, [bk[b] EXCEPT !.money = m], op[b], FALSE)
  /\ UNCHANGED shut

\* recordPaymentEvent: late money is flagged on the hold, and reclaims no night.
RecordPayment(b, amount) ==
  LET m == bk[b].money + amount IN
  /\ bk[b].status # "absent" /\ m \in 0..MaxMoney
  /\ amount > 0 => MayReceive(b)
  /\ Revise(b, [bk[b] EXCEPT !.money = m,
                  !.hold = IF @ \in {"released", "late_payment"}
                           THEN IF m > 0 THEN "late_payment" ELSE "released" ELSE @],
            op[b], FALSE)
  /\ UNCHANGED shut

-----------------------------------------------------------------------------
(* Retained bookings: their nights are given back, the order stays. *)

\* retentionUnavailableReason; an imported order is owned only while its link is in order.
RetentionMay(b, N) ==
  /\ bk[b].status = IF N = {} THEN "confirmed" ELSE "retained"
  /\ \/ bk[b].owned \/ Direct(b)
     \/ link[b].imported /\ link[b].at /\ link[b].tomb = {}
  /\ ~link[b].diverged
  /\ bk[b].sync \notin {"pending", "review_required"} /\ ~Unsettled(b)

\* The new stay was found free when the command was planned.
CommandFits_Planned(c) == RetentionMay(c.booking, c.nights) /\ (c.fresh \/ c.nights # {})

\* Both expected versions are current and the new stay is free but for the order's own fence.
CommandFits(c) ==
  /\ c.fresh
  /\ RetentionMay(c.booking, c.nights)
  /\ ~HasConflict(c.nights, c.booking, "aside")

\* previewRetainBooking, previewRescheduleBooking: a client plans a command under a new key.
PlanCommand(b, N) ==
  /\ RetentionMay(b, N) /\ ~HasConflict(N, b, "aside")
  /\ command' = [booking |-> b, nights |-> N, fresh |-> TRUE,
                 receipt |-> "none", told |-> {}, effects |-> 0]
  /\ UNCHANGED <<mode, bk, op, link, fact, shut>>

\* A receipt answers the command, however often it arrives.
Repeat ==
  /\ command # NoCommand /\ command.receipt # "none"
  /\ command' = [command EXCEPT !.told = @ \cup {command.receipt}]
  /\ UNCHANGED <<mode, bk, op, link, fact, shut>>

\* retainBooking, rescheduleBooking: the answer may be lost, so nobody is told yet.
ApplyCommand ==
  LET b == command.booking
      N == command.nights IN
  /\ command # NoCommand /\ command.receipt = "none"
  /\ CommandFits(command)
  /\ bk' = [bk EXCEPT ![b] = [Deferred(bk[b], N) EXCEPT
              !.status = IF N = {} THEN "retained" ELSE "confirmed",
              !.nights = N, !.owned = TRUE]]
  /\ link' = [link EXCEPT ![b].at = FALSE]
  /\ command' = [command EXCEPT !.fresh = FALSE, !.nights = {}, !.receipt = "applied",
                                  !.effects = @ + 1]
  /\ UNCHANGED <<mode, op, fact, shut>>

\* Abandoning looks at no receipt and answers at once.
AbandonCommand_Blind ==
  /\ command # NoCommand
  /\ command' = [command EXCEPT !.fresh = FALSE, !.nights = {}, !.receipt = "not_applied",
                                  !.told = @ \cup {"not_applied"}]
  /\ UNCHANGED <<mode, bk, op, link, fact, shut>>

\* abandonRetainedRequest: from now on the delayed command is answered, never applied.
AbandonCommand ==
  /\ command # NoCommand /\ command.receipt = "none"
  /\ command' = [command EXCEPT !.fresh = FALSE, !.nights = {}, !.receipt = "not_applied",
                                  !.told = @ \cup {"not_applied"}]
  /\ UNCHANGED <<mode, bk, op, link, fact, shut>>

-----------------------------------------------------------------------------
(* What an external source says of its orders, in any order and any number of times. *)

\* Staff correct a guest's name: the link is under review until the source agrees.
CorrectName(b) ==
  /\ Source[b] = "external" /\ bk[b].status = "confirmed"
  /\ ~link[b].diverged /\ link[b].at
  /\ link' = [link EXCEPT ![b].at = FALSE, ![b].diverged = TRUE]
  /\ Outdated(b, FALSE)
  /\ UNCHANGED <<mode, bk, op, fact, shut>>

Known(b) == IF bk[b].status = "absent" THEN {} ELSE bk[b].nights

\* Only the latest nights in question are kept back.
Reviewed_Latest(b, N) ==
  [link[b] EXCEPT !.fence = N, !.diverged = @ \/ link[b].ver > 0]

\* review: the nights in question stay fenced together with those of earlier reviews.
Reviewed(b, N) ==
  [link[b] EXCEPT !.fence = @ \cup N, !.diverged = @ \/ link[b].ver > 0]

\* A cancelled order may be confirmed again by its source.
Obstacle_NoTombstone(b, v, f) ==
  \/ link[b].ver # v - 1
  \/ link[b].diverged
  \/ bk[b].status # "absent" /\ ~link[b].at
  \/ f.kind = "cancel" /\ bk[b].status # "absent" /\ bk[b].nights # f.nights
  \/ f.kind = "upsert" /\ HasConflict(f.nights, b, "none")

\* A cancellation is believed whatever stay it names.
Obstacle_AnyStay(b, v, f) ==
  \/ link[b].ver # v - 1
  \/ link[b].diverged
  \/ bk[b].status # "absent" /\ ~link[b].at
  \/ f.kind = "upsert" /\ link[b].tomb # {}
  \/ f.kind = "upsert" /\ HasConflict(f.nights, b, "none")

\* The reasons for a review: not the next version, a review already open, a booking that was
\* changed since, a cancelled order that comes back, a cancellation of another stay, a taken night.
Obstacle(b, v, f) ==
  \/ link[b].ver # v - 1
  \/ link[b].diverged
  \/ bk[b].status # "absent" /\ ~link[b].at
  \/ f.kind = "upsert" /\ link[b].tomb # {}
  \/ f.kind = "cancel" /\ bk[b].status # "absent" /\ bk[b].nights # f.nights
  \/ f.kind = "upsert" /\ HasConflict(f.nights, b, "none")

\* An order that comes back puts its tombstone in question as well.
InQuestion(b, v, f) ==
  f.nights \cup Known(b) \cup
  IF f.kind = "upsert" /\ link[b].ver = v - 1 /\ ~link[b].diverged THEN link[b].tomb ELSE {}

\* A cancellation of an order that never arrived leaves a tombstone and no booking.
Followed(b, f) ==
  IF f.kind = "upsert"
  THEN [bk[b] EXCEPT !.status = "confirmed", !.nights = f.nights]
  ELSE IF bk[b].status = "absent" THEN bk[b] ELSE [bk[b] EXCEPT !.status = "cancelled"]

\* applySourceEvent, at a property without a channel.  An order that its owner retained
\* is the owner's: the report is kept as evidence and changes nothing.
ApplySourceEvent(b, v, f) ==
  /\ mode = "none" /\ Source[b] = "external"
  /\ fact[b][v] \in {NoFact, f}
  /\ IF bk[b].owned THEN UNCHANGED <<fact, bk, link>>
     ELSE /\ fact' = [fact EXCEPT ![b][v] = f]
          /\ IF Obstacle(b, v, f)
             THEN /\ link' = [link EXCEPT ![b] = Reviewed(b, InQuestion(b, v, f))]
                  /\ UNCHANGED bk
             ELSE /\ bk' = [bk EXCEPT ![b] = Followed(b, f)]
                  /\ link' = [link EXCEPT ![b].ver = v, ![b].at = TRUE,
                                ![b].tomb = IF f.kind = "cancel" THEN f.nights ELSE @]
  /\ Outdated(b, TRUE)
  /\ UNCHANGED <<mode, op, shut>>

-----------------------------------------------------------------------------

\* A property starts empty, or with orders imported from their source.
Init ==
  /\ mode \in {"none", "owlnest"}
  /\ op = [b \in Booking |-> NoOperation]
  /\ \E I \in SUBSET {b \in Booking : mode = "none" /\ Source[b] = "external"}, at \in [Booking -> Stay] :
       /\ \A b, c \in I : b # c => at[b] \cap at[c] = {}
       /\ bk = [b \in Booking |-> IF b \in I THEN Ordered(at[b]) ELSE Absent]
       /\ link = [b \in Booking |-> IF b \in I THEN ImportedLink ELSE NoLink]
       /\ fact = [b \in Booking |-> [v \in Version |->
                    IF b \in I /\ v = 1 THEN [kind |-> "upsert", nights |-> at[b]] ELSE NoFact]]
  /\ command = NoCommand
  /\ shut = {}

Stays(b) == \E N \in Stay : \/ CreateBooking(b, N) \/ CreateHold(b, N)
                             \/ AmendBooking(b, N) \/ AmendByLine(b, N)
Channel(b) ==
  \/ ConfirmManualRoomHandling(b) \/ RequestManualChannelSync(b)
  \/ \E wish \in {"closed", "open"} : RequestLineChannelAction(b, wish)
  \/ \E exact \in BOOLEAN : RecordReadback(b, exact)
Money(b) ==
  \/ HoldExpires(b) \/ ExtendHold(b) \/ ConvertHold(b) \/ ReleaseHold(b)
  \/ RecordPayment(b, 1)
  \/ RecordPayment(b, -1)
Commanded(b) == \E N \in SUBSET Night : PlanCommand(b, N)
SourceSays(b) == CorrectName(b) \/ \E v \in Version, f \in Fact : ApplySourceEvent(b, v, f)

Next ==
  \/ \E b \in Booking : \/ Stays(b) \/ CancelBooking(b) \/ CancelByLine(b)
                        \/ Channel(b) \/ Money(b) \/ Commanded(b) \/ SourceSays(b)
  \/ Repeat \/ ApplyCommand \/ AbandonCommand

Spec == Init /\ [][Next]_vars

-----------------------------------------------------------------------------

\* Every variable keeps its type, and a booking its kind of fields.
TypeOK ==
  /\ mode \in {"none", "owlnest"}
  /\ bk \in [Booking -> Bookings]
  /\ op \in [Booking -> Operations]
  /\ link \in [Booking -> Links]
  /\ fact \in [Booking -> [Version -> Fact \cup {NoFact}]]
  /\ command \in Commands \cup {NoCommand}
  /\ shut \subseteq Night

\* A night that was closed at the channel is not forgotten when its booking moves, is
\* retained or is cancelled: until it is opened again somebody has it, a fence keeps it
\* back, or the cancelled booking that last had it is under review.
FormerNightsHeld ==
  \A n \in shut : \E b \in Booking :
    \/ n \in Taken(b) \cup Fences(b)
    \/ bk[b].status = "cancelled" /\ bk[b].sync = "review_required" /\ n \in bk[b].nights

\* A confirmed order that is shown as synchronised really is closed at the channel on
\* every one of its nights, whatever round of amendments and retentions it went through.
SettledIsShut ==
  \A b \in Booking :
    bk[b].status = "confirmed" /\ bk[b].sync \in {"verified", "manually_confirmed"}
      => bk[b].nights \subseteq shut

\* An order of staff is not cancelled over money it received: what comes in after the
\* release of its hold is flagged.  (A converted hold that was cancelled later is not.)
OwnMoneyIsReviewed ==
  \A b \in Booking :
    Source[b] = "os" /\ bk[b].status = "cancelled" /\ bk[b].money > 0
      => bk[b].hold \in {"late_payment", "converted"}

\* What a source reported of an order that its owner had not taken over is not lost, in
\* whatever order it came: it was applied, or its nights are fenced for review.
SourceIsAnswered ==
  \A b \in Booking, v \in Version :
    fact[b][v] # NoFact /\ v > link[b].ver =>
      fact[b][v].nights \subseteq link[b].fence

\* Without an open review, an order that nobody retained is as its source last had it.
FollowsSource ==
  \A b \in Booking :
    link[b].ver > 0 /\ ~link[b].diverged /\ ~bk[b].owned =>
      LET f == fact[b][link[b].ver] IN
      IF f.kind = "upsert" THEN bk[b].status = "confirmed" /\ bk[b].nights = f.nights
      ELSE \/ bk[b].status = "absent"
           \/ bk[b].status = "cancelled" /\ bk[b].nights = f.nights

\* A cancelled order takes no night again: not by late money, a delayed command or a
\* source that reports it once more.
CancelledStaysCancelled ==
  [][\A b \in Booking : bk[b].status = "cancelled" => bk'[b].status = "cancelled"]_bk

\* A retain or reschedule command has one outcome, and whoever asks hears that one,
\* however its delivery, its repetition and its withdrawal cross.
OneAnswerPerCommand ==
  command # NoCommand =>
    /\ command.effects <= 1
    /\ Cardinality(command.told) <= 1
    /\ "applied" \in command.told => command.effects = 1
    /\ "not_applied" \in command.told => command.effects = 0

Promise == INSTANCE RoomNights WITH taken <- [b \in Booking |-> Taken(b)],
                                    kept <- [b \in Booking |-> Fences(b)]

\* The authority implements RoomNights: no handler gives a booking a night that another
\* has or that a fence of another keeps back.
ImplementsRoomNights == Promise!Spec
=============================================================================
