----------------------- MODULE PropertyInventoryProofs -----------------------
EXTENDS PropertyInventory, FiniteSetTheorems, TLAPS

\* That the authority gives no room night twice, answers its sources and its staff once and
\* implements RoomNights, for any bookings, nights, sources and bounds.  The many handlers
\* are first reduced to what they do to an order: OrderStep (a request of staff, of LINE, of
\* a hold or of its worker) and SourceStep (a delivered report) each change one booking in
\* one of a few ways, and NextSteps shows that every step of the authority is one of these,
\* a command, or touches no booking.  Inv is then kept by each kind of step: nothing is ever
\* taken but free nights (GainsAreFree), and what a link, a hold and a command remember
\* (LinkInv, HoldInv, AnswerInv) decides the rest.

\* What the bookkeeping of unsettled room changes leaves alone.
SameOrder(r, s) ==
  /\ s.status = r.status /\ s.nights = r.nights /\ s.hold = r.hold
  /\ s.money = r.money /\ s.owned = r.owned

-----------------------------------------------------------------------------
(* The bookkeeping of unsettled room changes. *)

\* updateLinePending touches only the synchronisation of the booking.
LEMMA LineWorkFrame ==
  ASSUME NEW r \in Bookings, NEW N \in SUBSET Night
  PROVE  LineWork(r, N) \in Bookings /\ SameOrder(r, LineWork(r, N))
  BY DEF LineWork, SameOrder, Bookings, Sync

\* updateManualHandling touches only the synchronisation of the booking.
LEMMA HandWorkFrame ==
  ASSUME NEW r \in Bookings, NEW N \in SUBSET Night
  PROVE  HandWork(r, N) \in Bookings /\ SameOrder(r, HandWork(r, N))
  BY DEF HandWork, SameOrder, Bookings, Sync

\* So does opening the work of a saved room change.
LEMMA BaselineFrame ==
  ASSUME NEW r \in Bookings
  PROVE  Baseline(r) \in Bookings /\ SameOrder(r, Baseline(r))
<1>1. CASE r.work = "os" BY <1>1 DEF Baseline, SameOrder
<1>2. CASE r.work = "line"
  <2>1. Baseline(r) = [r EXCEPT !.work = "os",
                         !.was = IF r.base # {} THEN "verified" ELSE "not_required",
                         !.wasKey = r.key]
    BY <1>2 DEF Baseline
  <2> QED BY <2>1, ZenonT(60) DEF SameOrder, Bookings, Sync
<1>3. CASE r.work \notin {"os", "line"}
  <2>1. Baseline(r) = [r EXCEPT !.work = "os", !.base = r.nights, !.was = r.sync, !.wasKey = r.key]
    BY <1>3 DEF Baseline
  <2> QED BY <2>1, ZenonT(60) DEF SameOrder, Bookings, Sync
<1> QED BY <1>1, <1>2, <1>3

\* And saveOsRoomChange.
LEMMA OsWorkFrame ==
  ASSUME NEW r \in Bookings, NEW N \in SUBSET Night
  PROVE  OsWork(r, N) \in Bookings /\ SameOrder(r, OsWork(r, N))
<1> DEFINE s == Baseline(r)
<1>1. s \in Bookings /\ SameOrder(r, s) BY BaselineFrame
<1> HIDE DEF s
<1>2. CASE s.base = N
  <2>1. OsWork(r, N) = [s EXCEPT !.work = "none", !.base = {}, !.aside = {}, !.sync = s.was,
                 !.key = s.wasKey, !.was = "not_required", !.wasKey = FALSE]
    BY <1>2 DEF OsWork, s
  <2>2. OsWork(r, N) \in Bookings BY <1>1, <2>1, ZenonT(60) DEF Bookings, Sync
  <2>3. SameOrder(s, OsWork(r, N)) BY <1>1, <2>1, ZenonT(60) DEF SameOrder, Bookings
  <2> QED BY <1>1, <2>2, <2>3 DEF SameOrder
<1>3. CASE s.base # N
  <2>1. OsWork(r, N) = [s EXCEPT !.aside = s.base \ N, !.sync = "awaiting_manual_sync", !.key = FALSE]
    BY <1>3 DEF OsWork, s
  <2>2. OsWork(r, N) \in Bookings BY <1>1, <2>1, ZenonT(60) DEF Bookings, Sync
  <2>3. SameOrder(s, OsWork(r, N)) BY <1>1, <2>1, ZenonT(60) DEF SameOrder, Bookings
  <2> QED BY <1>1, <2>2, <2>3 DEF SameOrder
<1> QED BY <1>2, <1>3

\* And deferLifecycleRoomChange.
LEMMA DeferredFrame ==
  ASSUME NEW r \in Bookings, NEW N \in SUBSET Night
  PROVE  Deferred(r, N) \in Bookings /\ SameOrder(r, Deferred(r, N))
<1>1. CASE mode = "none" BY <1>1 DEF Deferred, SameOrder
<1>2. CASE mode # "none" /\ r.work = "hand" BY <1>2, HandWorkFrame DEF Deferred
<1>3. CASE mode # "none" /\ r.work # "hand" /\ (r.work # "none" \/ r.sync = "verified")
  BY <1>3, OsWorkFrame DEF Deferred
<1>4. CASE mode # "none" /\ r.work # "hand" /\ ~(r.work # "none" \/ r.sync = "verified")
  <2>1. Deferred(r, N) = [r EXCEPT !.sync = IF N # {} THEN "awaiting_manual_sync" ELSE "not_required",
                 !.key = FALSE] BY <1>4 DEF Deferred
  <2> QED BY <2>1 DEF SameOrder, Bookings, Sync
<1> QED BY <1>1, <1>2, <1>3, <1>4

\* And what an amendment by staff leaves behind.
LEMMA OsAmendedFrame ==
  ASSUME NEW r \in Bookings, NEW N \in SUBSET Night
  PROVE  OsAmended(r, N) \in Bookings /\ SameOrder(r, OsAmended(r, N))
  BY HandWorkFrame, OsWorkFrame DEF OsAmended, SameOrder

\* A new order is a booking.
LEMMA OrderedType ==
  ASSUME NEW N \in SUBSET Night
  PROVE  /\ Absent \in Bookings
         /\ Ordered(N) \in Bookings
         /\ Ordered(N).status = "confirmed" /\ Ordered(N).nights = N /\ Ordered(N).hold = "none"
         /\ Ordered(N).money = 0 /\ ~Ordered(N).owned
<1>0. 0 \in 0..MaxMoney BY SourceAssumption
<1>1. Absent \in Bookings BY <1>0, SMTT(60) DEF Absent, Bookings, Status, Hold, Sync
<1>2. Ordered(N) = [Absent EXCEPT !.status = "confirmed", !.nights = N] BY DEF Ordered
<1>3. Ordered(N) \in Bookings BY <1>1, <1>2, ZenonT(60) DEF Bookings, Status
<1>4. /\ Absent.hold = "none" /\ Absent.money = 0 /\ Absent.owned = FALSE BY DEF Absent
<1> QED BY <1>1, <1>2, <1>3, <1>4, ZenonT(60) DEF Bookings

-----------------------------------------------------------------------------
(* What a step of a booking's own may do to it, whichever handler takes it. *)

Free(N, b) == \A c \in Booking \ {b} : N \cap (Taken(c) \cup Fences(c)) = {}

\* Of the other bookings nothing changes.
Others(b) == \A c \in Booking \ {b} : bk'[c] = bk[c] /\ op'[c] = op[c] /\ link'[c] = link[c]

\* No source has spoken, and a review stays open.
SourceSilent(b) ==
  /\ fact' = fact
  /\ link'[b].ver = link[b].ver /\ link'[b].tomb = link[b].tomb
  /\ link'[b].fence = link[b].fence
  /\ link[b].diverged => link'[b].diverged

\* No answer is given and no command applied.
CommandKept ==
  \/ command' = command
  \/ command # NoCommand /\ command' = [command EXCEPT !.fresh = FALSE]

Running == {"active", "overdue"}

\* The order itself stays as it is; its hold may run out or be extended.
Remains(r, s) ==
  /\ s.status = r.status /\ s.nights = r.nights /\ s.money = r.money /\ s.owned = r.owned
  /\ \/ s.hold = r.hold
     \/ s.hold \in Running /\ (r.status = "held" \/ r.hold \in Running)
Enters(b, r, s) ==
  /\ Direct(b) /\ r.status = "absent" /\ Free(s.nights, b) /\ s.money = 0 /\ ~s.owned
  /\ \/ s.status = "confirmed" /\ s.hold = "none"
     \/ s.status = "held" /\ s.hold = "active" /\ Source[b] = "os"
Moves(b, r, s) ==
  /\ Direct(b) /\ r.status = "confirmed" /\ s.status = "confirmed" /\ Free(s.nights, b)
  /\ s.hold = r.hold /\ s.money = r.money /\ s.owned = r.owned
Cancels(b, r, s) ==
  /\ Direct(b) /\ r.status = "confirmed" /\ s.status = "cancelled" /\ r.money = 0
  /\ s.nights = r.nights /\ s.hold = r.hold /\ s.money = r.money /\ s.owned = r.owned
Converts(r, s) ==
  /\ r.status = "held" /\ s.status = "confirmed" /\ s.hold = "converted"
  /\ s.nights = r.nights /\ s.money = r.money /\ s.owned = r.owned
Releases(r, s) ==
  /\ r.status = "held" /\ s.status = "cancelled" /\ s.hold = "released" /\ r.money = 0
  /\ s.nights = r.nights /\ s.money = r.money /\ s.owned = r.owned
Pays(b, r, s) ==
  /\ s.status = r.status /\ s.nights = r.nights /\ s.owned = r.owned /\ r.status # "absent"
  /\ s.money > r.money => MayReceive(b)
  /\ s.hold = IF r.hold \in {"released", "late_payment"}
              THEN IF s.money > 0 THEN "late_payment" ELSE "released" ELSE r.hold
Retains(r, s) ==
  /\ r.status = "confirmed" /\ s.status = "retained" /\ s.nights = {} /\ s.owned
  /\ s.hold = r.hold /\ s.money = r.money
Reschedules(b, r, s) ==
  /\ r.status = "retained" /\ s.status = "confirmed" /\ Free(s.nights, b) /\ s.owned
  /\ s.hold = r.hold /\ s.money = r.money

OrderStep(b) ==
  LET r == bk[b]
      s == bk'[b] IN
  /\ Others(b) /\ SourceSilent(b)
  /\ \/ Remains(r, s) \/ Enters(b, r, s) \/ Moves(b, r, s) \/ Cancels(b, r, s)
     \/ Converts(r, s) \/ Releases(r, s) \/ Pays(b, r, s)
     \/ Retains(r, s) \/ Reschedules(b, r, s)

\* A night without conflict is free, whatever fence of the booking itself is disregarded.
LEMMA NoConflictIsFree ==
  ASSUME NEW b \in Booking, NEW N \in SUBSET Night, NEW but, ~HasConflict(N, b, but)
  PROVE  Free(N, b)
  BY DEF HasConflict, Free

\* Revise keeps the types and touches one booking, one operation and one link.
LEMMA ReviseFrame ==
  ASSUME TypeOK, NEW b \in Booking, NEW r \in Bookings, NEW o \in Operations,
         NEW inventory \in BOOLEAN, Revise(b, r, o, inventory), shut' \subseteq Night
  PROVE  /\ TypeOK' /\ Others(b) /\ SourceSilent(b) /\ CommandKept
         /\ bk'[b] = r
<1>1. bk \in [Booking -> Bookings] /\ op \in [Booking -> Operations] /\ link \in [Booking -> Links]
  BY DEF TypeOK
<1>2. bk' = [bk EXCEPT ![b] = r] /\ op' = [op EXCEPT ![b] = o]
  BY DEF Revise
<1>3. bk' \in [Booking -> Bookings] /\ op' \in [Booking -> Operations] /\ bk'[b] = r
  BY <1>1, <1>2
<1> DEFINE l == [link[b] EXCEPT !.at = FALSE]
<1>4. link[b] \in Links BY <1>1
<1>5. l \in Links BY <1>4, ZenonT(60) DEF Links
<1>6. link' = [link EXCEPT ![b] = l] BY <1>1 DEF Revise
<1>7. link' \in [Booking -> Links] /\ link'[b] = l BY <1>1, <1>5, <1>6
<1>8. l.ver = link[b].ver /\ l.tomb = link[b].tomb /\ l.fence = link[b].fence /\ l.diverged = link[b].diverged
  BY <1>4, ZenonT(60) DEF Links
<1>9. fact' = fact /\ mode' = mode BY DEF Revise
<1>10. CommandKept BY DEF Revise, Outdated, CommandKept
<1>11. command' \in Commands \cup {NoCommand}
  <2>1. CASE command' = command BY <2>1 DEF TypeOK
  <2>2. CASE command # NoCommand /\ command' = [command EXCEPT !.fresh = FALSE]
    <3>1. command \in Commands BY <2>2 DEF TypeOK
    <3>2. [command EXCEPT !.fresh = FALSE] \in Commands BY <3>1, ZenonT(60) DEF Commands
    <3> QED BY <2>2, <3>2
  <2> QED BY <1>10, <2>1, <2>2 DEF CommandKept
<1>12. TypeOK' BY <1>3, <1>7, <1>9, <1>11 DEF TypeOK
<1>13. Others(b) BY <1>1, <1>2, <1>6 DEF Others
<1>14. SourceSilent(b) BY <1>7, <1>8, <1>9 DEF SourceSilent
<1> QED BY <1>3, <1>10, <1>12, <1>13, <1>14

Handled(b) == TypeOK' /\ OrderStep(b) /\ CommandKept

-----------------------------------------------------------------------------
(* Every handler takes such a step. *)

\* createBooking.
LEMMA CreateBookingStep ==
  ASSUME TypeOK, NEW b \in Booking, NEW N \in Stay, CreateBooking(b, N)
  PROVE  Handled(b)
<1> DEFINE r == IF mode = "none" THEN Ordered(N)
                ELSE IF Source[b] = "line"
                THEN [Ordered(N) EXCEPT !.work = "line", !.sync = "action_required"]
                ELSE [Ordered(N) EXCEPT !.sync = "awaiting_manual_sync"]
<1>1. N \in SUBSET Night BY DEF Stay
<1>2. Ordered(N) \in Bookings BY <1>1, OrderedType
<1>3. [Ordered(N) EXCEPT !.work = "line", !.sync = "action_required"] \in Bookings
  BY <1>2, ZenonT(60) DEF Bookings, Sync
<1>4. [Ordered(N) EXCEPT !.sync = "awaiting_manual_sync"] \in Bookings
  BY <1>2, ZenonT(60) DEF Bookings, Sync
<1>5. r \in Bookings BY <1>2, <1>3, <1>4
<1>6. SameOrder(Ordered(N), r)
  <2>1. SameOrder(Ordered(N), [Ordered(N) EXCEPT !.work = "line", !.sync = "action_required"])
    BY <1>2, ZenonT(60) DEF SameOrder, Bookings
  <2>2. SameOrder(Ordered(N), [Ordered(N) EXCEPT !.sync = "awaiting_manual_sync"])
    BY <1>2, ZenonT(60) DEF SameOrder, Bookings
  <2>3. SameOrder(Ordered(N), Ordered(N)) BY DEF SameOrder
  <2> QED BY <2>1, <2>2, <2>3
<1>7. op[b] \in Operations /\ shut' \subseteq Night BY DEF TypeOK, CreateBooking
<1>8. Revise(b, r, op[b], TRUE) BY DEF CreateBooking
<1> HIDE DEF r
<1>9. TypeOK' /\ Others(b) /\ SourceSilent(b) /\ CommandKept /\ bk'[b] = r
  BY <1>5, <1>7, <1>8, ReviseFrame
<1>10. Free(N, b) BY <1>1, NoConflictIsFree DEF CreateBooking
<1>11. Enters(b, bk[b], r)
  BY <1>1, <1>6, <1>10, OrderedType DEF Enters, SameOrder, CreateBooking
<1> QED BY <1>9, <1>11 DEF Handled, OrderStep

\* createHold.
LEMMA CreateHoldStep ==
  ASSUME TypeOK, NEW b \in Booking, NEW N \in Stay, CreateHold(b, N)
  PROVE  Handled(b)
<1> DEFINE r == [Ordered(N) EXCEPT !.status = "held", !.hold = "active"]
<1>1. N \in SUBSET Night BY DEF Stay
<1>2. Ordered(N) \in Bookings BY <1>1, OrderedType
<1>3. r \in Bookings BY <1>2, ZenonT(60) DEF Bookings, Status, Hold
<1>4. /\ r.status = "held" /\ r.hold = "active" /\ r.nights = Ordered(N).nights
      /\ r.money = Ordered(N).money /\ r.owned = Ordered(N).owned
  BY <1>2, ZenonT(60) DEF Bookings
<1>5. op[b] \in Operations /\ shut' \subseteq Night BY DEF TypeOK, CreateHold
<1>6. Revise(b, r, op[b], TRUE) BY DEF CreateHold
<1> HIDE DEF r
<1>7. TypeOK' /\ Others(b) /\ SourceSilent(b) /\ CommandKept /\ bk'[b] = r
  BY <1>3, <1>5, <1>6, ReviseFrame
<1>8. Free(N, b) BY <1>1, NoConflictIsFree DEF CreateHold
<1>9. Enters(b, bk[b], r) BY <1>1, <1>4, <1>8, OrderedType DEF Enters, Direct, CreateHold
<1> QED BY <1>7, <1>9 DEF Handled, OrderStep

\* amendBooking by staff.
LEMMA AmendBookingStep ==
  ASSUME TypeOK, NEW b \in Booking, NEW N \in Stay, AmendBooking(b, N)
  PROVE  Handled(b)
<1>1. N \in SUBSET Night BY DEF Stay
<1>2. bk[b] \in Bookings /\ op[b] \in Operations /\ shut' \subseteq Night BY DEF TypeOK, AmendBooking
<1>3. CASE N = bk[b].nights
  <2>1. Revise(b, bk[b], op[b], FALSE) BY <1>3 DEF AmendBooking
  <2>2. TypeOK' /\ Others(b) /\ SourceSilent(b) /\ CommandKept /\ bk'[b] = bk[b]
    BY <1>2, <2>1, ReviseFrame
  <2>3. Remains(bk[b], bk'[b]) BY <2>2 DEF Remains
  <2> QED BY <2>2, <2>3 DEF Handled, OrderStep
<1>4. CASE N # bk[b].nights
  <2> DEFINE a == OsAmended(bk[b], N)
             r == [a EXCEPT !.nights = N]
  <2>1. a \in Bookings /\ SameOrder(bk[b], a) BY <1>1, <1>2, OsAmendedFrame
  <2>2. Revise(b, r, op[b], TRUE) BY <1>4 DEF AmendBooking
  <2> HIDE DEF a
  <2>3. r \in Bookings BY <1>1, <2>1, ZenonT(60) DEF Bookings
  <2>4. /\ r.nights = N /\ r.status = a.status /\ r.hold = a.hold
        /\ r.money = a.money /\ r.owned = a.owned
    BY <2>1, ZenonT(60) DEF Bookings
  <2> HIDE DEF r
  <2>5. TypeOK' /\ Others(b) /\ SourceSilent(b) /\ CommandKept /\ bk'[b] = r
    BY <1>2, <2>2, <2>3, ReviseFrame
  <2>6. Free(N, b) BY <1>1, <1>4, NoConflictIsFree DEF AmendBooking
  <2>7. Moves(b, bk[b], r) BY <2>1, <2>4, <2>6 DEF Moves, SameOrder, AmendBooking
  <2> QED BY <2>5, <2>7 DEF Handled, OrderStep
<1> QED BY <1>3, <1>4

\* amendBooking by LINE.
LEMMA AmendByLineStep ==
  ASSUME TypeOK, NEW b \in Booking, NEW N \in Stay, AmendByLine(b, N)
  PROVE  Handled(b)
<1> DEFINE a == LineWork(bk[b], N)
           r == [a EXCEPT !.nights = N]
<1>1. N \in SUBSET Night BY DEF Stay
<1>2. bk[b] \in Bookings /\ op[b] \in Operations /\ shut' \subseteq Night BY DEF TypeOK, AmendByLine
<1>3. a \in Bookings /\ SameOrder(bk[b], a) BY <1>1, <1>2, LineWorkFrame
<1>4. Revise(b, r, op[b], TRUE) BY DEF AmendByLine
<1> HIDE DEF a
<1>5. r \in Bookings BY <1>1, <1>3, ZenonT(60) DEF Bookings
<1>6. /\ r.nights = N /\ r.status = a.status /\ r.hold = a.hold
      /\ r.money = a.money /\ r.owned = a.owned
  BY <1>3, ZenonT(60) DEF Bookings
<1> HIDE DEF r
<1>7. TypeOK' /\ Others(b) /\ SourceSilent(b) /\ CommandKept /\ bk'[b] = r
  BY <1>2, <1>4, <1>5, ReviseFrame
<1>8. Free(N, b) BY <1>1, NoConflictIsFree DEF AmendByLine
<1>9. Moves(b, bk[b], r) BY <1>3, <1>6, <1>8 DEF Moves, SameOrder, AmendByLine, LineMay
<1> QED BY <1>7, <1>9 DEF Handled, OrderStep

\* cancelBooking by LINE.
LEMMA CancelByLineStep ==
  ASSUME TypeOK, NEW b \in Booking, CancelByLine(b)
  PROVE  Handled(b)
<1> DEFINE a == LineWork(bk[b], {})
           r == [a EXCEPT !.status = "cancelled"]
<1>1. bk[b] \in Bookings /\ op[b] \in Operations /\ shut' \subseteq Night BY DEF TypeOK, CancelByLine
<1>2. a \in Bookings /\ SameOrder(bk[b], a) BY <1>1, LineWorkFrame
<1>3. Revise(b, r, op[b], TRUE) BY DEF CancelByLine
<1> HIDE DEF a
<1>4. r \in Bookings BY <1>2, ZenonT(60) DEF Bookings, Status
<1>5. /\ r.status = "cancelled" /\ r.nights = a.nights /\ r.hold = a.hold
      /\ r.money = a.money /\ r.owned = a.owned
  BY <1>2, ZenonT(60) DEF Bookings
<1> HIDE DEF r
<1>6. TypeOK' /\ Others(b) /\ SourceSilent(b) /\ CommandKept /\ bk'[b] = r
  BY <1>1, <1>3, <1>4, ReviseFrame
<1>7. Cancels(b, bk[b], r) BY <1>2, <1>5 DEF Cancels, SameOrder, CancelByLine, LineMay
<1> QED BY <1>6, <1>7 DEF Handled, OrderStep

\* The operation a cancellation leaves to the channel, and the booking's part in it.
LEMMA CancelledFrame ==
  ASSUME TypeOK, NEW b \in Booking
  PROVE  /\ Cancelled(b)[1] \in Bookings /\ SameOrder(bk[b], Cancelled(b)[1])
         /\ Cancelled(b)[2] \in Operations
<1>1. bk[b] \in Bookings /\ op[b] \in Operations BY DEF TypeOK
<1>2. CASE mode = "none" BY <1>1, <1>2 DEF Cancelled, SameOrder
<1>3. CASE mode # "none" /\ bk[b].work = "hand"
  BY <1>1, <1>3, HandWorkFrame DEF Cancelled
<1>4. CASE mode # "none" /\ bk[b].work # "hand" /\ bk[b].sync = "awaiting_manual_sync"
  <2>1. [bk[b] EXCEPT !.sync = "not_required"] \in Bookings BY <1>1, ZenonT(60) DEF Bookings, Sync
  <2>2. SameOrder(bk[b], [bk[b] EXCEPT !.sync = "not_required"])
    BY <1>1, ZenonT(60) DEF Bookings, SameOrder
  <2> QED BY <1>1, <1>4, <2>1, <2>2 DEF Cancelled
<1>5. CASE mode # "none" /\ bk[b].work # "hand" /\ bk[b].sync \in {"pending", "review_required"}
  <2>1. [bk[b] EXCEPT !.sync = "review_required"] \in Bookings BY <1>1, ZenonT(60) DEF Bookings, Sync
  <2>2. SameOrder(bk[b], [bk[b] EXCEPT !.sync = "review_required"])
    BY <1>1, ZenonT(60) DEF Bookings, SameOrder
  <2>3. [op[b] EXCEPT !.state = "review_required"] \in Operations BY <1>1, ZenonT(60) DEF Operations
  <2>4. Cancelled(b) = <<[bk[b] EXCEPT !.sync = "review_required"],
           IF bk[b].key THEN [op[b] EXCEPT !.state = "review_required"] ELSE op[b]>>
    BY <1>5 DEF Cancelled
  <2> QED BY <1>1, <2>1, <2>2, <2>3, <2>4
<1>6. CASE /\ mode # "none" /\ bk[b].work # "hand"
           /\ bk[b].sync \notin {"awaiting_manual_sync", "pending", "review_required"}
  <2> DEFINE a == [bk[b] EXCEPT !.sync = "pending", !.key = TRUE]
             p == Pending({}, bk[b].nights, FALSE, FALSE)
  <2>1. a \in Bookings BY <1>1, ZenonT(60) DEF Bookings, Sync
  <2>2. SameOrder(bk[b], a) BY <1>1, ZenonT(60) DEF Bookings, SameOrder
  <2>3. bk[b].nights \in SUBSET Night BY <1>1, Zenon DEF Bookings
  <2>4. p \in Operations BY <2>3, ZenonT(60) DEF Pending, Operations
  <2>5. Cancelled(b) = <<a, p>> BY <1>6 DEF Cancelled
  <2> HIDE DEF a, p
  <2> QED BY <2>1, <2>2, <2>4, <2>5
<1> QED BY <1>2, <1>3, <1>4, <1>5, <1>6

\* cancelBooking by staff.
LEMMA CancelBookingStep ==
  ASSUME TypeOK, NEW b \in Booking, CancelBooking(b)
  PROVE  Handled(b)
<1> DEFINE a == Cancelled(b)[1]
           r == [a EXCEPT !.status = "cancelled"]
<1>1. Cancelled(b)[2] \in Operations /\ shut' \subseteq Night
  BY CancelledFrame DEF TypeOK, CancelBooking
<1>2. a \in Bookings /\ SameOrder(bk[b], a) BY CancelledFrame
<1>3. Revise(b, r, Cancelled(b)[2], TRUE) BY DEF CancelBooking
<1> HIDE DEF a
<1>4. r \in Bookings BY <1>2, ZenonT(60) DEF Bookings, Status
<1>5. /\ r.status = "cancelled" /\ r.nights = a.nights /\ r.hold = a.hold
      /\ r.money = a.money /\ r.owned = a.owned
  BY <1>2, ZenonT(60) DEF Bookings
<1> HIDE DEF r
<1>6. TypeOK' /\ Others(b) /\ SourceSilent(b) /\ CommandKept /\ bk'[b] = r
  BY <1>1, <1>3, <1>4, ReviseFrame
<1>7. Cancels(b, bk[b], r) BY <1>2, <1>5 DEF Cancels, SameOrder, CancelBooking
<1> QED BY <1>6, <1>7 DEF Handled, OrderStep

\* A change of a booking and its operation that leaves the booking's version alone.
LEMMA UpdateFrame ==
  ASSUME TypeOK, NEW b \in Booking, NEW r \in Bookings, NEW o \in Operations,
         bk' = [bk EXCEPT ![b] = r], op' = [op EXCEPT ![b] = o],
         Outdated(b, TRUE) \/ command' = command,
         UNCHANGED <<mode, link, fact>>, shut' \subseteq Night, SameOrder(bk[b], r)
  PROVE  Handled(b)
<1>1. bk \in [Booking -> Bookings] /\ op \in [Booking -> Operations] /\ link \in [Booking -> Links]
  BY DEF TypeOK
<1>2. bk' \in [Booking -> Bookings] /\ op' \in [Booking -> Operations] /\ bk'[b] = r
  BY <1>1
<1>3. CommandKept BY DEF Outdated, CommandKept
<1>4. command' \in Commands \cup {NoCommand}
  <2>1. CASE command' = command BY <2>1 DEF TypeOK
  <2>2. CASE command # NoCommand /\ command' = [command EXCEPT !.fresh = FALSE]
    <3>1. command \in Commands BY <2>2 DEF TypeOK
    <3>2. [command EXCEPT !.fresh = FALSE] \in Commands BY <3>1, ZenonT(60) DEF Commands
    <3> QED BY <2>2, <3>2
  <2> QED BY <1>3, <2>1, <2>2 DEF CommandKept
<1>5. TypeOK' BY <1>2, <1>4 DEF TypeOK
<1>6. Others(b) BY <1>1 DEF Others
<1>7. SourceSilent(b) BY DEF SourceSilent
<1>8. Remains(bk[b], bk'[b]) BY <1>2 DEF Remains, SameOrder
<1> QED BY <1>3, <1>5, <1>6, <1>7, <1>8 DEF Handled, OrderStep

\* confirmManualRoomHandling.
LEMMA ConfirmManualRoomHandlingStep ==
  ASSUME TypeOK, NEW b \in Booking, ConfirmManualRoomHandling(b)
  PROVE  Handled(b)
<1> DEFINE N == Current(bk[b])
           r == [bk[b] EXCEPT !.work = "hand", !.base = N, !.aside = {},
                              !.sync = "manually_confirmed"]
<1>1. bk[b] \in Bookings /\ op[b] \in Operations /\ shut \subseteq Night BY DEF TypeOK
<1>2. bk[b].nights \in SUBSET Night BY <1>1, Zenon DEF Bookings
<1>3. N \in SUBSET Night BY <1>2 DEF Current
<1>4. Revise(b, r, op[b], TRUE) /\ shut' \subseteq Night
  BY <1>1, <1>3 DEF ConfirmManualRoomHandling
<1> HIDE DEF N
<1>5. r \in Bookings BY <1>1, <1>3, ZenonT(60) DEF Bookings, Sync
<1>6. SameOrder(bk[b], r) BY <1>1, ZenonT(60) DEF Bookings, SameOrder
<1> HIDE DEF r
<1>7. TypeOK' /\ Others(b) /\ SourceSilent(b) /\ CommandKept /\ bk'[b] = r
  BY <1>1, <1>4, <1>5, ReviseFrame
<1>8. Remains(bk[b], r) BY <1>6 DEF Remains, SameOrder
<1> QED BY <1>7, <1>8 DEF Handled, OrderStep

\* requestManualChannelSync.
LEMMA RequestManualChannelSyncStep ==
  ASSUME TypeOK, NEW b \in Booking, RequestManualChannelSync(b)
  PROVE  Handled(b)
<1> DEFINE N == Current(bk[b])
           B == IF bk[b].work = "os" THEN bk[b].base ELSE {}
           A == IF bk[b].work = "os" THEN {} ELSE bk[b].aside
           r == [bk[b] EXCEPT !.sync = "pending", !.key = TRUE, !.aside = A]
           o == Pending(N \ B, B \ N, FALSE, B = {})
<1>1. bk[b] \in Bookings /\ shut \subseteq Night BY DEF TypeOK
<1>2. /\ bk[b].nights \in SUBSET Night /\ bk[b].base \in SUBSET Night
      /\ bk[b].aside \in SUBSET Night BY <1>1, Zenon DEF Bookings
<1>3. N \in SUBSET Night /\ B \in SUBSET Night /\ A \in SUBSET Night BY <1>2 DEF Current
<1>4. /\ bk' = [bk EXCEPT ![b] = r] /\ op' = [op EXCEPT ![b] = o]
      /\ Outdated(b, TRUE) /\ UNCHANGED <<mode, link, fact>> /\ shut' \subseteq Night
  BY <1>1 DEF RequestManualChannelSync
<1> HIDE DEF N, B, A
<1>5. N \ B \in SUBSET Night /\ B \ N \in SUBSET Night BY <1>3
<1>6. r \in Bookings BY <1>1, <1>3, ZenonT(60) DEF Bookings, Sync
<1>7. SameOrder(bk[b], r) BY <1>1, ZenonT(60) DEF Bookings, SameOrder
<1>8. o \in Operations BY <1>5, ZenonT(60) DEF Operations, Pending
<1> HIDE DEF r, o
<1> QED BY <1>4, <1>6, <1>7, <1>8, UpdateFrame

\* requestLineChannelAction.
LEMMA RequestLineChannelActionStep ==
  ASSUME TypeOK, NEW b \in Booking, NEW wish \in {"closed", "open"}, RequestLineChannelAction(b, wish)
  PROVE  Handled(b)
<1> DEFINE add == Current(bk[b]) \ bk[b].base
           drop == bk[b].base \ Current(bk[b])
           A == IF wish = "open" THEN {} ELSE bk[b].aside
           r == [bk[b] EXCEPT !.sync = "pending", !.key = TRUE, !.aside = A]
           o == IF wish = "open" THEN Pending({}, drop, TRUE, FALSE) ELSE Pending(add, {}, TRUE, TRUE)
<1>1. bk[b] \in Bookings /\ shut \subseteq Night /\ bk \in [Booking -> Bookings] BY DEF TypeOK
<1>2. /\ bk[b].nights \in SUBSET Night /\ bk[b].base \in SUBSET Night
      /\ bk[b].aside \in SUBSET Night BY <1>1, Zenon DEF Bookings
<1>3. add \in SUBSET Night /\ drop \in SUBSET Night /\ A \in SUBSET Night BY <1>2 DEF Current
<1>4. bk' = [bk EXCEPT ![b].sync = "pending", ![b].key = TRUE,
                      ![b].aside = IF wish = "open" THEN {} ELSE @] BY DEF RequestLineChannelAction
<1>5. bk' = [bk EXCEPT ![b] = r] BY <1>1, <1>4
<1>6. op' = [op EXCEPT ![b] = o] BY DEF RequestLineChannelAction
<1>7. Outdated(b, TRUE) /\ UNCHANGED <<mode, link, fact>> /\ shut' \subseteq Night
  BY <1>1 DEF RequestLineChannelAction
<1> HIDE DEF add, drop, A
<1>8. r \in Bookings BY <1>1, <1>3, ZenonT(60) DEF Bookings, Sync
<1>9. SameOrder(bk[b], r) BY <1>1, ZenonT(60) DEF Bookings, SameOrder
<1>10. o \in Operations BY <1>3, ZenonT(60) DEF Operations, Pending
<1> HIDE DEF r, o
<1> QED BY <1>5, <1>6, <1>7, <1>8, <1>9, <1>10, UpdateFrame

\* What a verified readback leaves to do touches only the synchronisation.
LEMMA SettledFrame ==
  ASSUME TypeOK, NEW b \in Booking
  PROVE  Settled(b) \in Bookings /\ SameOrder(bk[b], Settled(b))
<1>1. bk[b] \in Bookings /\ op[b] \in Operations BY DEF TypeOK
<1>2. /\ bk[b].nights \in SUBSET Night /\ bk[b].base \in SUBSET Night
      /\ op[b].close \in SUBSET Night /\ op[b].open \in SUBSET Night
  BY <1>1, Zenon DEF Bookings, Operations
<1>3. CASE op[b].line /\ bk[b].work = "line"
  <2> DEFINE B == (bk[b].base \cup op[b].close) \ op[b].open
             a == [bk[b] EXCEPT !.base = B]
             N == Current(bk[b])
  <2>1. B \in SUBSET Night /\ N \in SUBSET Night BY <1>2 DEF Current
  <2>2. Settled(b) = LineWork(a, N) BY <1>1, <1>3 DEF Settled
  <2> HIDE DEF B, N
  <2>3. a \in Bookings BY <1>1, <2>1, ZenonT(60) DEF Bookings
  <2>4. SameOrder(bk[b], a) BY <1>1, ZenonT(60) DEF Bookings, SameOrder
  <2> HIDE DEF a
  <2>5. LineWork(a, N) \in Bookings /\ SameOrder(a, LineWork(a, N)) BY <2>1, <2>3, LineWorkFrame
  <2> QED BY <2>2, <2>4, <2>5 DEF SameOrder
<1>4. CASE ~(op[b].line /\ bk[b].work = "line") /\ bk[b].work = "os"
  <2> DEFINE a == [bk[b] EXCEPT !.sync = "verified", !.work = "none", !.base = {},
                     !.was = "not_required", !.wasKey = FALSE]
  <2>1. a \in Bookings BY <1>1, ZenonT(60) DEF Bookings, Sync
  <2>2. SameOrder(bk[b], a) BY <1>1, ZenonT(60) DEF Bookings, SameOrder
  <2>3. Settled(b) = a BY <1>4 DEF Settled
  <2> HIDE DEF a
  <2> QED BY <2>1, <2>2, <2>3
<1>5. CASE ~(op[b].line /\ bk[b].work = "line") /\ bk[b].work # "os"
  <2> DEFINE a == [bk[b] EXCEPT !.sync = "verified"]
  <2>1. a \in Bookings BY <1>1, ZenonT(60) DEF Bookings, Sync
  <2>2. SameOrder(bk[b], a) BY <1>1, ZenonT(60) DEF Bookings, SameOrder
  <2>3. Settled(b) = a BY <1>5 DEF Settled
  <2> HIDE DEF a
  <2> QED BY <2>1, <2>2, <2>3
<1> QED BY <1>3, <1>4, <1>5

\* recordChannelReadback.
LEMMA RecordReadbackStep ==
  ASSUME TypeOK, NEW b \in Booking, NEW exact \in BOOLEAN, RecordReadback(b, exact)
  PROVE  Handled(b)
<1>1. /\ bk[b] \in Bookings /\ op[b] \in Operations /\ shut \subseteq Night
      /\ bk \in [Booking -> Bookings] /\ op \in [Booking -> Operations] BY DEF TypeOK
<1>2. CASE exact /\ OwnsNights(b)
  <2> DEFINE r == Settled(b)
             o == [op[b] EXCEPT !.state = "sync_verified"]
  <2>1. r \in Bookings /\ SameOrder(bk[b], r) BY SettledFrame
  <2>2. o \in Operations BY <1>1, ZenonT(60) DEF Operations
  <2>3. op[b].close \in SUBSET Night BY <1>1, Zenon DEF Operations
  <2>4. Revise(b, r, o, TRUE) /\ shut' = (shut \cup op[b].close) \ op[b].open
    BY <1>2 DEF RecordReadback
  <2>5. shut' \subseteq Night BY <1>1, <2>3, <2>4
  <2> HIDE DEF r, o
  <2>6. TypeOK' /\ Others(b) /\ SourceSilent(b) /\ CommandKept /\ bk'[b] = r
    BY <2>1, <2>2, <2>4, <2>5, ReviseFrame
  <2>7. Remains(bk[b], r) BY <2>1 DEF Remains, SameOrder
  <2> QED BY <2>6, <2>7 DEF Handled, OrderStep
<1>3. CASE ~(exact /\ OwnsNights(b))
  <2> DEFINE r == [bk[b] EXCEPT !.sync = "review_required"]
             o == [op[b] EXCEPT !.state = "review_required"]
  <2>1. r \in Bookings BY <1>1, ZenonT(60) DEF Bookings, Sync
  <2>2. SameOrder(bk[b], r) BY <1>1, ZenonT(60) DEF Bookings, SameOrder
  <2>3. o \in Operations BY <1>1, ZenonT(60) DEF Operations
  <2>4. /\ bk' = [bk EXCEPT ![b].sync = "review_required"]
        /\ op' = [op EXCEPT ![b].state = "review_required"]
        /\ Outdated(b, TRUE) /\ UNCHANGED <<mode, link, fact>> /\ shut' \subseteq Night
    BY <1>1, <1>3 DEF RecordReadback
  <2>5. bk' = [bk EXCEPT ![b] = r] /\ op' = [op EXCEPT ![b] = o] BY <1>1, <2>4
  <2> HIDE DEF r, o
  <2> QED BY <2>1, <2>2, <2>3, <2>4, <2>5, UpdateFrame
<1> QED BY <1>2, <1>3

\* The deadline of a hold passes.
LEMMA HoldExpiresStep ==
  ASSUME TypeOK, NEW b \in Booking, HoldExpires(b)
  PROVE  Handled(b)
<1> DEFINE r == [bk[b] EXCEPT !.hold = "overdue"]
<1>1. bk[b] \in Bookings /\ bk \in [Booking -> Bookings] BY DEF TypeOK
<1>2. r \in Bookings BY <1>1, ZenonT(60) DEF Bookings, Hold
<1>3. /\ r.status = bk[b].status /\ r.nights = bk[b].nights /\ r.money = bk[b].money
      /\ r.owned = bk[b].owned /\ r.hold = "overdue"
  BY <1>1, ZenonT(60) DEF Bookings
<1>4. bk' = [bk EXCEPT ![b] = r] BY <1>1 DEF HoldExpires
<1> HIDE DEF r
<1>5. bk' \in [Booking -> Bookings] /\ bk'[b] = r BY <1>1, <1>2, <1>4
<1>6. UNCHANGED <<mode, op, link, fact, command, shut>> BY DEF HoldExpires
<1>7. TypeOK' BY <1>5, <1>6 DEF TypeOK
<1>8. Others(b) /\ SourceSilent(b) /\ CommandKept
  BY <1>1, <1>4, <1>6 DEF Others, SourceSilent, CommandKept
<1>9. Remains(bk[b], r) BY <1>3 DEF Remains, Running, HoldExpires
<1> QED BY <1>5, <1>7, <1>8, <1>9 DEF Handled, OrderStep

\* extendHold.
LEMMA ExtendHoldStep ==
  ASSUME TypeOK, NEW b \in Booking, ExtendHold(b)
  PROVE  Handled(b)
<1> DEFINE r == [bk[b] EXCEPT !.hold = "active"]
<1>1. bk[b] \in Bookings /\ op[b] \in Operations /\ shut' \subseteq Night BY DEF TypeOK, ExtendHold
<1>2. r \in Bookings BY <1>1, ZenonT(60) DEF Bookings, Hold
<1>3. /\ r.status = bk[b].status /\ r.nights = bk[b].nights /\ r.money = bk[b].money
      /\ r.owned = bk[b].owned /\ r.hold = "active"
  BY <1>1, ZenonT(60) DEF Bookings
<1>4. Revise(b, r, op[b], FALSE) BY DEF ExtendHold
<1> HIDE DEF r
<1>5. TypeOK' /\ Others(b) /\ SourceSilent(b) /\ CommandKept /\ bk'[b] = r
  BY <1>1, <1>2, <1>4, ReviseFrame
<1>6. Remains(bk[b], r) BY <1>3 DEF Remains, Running, ExtendHold
<1> QED BY <1>5, <1>6 DEF Handled, OrderStep

\* convertHold.
LEMMA ConvertHoldStep ==
  ASSUME TypeOK, NEW b \in Booking, ConvertHold(b)
  PROVE  Handled(b)
<1> DEFINE r == [bk[b] EXCEPT !.status = "confirmed", !.hold = "converted"]
<1>1. bk[b] \in Bookings /\ op[b] \in Operations /\ shut' \subseteq Night BY DEF TypeOK, ConvertHold
<1>2. r \in Bookings BY <1>1, ZenonT(60) DEF Bookings, Hold, Status
<1>3. /\ r.status = "confirmed" /\ r.nights = bk[b].nights /\ r.money = bk[b].money
      /\ r.owned = bk[b].owned /\ r.hold = "converted"
  BY <1>1, ZenonT(60) DEF Bookings
<1>4. Revise(b, r, op[b], FALSE) BY DEF ConvertHold
<1> HIDE DEF r
<1>5. TypeOK' /\ Others(b) /\ SourceSilent(b) /\ CommandKept /\ bk'[b] = r
  BY <1>1, <1>2, <1>4, ReviseFrame
<1>6. Converts(bk[b], r) BY <1>3 DEF Converts, ConvertHold
<1> QED BY <1>5, <1>6 DEF Handled, OrderStep

\* releaseHold.
LEMMA ReleaseHoldStep ==
  ASSUME TypeOK, NEW b \in Booking, ReleaseHold(b)
  PROVE  Handled(b)
<1> DEFINE r == [bk[b] EXCEPT !.status = "cancelled", !.hold = "released"]
<1>1. bk[b] \in Bookings /\ op[b] \in Operations /\ shut' \subseteq Night BY DEF TypeOK, ReleaseHold
<1>2. r \in Bookings BY <1>1, ZenonT(60) DEF Bookings, Hold, Status
<1>3. /\ r.status = "cancelled" /\ r.nights = bk[b].nights /\ r.money = bk[b].money
      /\ r.owned = bk[b].owned /\ r.hold = "released"
  BY <1>1, ZenonT(60) DEF Bookings
<1>4. Revise(b, r, op[b], TRUE) BY DEF ReleaseHold
<1> HIDE DEF r
<1>5. TypeOK' /\ Others(b) /\ SourceSilent(b) /\ CommandKept /\ bk'[b] = r
  BY <1>1, <1>2, <1>4, ReviseFrame
<1>6. Releases(bk[b], r) BY <1>3 DEF Releases, ReleaseHold
<1> QED BY <1>5, <1>6 DEF Handled, OrderStep

\* recordPaymentEvent.
LEMMA RecordPaymentStep ==
  ASSUME TypeOK, NEW b \in Booking, NEW amount \in Int, RecordPayment(b, amount)
  PROVE  Handled(b)
<1> DEFINE m == bk[b].money + amount
           h == IF bk[b].hold \in {"released", "late_payment"}
                THEN IF m > 0 THEN "late_payment" ELSE "released" ELSE bk[b].hold
           r == [bk[b] EXCEPT !.money = m, !.hold = h]
<1>1. bk[b] \in Bookings /\ op[b] \in Operations /\ shut' \subseteq Night
  BY DEF TypeOK, RecordPayment
<1>2. m \in 0..MaxMoney BY DEF RecordPayment
<1>3. bk[b].hold \in Hold /\ bk[b].money \in 0..MaxMoney BY <1>1, Zenon DEF Bookings
<1>4. h \in Hold BY <1>3 DEF Hold
<1>5. Revise(b, r, op[b], FALSE) BY <1>1, Zenon DEF RecordPayment, Bookings
<1>6. m > bk[b].money => MayReceive(b) BY <1>3, SourceAssumption DEF RecordPayment
<1> HIDE DEF m, h
<1>7. r \in Bookings BY <1>1, <1>2, <1>4, ZenonT(60) DEF Bookings
<1>8. /\ r.status = bk[b].status /\ r.nights = bk[b].nights /\ r.money = m
      /\ r.owned = bk[b].owned /\ r.hold = h
  BY <1>1, ZenonT(60) DEF Bookings
<1> HIDE DEF r
<1>9. TypeOK' /\ Others(b) /\ SourceSilent(b) /\ CommandKept /\ bk'[b] = r
  BY <1>1, <1>5, <1>7, ReviseFrame
<1>10. Pays(b, bk[b], r) BY <1>6, <1>8 DEF Pays, RecordPayment, h
<1> QED BY <1>9, <1>10 DEF Handled, OrderStep

\* Staff correct the name of a source's order.
LEMMA CorrectNameStep ==
  ASSUME TypeOK, NEW b \in Booking, CorrectName(b)
  PROVE  Handled(b)
<1> DEFINE l == [link[b] EXCEPT !.at = FALSE, !.diverged = TRUE]
<1>1. link[b] \in Links /\ link \in [Booking -> Links] BY DEF TypeOK
<1>2. l \in Links BY <1>1, ZenonT(60) DEF Links
<1>3. l.ver = link[b].ver /\ l.tomb = link[b].tomb /\ l.fence = link[b].fence /\ l.diverged
  BY <1>1, ZenonT(60) DEF Links
<1>4. link' = [link EXCEPT ![b] = l] BY <1>1 DEF CorrectName
<1> HIDE DEF l
<1>5. link' \in [Booking -> Links] /\ link'[b] = l BY <1>1, <1>2, <1>4
<1>6. UNCHANGED <<mode, bk, op, fact, shut>> /\ Outdated(b, FALSE) BY DEF CorrectName
<1>7. CommandKept BY <1>6 DEF Outdated, CommandKept
<1>8. command' \in Commands \cup {NoCommand}
  <2>1. CASE command' = command BY <2>1 DEF TypeOK
  <2>2. CASE command # NoCommand /\ command' = [command EXCEPT !.fresh = FALSE]
    <3>1. command \in Commands BY <2>2 DEF TypeOK
    <3>2. [command EXCEPT !.fresh = FALSE] \in Commands BY <3>1, ZenonT(60) DEF Commands
    <3> QED BY <2>2, <3>2
  <2> QED BY <1>7, <2>1, <2>2 DEF CommandKept
<1>9. TypeOK' BY <1>5, <1>6, <1>8 DEF TypeOK
<1>10. Others(b) /\ SourceSilent(b) BY <1>1, <1>3, <1>4, <1>5, <1>6 DEF Others, SourceSilent
<1>11. Remains(bk[b], bk'[b]) BY <1>6 DEF Remains
<1> QED BY <1>7, <1>9, <1>10, <1>11 DEF Handled, OrderStep

-----------------------------------------------------------------------------
(* Source events. *)

\* A report that has to be reviewed: its nights are fenced with those fenced before.
Reviews(b, v, f) ==
  /\ Obstacle(b, v, f) /\ bk' = bk
  /\ link'[b].ver = link[b].ver /\ link'[b].tomb = link[b].tomb
  /\ link[b].diverged \/ link[b].ver > 0 => link'[b].diverged
  /\ link[b].fence \cup f.nights \subseteq link'[b].fence

\* A report that is followed.
Follows(b, v, f) ==
  /\ ~Obstacle(b, v, f) /\ bk'[b] = Followed(b, f)
  /\ link'[b].ver = v /\ link'[b].diverged = link[b].diverged /\ link'[b].fence = link[b].fence
  /\ link'[b].tomb = IF f.kind = "cancel" THEN f.nights ELSE link[b].tomb

SourceStep(b, v, f) ==
  /\ Source[b] = "external" /\ Others(b) /\ fact[b][v] \in {NoFact, f}
  /\ \/ bk[b].owned /\ UNCHANGED <<bk, link, fact>>
     \/ /\ ~bk[b].owned /\ fact' = [fact EXCEPT ![b][v] = f]
        /\ Reviews(b, v, f) \/ Follows(b, v, f)

\* An order of which its source reports more is still a booking.
LEMMA FollowedType ==
  ASSUME TypeOK, NEW b \in Booking, NEW f \in Fact
  PROVE  Followed(b, f) \in Bookings
<1>1. bk[b] \in Bookings BY DEF TypeOK
<1>2. f.nights \in SUBSET Night
  <2>1. f.nights \in Stay BY Zenon DEF Fact
  <2> QED BY <2>1 DEF Stay
<1>3. [bk[b] EXCEPT !.status = "confirmed", !.nights = f.nights] \in Bookings
  BY <1>1, <1>2, ZenonT(60) DEF Bookings, Status
<1>4. [bk[b] EXCEPT !.status = "cancelled"] \in Bookings BY <1>1, ZenonT(60) DEF Bookings, Status
<1> QED BY <1>1, <1>3, <1>4 DEF Followed

\* applySourceEvent.
LEMMA ApplySourceEventStep ==
  ASSUME TypeOK, NEW b \in Booking, NEW v \in Version, NEW f \in Fact, ApplySourceEvent(b, v, f)
  PROVE  TypeOK' /\ SourceStep(b, v, f) /\ CommandKept
<1>1. /\ bk \in [Booking -> Bookings] /\ op \in [Booking -> Operations]
      /\ link \in [Booking -> Links] /\ link[b] \in Links /\ bk[b] \in Bookings
      /\ fact \in [Booking -> [Version -> Fact \cup {NoFact}]]
  BY DEF TypeOK
<1>2. CommandKept /\ UNCHANGED <<mode, op, shut>> BY DEF ApplySourceEvent, Outdated, CommandKept
<1>3. command' \in Commands \cup {NoCommand}
  <2>1. CASE command' = command BY <2>1 DEF TypeOK
  <2>2. CASE command # NoCommand /\ command' = [command EXCEPT !.fresh = FALSE]
    <3>1. command \in Commands BY <2>2 DEF TypeOK
    <3>2. [command EXCEPT !.fresh = FALSE] \in Commands BY <3>1, ZenonT(60) DEF Commands
    <3> QED BY <2>2, <3>2
  <2> QED BY <1>2, <2>1, <2>2 DEF CommandKept
<1>4. Source[b] = "external" /\ fact[b][v] \in {NoFact, f} BY DEF ApplySourceEvent
<1>5. CASE bk[b].owned
  <2>1. UNCHANGED <<bk, link, fact>> BY <1>5 DEF ApplySourceEvent
  <2>2. TypeOK' BY <1>1, <1>2, <1>3, <2>1, SMTT(30) DEF TypeOK
  <2>3. Others(b) BY <1>2, <2>1 DEF Others
  <2>4. SourceStep(b, v, f) BY <1>4, <1>5, <2>1, <2>3 DEF SourceStep
  <2> QED BY <1>2, <2>2, <2>4
<1>6. CASE ~bk[b].owned
  <2>1. fact' = [fact EXCEPT ![b][v] = f] BY <1>6 DEF ApplySourceEvent
  <2>2. fact' \in [Booking -> [Version -> Fact \cup {NoFact}]]
    <3> DEFINE g == [fact[b] EXCEPT ![v] = f]
    <3>1. g \in [Version -> Fact \cup {NoFact}] BY <1>1
    <3>2. fact' = [fact EXCEPT ![b] = g] BY <1>1, <2>1
    <3> HIDE DEF g
    <3> QED BY <1>1, <3>1, <3>2
  <2>3. f.nights \in SUBSET Night /\ v \in 0..MaxFact
    <3>1. f.nights \in Stay BY Zenon DEF Fact
    <3>2. v \in 1..MaxFact /\ MaxFact \in Nat BY SourceAssumption DEF Version
    <3> QED BY <3>1, <3>2 DEF Stay
  <2>4. CASE Obstacle(b, v, f)
    <3> DEFINE N == InQuestion(b, v, f)
               d == link[b].diverged \/ link[b].ver > 0
               l == [link[b] EXCEPT !.fence = @ \cup N, !.diverged = d]
    <3>1. bk' = bk /\ link' = [link EXCEPT ![b] = Reviewed(b, N)]
      BY <1>6, <2>4 DEF ApplySourceEvent
    <3>2. /\ bk[b].nights \in SUBSET Night /\ link[b].tomb \in SUBSET Night
          /\ link[b].fence \in SUBSET Night
      BY <1>1, Zenon DEF Bookings, Links
    <3>3. N \in SUBSET Night /\ f.nights \subseteq N BY <2>3, <3>2 DEF InQuestion, Known
    <3>4. link' = [link EXCEPT ![b] = l] BY <1>1, <3>1, Zenon DEF Reviewed, Links
    <3>5. d \in BOOLEAN BY <1>1, Zenon DEF Links
    <3> HIDE DEF N, d
    <3>6. l \in Links BY <1>1, <3>2, <3>3, <3>5, ZenonT(60) DEF Links
    <3>7. /\ l.ver = link[b].ver /\ l.tomb = link[b].tomb /\ l.diverged = d
          /\ l.fence = link[b].fence \cup N
      BY <1>1, ZenonT(60) DEF Links
    <3> HIDE DEF l
    <3>8. link' \in [Booking -> Links] /\ link'[b] = l BY <1>1, <3>4, <3>6
    <3>9. TypeOK' BY <1>1, <1>2, <1>3, <2>2, <3>1, <3>8 DEF TypeOK
    <3>10. Others(b) BY <1>1, <1>2, <3>1, <3>4 DEF Others
    <3>11. Reviews(b, v, f)
      <4>1. link[b].fence \cup f.nights \subseteq l.fence BY <3>3, <3>7
      <4> QED BY <2>4, <3>1, <3>7, <3>8, <4>1 DEF Reviews, d
    <3> QED BY <1>2, <1>4, <1>6, <2>1, <3>9, <3>10, <3>11 DEF SourceStep
  <2>5. CASE ~Obstacle(b, v, f)
    <3> DEFINE t == IF f.kind = "cancel" THEN f.nights ELSE link[b].tomb
               l == [link[b] EXCEPT !.ver = v, !.at = TRUE, !.tomb = t]
    <3>1. bk' = [bk EXCEPT ![b] = Followed(b, f)] BY <1>6, <2>5 DEF ApplySourceEvent
    <3>2. link' = [link EXCEPT ![b].ver = v, ![b].at = TRUE,
                                ![b].tomb = IF f.kind = "cancel" THEN f.nights ELSE @]
      BY <1>6, <2>5 DEF ApplySourceEvent
    <3>3. link' = [link EXCEPT ![b] = l] BY <1>1, <3>2, ZenonT(60) DEF Links
    <3>4. t \in SUBSET Night BY <1>1, <2>3, Zenon DEF Links
    <3> HIDE DEF t
    <3>5. l \in Links BY <1>1, <2>3, <3>4, ZenonT(60) DEF Links
    <3>6. /\ l.ver = v /\ l.tomb = t /\ l.diverged = link[b].diverged /\ l.fence = link[b].fence
      BY <1>1, ZenonT(60) DEF Links
    <3> HIDE DEF l
    <3>7. link' \in [Booking -> Links] /\ link'[b] = l BY <1>1, <3>3, <3>5
    <3>8. bk' \in [Booking -> Bookings] /\ bk'[b] = Followed(b, f) BY <1>1, <3>1, FollowedType
    <3>9. TypeOK' BY <1>1, <1>2, <1>3, <2>2, <3>7, <3>8 DEF TypeOK
    <3>10. Others(b) BY <1>1, <1>2, <3>1, <3>3 DEF Others
    <3>11. Follows(b, v, f) BY <2>5, <3>6, <3>7, <3>8 DEF Follows, t
    <3> QED BY <1>2, <1>4, <1>6, <2>1, <3>9, <3>10, <3>11 DEF SourceStep
  <2> QED BY <2>4, <2>5
<1> QED BY <1>5, <1>6

-----------------------------------------------------------------------------
(* Commands. *)

\* A planned command changes no booking.
LEMMA PlanCommandStep ==
  ASSUME TypeOK, NEW b \in Booking, NEW N \in SUBSET Night, PlanCommand(b, N)
  PROVE  TypeOK' /\ OrderStep(b)
<1> DEFINE c == [booking |-> b, nights |-> N, fresh |-> TRUE,
                 receipt |-> "none", told |-> {}, effects |-> 0]
<1>1. UNCHANGED <<mode, bk, op, link, fact, shut>> /\ command' = c BY DEF PlanCommand
<1>2. c \in Commands BY SMTT(30) DEF Commands
<1> HIDE DEF c
<1>3. TypeOK' BY <1>1, <1>2 DEF TypeOK
<1>4. Others(b) /\ SourceSilent(b) /\ Remains(bk[b], bk'[b]) BY <1>1 DEF Others, SourceSilent, Remains
<1> QED BY <1>3, <1>4 DEF OrderStep

\* Nor does a repeated one, or one that is withdrawn.
LEMMA AnswerStep ==
  ASSUME TypeOK, Repeat \/ AbandonCommand
  PROVE  TypeOK' /\ UNCHANGED <<bk, op, link, fact>>
<1>1. UNCHANGED <<mode, bk, op, link, fact, shut>> BY DEF Repeat, AbandonCommand
<1>2. command \in Commands BY DEF TypeOK, Repeat, AbandonCommand
<1>3. command.receipt \in {"none", "applied", "not_applied"} /\ command.told \in SUBSET {"applied", "not_applied"}
  BY <1>2, Zenon DEF Commands
<1>4. CASE Repeat
  <2> DEFINE T == command.told \cup {command.receipt}
  <2>1. T \in SUBSET {"applied", "not_applied"} BY <1>3, <1>4 DEF Repeat
  <2>2. command' = [command EXCEPT !.told = T] BY <1>2, <1>4, Zenon DEF Repeat, Commands
  <2> HIDE DEF T
  <2>3. command' \in Commands BY <1>2, <2>1, <2>2, ZenonT(60) DEF Commands
  <2> QED BY <1>1, <2>3 DEF TypeOK
<1>5. CASE AbandonCommand
  <2> DEFINE T == command.told \cup {"not_applied"}
  <2>1. T \in SUBSET {"applied", "not_applied"} BY <1>3
  <2>2. command' = [command EXCEPT !.fresh = FALSE, !.nights = {}, !.receipt = "not_applied", !.told = T]
    BY <1>2, <1>5, Zenon DEF AbandonCommand, Commands
  <2> HIDE DEF T
  <2>3. command' \in Commands BY <1>2, <2>1, <2>2, ZenonT(60) DEF Commands
  <2> QED BY <1>1, <2>3 DEF TypeOK
<1> QED BY <1>4, <1>5

\* retainBooking and rescheduleBooking.
LEMMA ApplyCommandStep ==
  ASSUME TypeOK, ApplyCommand
  PROVE  TypeOK' /\ command.booking \in Booking /\ OrderStep(command.booking)
<1> DEFINE b == command.booking
           N == command.nights
           st == IF N = {} THEN "retained" ELSE "confirmed"
           a == Deferred(bk[b], N)
           r == [a EXCEPT !.status = st, !.nights = N, !.owned = TRUE]
           l == [link[b] EXCEPT !.at = FALSE]
           e == command.effects + 1
           c == [command EXCEPT !.fresh = FALSE, !.nights = {}, !.receipt = "applied", !.effects = e]
<1>1. command \in Commands BY DEF TypeOK, ApplyCommand
<1>2. b \in Booking /\ N \in SUBSET Night /\ command.effects \in Nat BY <1>1, Zenon DEF Commands
<1>3. /\ bk \in [Booking -> Bookings] /\ bk[b] \in Bookings
      /\ link \in [Booking -> Links] /\ link[b] \in Links
  BY <1>2 DEF TypeOK
<1>4. bk' = [bk EXCEPT ![b] = r] BY DEF ApplyCommand
<1>5. link' = [link EXCEPT ![b] = l] BY <1>3 DEF ApplyCommand
<1>6. command' = c BY <1>1, Zenon DEF ApplyCommand, Commands
<1>7. UNCHANGED <<mode, op, fact, shut>> BY DEF ApplyCommand
<1>8. e \in Nat BY <1>2
<1>9. RetentionMay(b, N) /\ ~HasConflict(N, b, "aside") BY DEF ApplyCommand, CommandFits
<1>10. a \in Bookings /\ SameOrder(bk[b], a) BY <1>2, <1>3, DeferredFrame
<1>11. st \in Status BY DEF Status
<1> HIDE DEF a, e, b, N, st
<1>12. r \in Bookings BY <1>2, <1>10, <1>11, ZenonT(60) DEF Bookings
<1>13. /\ r.status = st /\ r.nights = N /\ r.owned /\ r.hold = a.hold /\ r.money = a.money
  BY <1>10, ZenonT(60) DEF Bookings
<1>14. l \in Links /\ l.ver = link[b].ver /\ l.tomb = link[b].tomb /\ l.fence = link[b].fence
       /\ l.diverged = link[b].diverged
  BY <1>3, ZenonT(60) DEF Links
<1>15. c \in Commands BY <1>1, <1>8, ZenonT(60) DEF Commands
<1> HIDE DEF r, l, c
<1>16. bk' \in [Booking -> Bookings] /\ bk'[b] = r BY <1>2, <1>3, <1>4, <1>12
<1>17. link' \in [Booking -> Links] /\ link'[b] = l BY <1>2, <1>3, <1>5, <1>14
<1>18. TypeOK' BY <1>6, <1>7, <1>15, <1>16, <1>17 DEF TypeOK
<1>19. Others(b) BY <1>2, <1>3, <1>4, <1>5, <1>7 DEF Others
<1>20. SourceSilent(b) BY <1>7, <1>14, <1>17 DEF SourceSilent
<1>21. Free(N, b) BY <1>2, <1>9, NoConflictIsFree
<1>22. CASE N = {}
  <2>1. Retains(bk[b], r) BY <1>9, <1>10, <1>13, <1>22 DEF Retains, SameOrder, RetentionMay, st
  <2> QED BY <1>2, <1>16, <1>18, <1>19, <1>20, <2>1 DEF OrderStep, b
<1>23. CASE N # {}
  <2>1. Reschedules(b, bk[b], r)
    BY <1>9, <1>10, <1>13, <1>21, <1>23 DEF Reschedules, SameOrder, RetentionMay, st
  <2> QED BY <1>2, <1>16, <1>18, <1>19, <1>20, <2>1 DEF OrderStep, b
<1> QED BY <1>22, <1>23

-----------------------------------------------------------------------------
(* Every step is one of these. *)

\* What a step does that changes a booking, its channel operation or its source link.
Steps ==
  \/ \E b \in Booking : OrderStep(b)
  \/ \E b \in Booking, v \in Version, f \in Fact : SourceStep(b, v, f)
  \/ UNCHANGED <<bk, op, link, fact>>

\* What a step does to the command and its answers.
CommandSteps ==
  \/ CommandKept \/ Repeat \/ ApplyCommand \/ AbandonCommand
  \/ \E b \in Booking, N \in SUBSET Night : PlanCommand(b, N)

\* Every handler keeps the types and takes one of the steps above.
LEMMA NextSteps ==
  ASSUME TypeOK, Next
  PROVE  TypeOK' /\ Steps /\ CommandSteps
<1>1. ASSUME NEW b \in Booking, Stays(b) PROVE Handled(b)
  <2>1. PICK N \in Stay : \/ CreateBooking(b, N) \/ CreateHold(b, N)
                          \/ AmendBooking(b, N) \/ AmendByLine(b, N)
    BY <1>1 DEF Stays
  <2> QED BY <2>1, CreateBookingStep, CreateHoldStep, AmendBookingStep, AmendByLineStep
<1>2. ASSUME NEW b \in Booking, CancelBooking(b) \/ CancelByLine(b) PROVE Handled(b)
  BY <1>2, CancelBookingStep, CancelByLineStep
<1>3. ASSUME NEW b \in Booking, Channel(b) PROVE Handled(b)
  BY <1>3, ConfirmManualRoomHandlingStep, RequestManualChannelSyncStep,
     RequestLineChannelActionStep, RecordReadbackStep DEF Channel
<1>4. ASSUME NEW b \in Booking, Money(b) PROVE Handled(b)
  BY <1>4, HoldExpiresStep, ExtendHoldStep, ConvertHoldStep, ReleaseHoldStep, RecordPaymentStep
     DEF Money
<1>5. ASSUME NEW b \in Booking, Commanded(b) PROVE TypeOK' /\ Steps /\ CommandSteps
  <2>1. PICK N \in SUBSET Night : PlanCommand(b, N) BY <1>5 DEF Commanded
  <2>2. TypeOK' /\ OrderStep(b) BY <2>1, PlanCommandStep
  <2> QED BY <2>1, <2>2 DEF Steps, CommandSteps
<1>6. ASSUME NEW b \in Booking, SourceSays(b) PROVE TypeOK' /\ Steps /\ CommandSteps
  <2>1. CASE CorrectName(b) BY <2>1, CorrectNameStep DEF Handled, Steps, CommandSteps
  <2>2. CASE \E v \in Version, f \in Fact : ApplySourceEvent(b, v, f)
    BY <2>2, ApplySourceEventStep DEF Steps, CommandSteps
  <2> QED BY <1>6, <2>1, <2>2 DEF SourceSays
<1>7. ASSUME NEW b \in Booking, Handled(b) PROVE TypeOK' /\ Steps /\ CommandSteps
  BY <1>7 DEF Handled, Steps, CommandSteps
<1>8. CASE Repeat \/ AbandonCommand BY <1>8, AnswerStep DEF Steps, CommandSteps
<1>9. CASE ApplyCommand BY <1>9, ApplyCommandStep DEF Steps, CommandSteps
<1> QED BY <1>1, <1>2, <1>3, <1>4, <1>5, <1>6, <1>7, <1>8, <1>9 DEF Next

-----------------------------------------------------------------------------
(* The inductive invariant. *)

\* Only staff hold, and a hold that runs belongs to an order that is held.
HoldInv ==
  \A b \in Booking :
    /\ bk[b].status = "held" => Source[b] = "os"
    /\ bk[b].hold \in Running => bk[b].status = "held"

\* A link records a version that its source did report; a source's order is cancelled
\* only with a tombstone.
LinkInv ==
  \A b \in Booking :
    /\ link[b].ver > 0 => Source[b] = "external" /\ fact[b][link[b].ver] \in Fact
    /\ Source[b] = "external" /\ bk[b].status = "cancelled" => link[b].tomb # {}

\* A command was applied as often as its receipt says, and all answers repeat the receipt.
AnswerInv ==
  command # NoCommand =>
    \/ command.receipt = "none" /\ command.effects = 0 /\ command.told = {}
    \/ command.receipt = "applied" /\ command.effects = 1 /\ command.told \subseteq {"applied"}
    \/ command.receipt = "not_applied" /\ command.effects = 0 /\ command.told \subseteq {"not_applied"}

\* No room night has two takers.
NoNightTwice == \A b, c \in Booking : b # c => Taken(b) \cap Taken(c) = {}

Inv ==
  /\ TypeOK /\ HoldInv /\ LinkInv /\ AnswerInv /\ NoNightTwice
  /\ OwnMoneyIsReviewed /\ SourceIsAnswered /\ FollowsSource

\* A booking gains only nights that nobody has and no fence of another keeps back.
LEMMA GainsAreFree ==
  ASSUME TypeOK, NEW b \in Booking,
         OrderStep(b) \/ \E v \in Version, f \in Fact : SourceStep(b, v, f)
  PROVE  /\ Free(Taken(b)' \ Taken(b), b)
         /\ \A c \in Booking \ {b} : Taken(c)' = Taken(c) /\ Fences(c)' = Fences(c)
<1>1. Others(b) BY DEF OrderStep, SourceStep
<1>2. \A c \in Booking \ {b} : Taken(c)' = Taken(c) /\ Fences(c)' = Fences(c)
  BY <1>1 DEF Others, Taken, Occupies, Fences, Kept, OpFence, Unsettled
<1>3. CASE OrderStep(b)
  <2> DEFINE r == bk[b]
             s == bk'[b]
  <2>1. CASE \/ Remains(r, s) \/ Cancels(b, r, s) \/ Converts(r, s) \/ Releases(r, s)
             \/ Pays(b, r, s) \/ Retains(r, s)
    <3>1. Taken(b)' \subseteq Taken(b)
      BY <2>1 DEF Remains, Cancels, Converts, Releases, Pays, Retains, Taken, Occupies
    <3> QED BY <1>2, <3>1 DEF Free
  <2>2. CASE Enters(b, r, s) \/ Moves(b, r, s) \/ Reschedules(b, r, s)
    <3>1. Free(s.nights, b) BY <2>2 DEF Enters, Moves, Reschedules
    <3>2. Taken(b)' \subseteq s.nights BY DEF Taken
    <3> QED BY <1>2, <3>1, <3>2 DEF Free
  <2> QED BY <1>3, <2>1, <2>2 DEF OrderStep
<1>4. CASE \E v \in Version, f \in Fact : SourceStep(b, v, f)
  <2>1. PICK v \in Version, f \in Fact : SourceStep(b, v, f) BY <1>4
  <2>2. bk[b] \in Bookings BY DEF TypeOK
  <2>3. CASE bk' = bk
    <3>1. Taken(b)' = Taken(b) BY <2>3 DEF Taken, Occupies
    <3> QED BY <1>2, <3>1 DEF Free
  <2>4. CASE Follows(b, v, f)
    <3>1. CASE f.kind = "upsert"
      <4>1. ~HasConflict(f.nights, b, "none") BY <2>4, <3>1 DEF Follows, Obstacle
      <4>2. f.nights \in SUBSET Night
        <5>1. f.nights \in Stay BY Zenon DEF Fact
        <5> QED BY <5>1 DEF Stay
      <4>3. Free(f.nights, b) BY <4>1, <4>2, NoConflictIsFree
      <4>4. bk'[b].nights = f.nights BY <2>2, <2>4, <3>1, Zenon DEF Follows, Followed, Bookings
      <4>5. Taken(b)' \subseteq f.nights BY <4>4 DEF Taken
      <4> QED BY <1>2, <4>3, <4>5 DEF Free
    <3>2. CASE f.kind # "upsert"
      <4>1. \/ bk'[b] = bk[b]
            \/ bk'[b].status = "cancelled"
        BY <2>2, <2>4, <3>2, Zenon DEF Follows, Followed, Bookings
      <4>2. Taken(b)' \subseteq Taken(b) BY <4>1 DEF Taken, Occupies
      <4> QED BY <1>2, <4>2 DEF Free
    <3> QED BY <3>1, <3>2
  <2> QED BY <2>1, <2>3, <2>4 DEF SourceStep, Reviews
<1> QED BY <1>2, <1>3, <1>4

\* The bookkeeping of a command and its answers.
LEMMA AnswerStepInv ==
  ASSUME TypeOK, AnswerInv, CommandSteps
  PROVE  AnswerInv'
<1>1. CASE CommandKept
  <2>1. CASE command' = command BY <2>1 DEF AnswerInv
  <2>2. CASE command # NoCommand /\ command' = [command EXCEPT !.fresh = FALSE]
    <3>1. command \in Commands BY <2>2 DEF TypeOK
    <3>2. /\ command'.receipt = command.receipt /\ command'.effects = command.effects
          /\ command'.told = command.told
      BY <2>2, <3>1, ZenonT(60) DEF Commands
    <3> QED BY <2>2, <3>2 DEF AnswerInv
  <2> QED BY <1>1, <2>1, <2>2 DEF CommandKept
<1>2. CASE Repeat
  <2>1. command \in Commands /\ command # NoCommand /\ command.receipt # "none"
    BY <1>2 DEF TypeOK, Repeat
  <2>2. /\ command'.receipt = command.receipt /\ command'.effects = command.effects
        /\ command'.told = command.told \cup {command.receipt}
    BY <1>2, <2>1, ZenonT(60) DEF Repeat, Commands
  <2> QED BY <2>1, <2>2 DEF AnswerInv
<1>3. CASE ApplyCommand
  <2>1. command \in Commands /\ command # NoCommand /\ command.receipt = "none"
    BY <1>3 DEF TypeOK, ApplyCommand
  <2>2. /\ command'.receipt = "applied" /\ command'.effects = command.effects + 1
        /\ command'.told = command.told
    BY <1>3, <2>1, ZenonT(60) DEF ApplyCommand, Commands
  <2> QED BY <2>1, <2>2 DEF AnswerInv
<1>4. CASE AbandonCommand
  <2>1. command \in Commands /\ command # NoCommand /\ command.receipt = "none"
    BY <1>4 DEF TypeOK, AbandonCommand
  <2>2. /\ command'.receipt = "not_applied" /\ command'.effects = command.effects
        /\ command'.told = command.told \cup {"not_applied"}
    BY <1>4, <2>1, ZenonT(60) DEF AbandonCommand, Commands
  <2> QED BY <2>1, <2>2 DEF AnswerInv
<1>5. CASE \E b \in Booking, N \in SUBSET Night : PlanCommand(b, N)
  BY <1>5 DEF PlanCommand, AnswerInv
<1> QED BY <1>1, <1>2, <1>3, <1>4, <1>5 DEF CommandSteps

\* A step of an order keeps holds, money and the link to the source in order.
LEMMA OrderStepInv ==
  ASSUME Inv, TypeOK', NEW b \in Booking, OrderStep(b)
  PROVE  HoldInv' /\ LinkInv' /\ OwnMoneyIsReviewed' /\ SourceIsAnswered' /\ FollowsSource'
<1> DEFINE r == bk[b]
           s == bk'[b]
<1>1. Others(b) /\ SourceSilent(b) BY DEF OrderStep
<1>2. /\ bk[b].money \in 0..MaxMoney /\ bk'[b].money \in 0..MaxMoney
      /\ link[b].ver \in 0..MaxFact /\ link[b].diverged \in BOOLEAN /\ link'[b].diverged \in BOOLEAN
      /\ bk[b].owned \in BOOLEAN /\ bk'[b].owned \in BOOLEAN
  <2>1. bk[b] \in Bookings /\ bk'[b] \in Bookings /\ link[b] \in Links /\ link'[b] \in Links
    BY DEF Inv, TypeOK
  <2> QED BY <2>1, Zenon DEF Bookings, Links
<1>3. HoldInv'
  <2>1. /\ s.status = "held" => Source[b] = "os"
        /\ s.hold \in Running => s.status = "held"
    BY DEF Inv, HoldInv, OrderStep, Remains, Enters, Moves, Cancels, Converts, Releases, Pays,
           Retains, Reschedules, Running
  <2> QED BY <1>1, <2>1 DEF Inv, HoldInv, Others
<1>4. LinkInv'
  <2>1. Source[b] = "external" /\ s.status = "cancelled" => link[b].tomb # {}
    BY DEF Inv, LinkInv, HoldInv, OrderStep, Remains, Enters, Moves, Cancels, Converts, Releases, Pays,
           Retains, Reschedules, Direct
  <2> QED BY <1>1, <2>1 DEF Inv, LinkInv, Others, SourceSilent
<1>5. OwnMoneyIsReviewed'
  <2>1. Source[b] = "os" /\ s.status = "cancelled" /\ s.money > 0 => s.hold \in {"late_payment", "converted"}
    <3>1. /\ Source[b] = "os" /\ r.status = "cancelled" /\ r.money > 0
             => r.hold \in {"late_payment", "converted"}
          /\ r.hold \in Running => r.status = "held"
      BY DEF Inv, OwnMoneyIsReviewed, HoldInv
    <3>2. r.money \in Int /\ s.money \in Int BY <1>2, SourceAssumption
    <3>3. r.hold \in Hold
      <4>1. bk[b] \in Bookings BY DEF Inv, TypeOK
      <4> QED BY <4>1, Zenon DEF Bookings
    <3>4. CASE Remains(r, s) BY <3>1, <3>4 DEF Remains, Running
    <3>5. CASE Cancels(b, r, s) \/ Releases(r, s) BY <3>2, <3>5 DEF Cancels, Releases
    <3>6. CASE Pays(b, r, s)
      <4>1. CASE r.hold \in {"released", "late_payment"} BY <3>6, <4>1 DEF Pays
      <4>2. CASE r.hold = "converted" BY <3>6, <4>2 DEF Pays
      <4>3. CASE r.hold \in Running BY <3>1, <3>6, <4>3 DEF Pays
      <4>4. CASE r.hold = "none"
        <5>1. s.status = r.status BY <3>6 DEF Pays
        <5>2. Source[b] = "os" /\ r.status = "cancelled" => ~(s.money > r.money)
          BY <3>6, <4>4 DEF Pays, MayReceive
        <5> QED BY <3>1, <3>2, <4>4, <5>1, <5>2
      <4> QED BY <3>3, <4>1, <4>2, <4>3, <4>4 DEF Hold, Running
    <3>7. CASE Enters(b, r, s) \/ Moves(b, r, s) \/ Converts(r, s) \/ Retains(r, s) \/ Reschedules(b, r, s)
      BY <3>7 DEF Enters, Moves, Converts, Retains, Reschedules
    <3> QED BY <3>4, <3>5, <3>6, <3>7 DEF OrderStep
  <2> QED BY <1>1, <2>1 DEF Inv, OwnMoneyIsReviewed, Others
<1>6. SourceIsAnswered'
  BY <1>1 DEF Inv, SourceIsAnswered, Others, SourceSilent
<1>7. FollowsSource'
  <2> DEFINE f == fact[b][link[b].ver]
             As(x) == IF f.kind = "upsert" THEN x.status = "confirmed" /\ x.nights = f.nights
                      ELSE \/ x.status = "absent"
                           \/ x.status = "cancelled" /\ x.nights = f.nights
  <2>1. ASSUME link[b].ver > 0, ~link'[b].diverged, ~s.owned
        PROVE  As(s)
    <3>1. ~link[b].diverged BY <1>1, <1>2, <2>1 DEF SourceSilent
    <3>2. ~r.owned BY <2>1 DEF OrderStep, Remains, Enters, Moves, Cancels, Converts, Releases, Pays,
                            Retains, Reschedules, Direct, Inv, LinkInv
    <3>3. As(r) BY <2>1, <3>1, <3>2 DEF Inv, FollowsSource
    <3>4. ~Direct(b) BY <2>1 DEF Inv, LinkInv, Direct
    <3> HIDE DEF f
    <3>5. s.status = r.status /\ s.nights = r.nights
      BY <2>1, <3>3, <3>4 DEF OrderStep, Remains, Enters, Moves, Cancels, Converts, Releases, Pays,
                            Retains, Reschedules
    <3> QED BY <3>3, <3>5
  <2>2. fact' = fact /\ link'[b].ver = link[b].ver BY <1>1 DEF SourceSilent
  <2>3. ASSUME link'[b].ver > 0, ~link'[b].diverged, ~s.owned
        PROVE  LET g == fact'[b][link'[b].ver] IN
               IF g.kind = "upsert" THEN s.status = "confirmed" /\ s.nights = g.nights
               ELSE \/ s.status = "absent"
                    \/ s.status = "cancelled" /\ s.nights = g.nights
    BY <2>1, <2>2, <2>3
  <2> HIDE DEF f, As
  <2>4. \A c \in Booking \ {b} : bk'[c] = bk[c] /\ link'[c] = link[c] BY <1>1 DEF Others
  <2>5. FollowsSource BY DEF Inv
  <2>6. SUFFICES ASSUME NEW c \in Booking, link'[c].ver > 0, ~link'[c].diverged, ~bk'[c].owned
                 PROVE  LET g == fact'[c][link'[c].ver] IN
                        IF g.kind = "upsert" THEN bk'[c].status = "confirmed" /\ bk'[c].nights = g.nights
                        ELSE \/ bk'[c].status = "absent"
                             \/ bk'[c].status = "cancelled" /\ bk'[c].nights = g.nights
    BY Zenon DEF FollowsSource
  <2>7. CASE c = b BY <2>3, <2>6, <2>7
  <2>8. CASE c # b BY <2>2, <2>4, <2>5, <2>6, <2>8 DEF FollowsSource
  <2> QED BY <2>7, <2>8
<1> QED BY <1>3, <1>4, <1>5, <1>6, <1>7

\* A source event keeps the link to its order, and the order to its source.
LEMMA SourceStepInv ==
  ASSUME Inv, TypeOK', NEW b \in Booking, NEW v \in Version, NEW f \in Fact, SourceStep(b, v, f)
  PROVE  HoldInv' /\ LinkInv' /\ OwnMoneyIsReviewed' /\ SourceIsAnswered' /\ FollowsSource'
<1>1. Others(b) /\ Source[b] = "external" /\ fact[b][v] \in {NoFact, f} BY DEF SourceStep
<1>2. CASE UNCHANGED <<bk, link, fact>>
  BY <1>2 DEF Inv, HoldInv, LinkInv, OwnMoneyIsReviewed, SourceIsAnswered, FollowsSource
<1>3. CASE fact' = [fact EXCEPT ![b][v] = f] /\ (Reviews(b, v, f) \/ Follows(b, v, f))
  <2>1. /\ bk[b] \in Bookings /\ link[b] \in Links /\ link'[b] \in Links
        /\ fact \in [Booking -> [Version -> Fact \cup {NoFact}]]
    BY DEF Inv, TypeOK
  <2>2. /\ link[b].ver \in 0..MaxFact /\ link[b].diverged \in BOOLEAN /\ link'[b].diverged \in BOOLEAN
    BY <2>1, Zenon DEF Links
  <2>3. /\ fact'[b][v] = f
        /\ \A w \in Version \ {v} : fact'[b][w] = fact[b][w]
        /\ \A c \in Booking \ {b} : fact'[c] = fact[c]
    BY <1>3, <2>1
  <2>4. \A w \in Version : fact[b][w] # NoFact => fact'[b][w] = fact[b][w]
    BY <1>1, <2>3
  <2>5. NoFact \notin Fact BY SourceAssumption
  <2>6. Followed(b, f) \in {bk[b], [bk[b] EXCEPT !.status = "confirmed", !.nights = f.nights],
                            [bk[b] EXCEPT !.status = "cancelled"]}
    BY DEF Followed
  <2>7. /\ Followed(b, f).hold = bk[b].hold
        /\ Followed(b, f).status \in {bk[b].status, "confirmed", "cancelled"}
    BY <2>1, <2>6, ZenonT(60) DEF Bookings
  <2>8. f.kind \in {"upsert", "cancel"} /\ f.nights # {}
    <3>1. f.kind \in {"upsert", "cancel"} /\ f.nights \in Stay BY Zenon DEF Fact
    <3> QED BY <3>1 DEF Stay
  <2>9. v \in Nat /\ v > 0 BY DEF Version
  <2>10. bk[b].status # "held" /\ bk[b].hold \notin Running
    BY <1>1 DEF Inv, HoldInv
  <2>11. HoldInv'
    <3>1. bk'[b].status # "held" /\ bk'[b].hold \notin Running
      BY <1>3, <2>7, <2>10 DEF Reviews, Follows
    <3> QED BY <1>1, <3>1 DEF Inv, HoldInv, Others
  <2>12. OwnMoneyIsReviewed' BY <1>1 DEF Inv, OwnMoneyIsReviewed, Others
  <2>13. CASE Reviews(b, v, f)
    <3>1. bk' = bk /\ link'[b].ver = link[b].ver /\ link'[b].tomb = link[b].tomb BY <2>13 DEF Reviews
    <3>2. LinkInv'
      <4>1. link[b].ver > 0 => fact'[b][link[b].ver] \in Fact
        <5>1. link[b].ver > 0 => link[b].ver \in Version BY <2>2, SourceAssumption DEF Version
        <5> QED BY <2>4, <2>5, <5>1 DEF Inv, LinkInv
      <4> QED BY <1>1, <2>3, <3>1, <4>1 DEF Inv, LinkInv, Others
    <3>3. SourceIsAnswered'
      <4>1. \A w \in Version : fact'[b][w] # NoFact /\ w > link'[b].ver
                                => fact'[b][w].nights \subseteq link'[b].fence
        <5>1. link[b].fence \cup f.nights \subseteq link'[b].fence BY <2>13 DEF Reviews
        <5>2. fact'[b][v].nights \subseteq link'[b].fence BY <2>3, <5>1
        <5>3. ASSUME NEW w \in Version, w # v, fact'[b][w] # NoFact, w > link'[b].ver
              PROVE  fact'[b][w].nights \subseteq link'[b].fence
          <6>1. fact[b][w] # NoFact /\ w > link[b].ver /\ fact'[b][w] = fact[b][w]
            BY <2>3, <3>1, <5>3
          <6>2. fact[b][w].nights \subseteq link[b].fence BY <6>1 DEF Inv, SourceIsAnswered
          <6> QED BY <5>1, <6>1, <6>2
        <5> QED BY <5>2, <5>3
      <4> QED BY <1>1, <2>3, <4>1 DEF Inv, SourceIsAnswered, Others
    <3>4. FollowsSource'
      <4>1. link'[b].ver > 0 => link'[b].diverged BY <2>13 DEF Reviews
      <4> QED BY <1>1, <2>3, <4>1 DEF Inv, FollowsSource, Others
    <3> QED BY <2>11, <2>12, <3>2, <3>3, <3>4
  <2>14. CASE Follows(b, v, f)
    <3>1. /\ ~Obstacle(b, v, f) /\ bk'[b] = Followed(b, f) /\ link'[b].ver = v
          /\ link'[b].diverged = link[b].diverged /\ link'[b].fence = link[b].fence
          /\ link'[b].tomb = IF f.kind = "cancel" THEN f.nights ELSE link[b].tomb
      BY <2>14 DEF Follows
    <3>2. LinkInv'
      <4>1. bk'[b].status = "cancelled" => link'[b].tomb # {}
        <5>1. CASE f.kind = "cancel" BY <2>8, <3>1, <5>1
        <5>2. CASE f.kind = "upsert"
          <6>1. bk'[b].status = "confirmed" BY <2>1, <3>1, <5>2, Zenon DEF Followed, Bookings
          <6> QED BY <6>1
        <5> QED BY <2>8, <5>1, <5>2
      <4>2. fact'[b][link'[b].ver] \in Fact BY <2>3, <3>1
      <4> QED BY <1>1, <2>3, <4>1, <4>2 DEF Inv, LinkInv, Others
    <3>3. SourceIsAnswered'
      <4>1. link[b].ver = v - 1 BY <3>1 DEF Obstacle
      <4>2. ASSUME NEW w \in Version, fact'[b][w] # NoFact, w > link'[b].ver
            PROVE  fact'[b][w].nights \subseteq link'[b].fence
        <5>1. w # v /\ w > link[b].ver BY <2>9, <3>1, <4>1, <4>2 DEF Version
        <5>2. fact'[b][w] = fact[b][w] BY <2>3, <5>1
        <5>3. fact[b][w].nights \subseteq link[b].fence BY <4>2, <5>1, <5>2 DEF Inv, SourceIsAnswered
        <5> QED BY <3>1, <5>2, <5>3
      <4> QED BY <1>1, <2>3, <4>2 DEF Inv, SourceIsAnswered, Others
    <3>4. FollowsSource'
      <4>1. CASE f.kind = "upsert"
        <5>1. bk'[b].status = "confirmed" /\ bk'[b].nights = f.nights
          BY <2>1, <3>1, <4>1, Zenon DEF Followed, Bookings
        <5> QED BY <1>1, <2>3, <3>1, <4>1, <5>1 DEF Inv, FollowsSource, Others
      <4>2. CASE f.kind = "cancel"
        <5>1. bk[b].status # "absent" => bk[b].nights = f.nights BY <3>1, <4>2 DEF Obstacle
        <5>2. \/ bk'[b].status = "absent"
              \/ bk'[b].status = "cancelled" /\ bk'[b].nights = f.nights
          BY <2>1, <3>1, <4>2, <5>1, ZenonT(60) DEF Followed, Bookings
        <5> QED BY <1>1, <2>3, <3>1, <4>2, <5>2 DEF Inv, FollowsSource, Others
      <4> QED BY <2>8, <4>1, <4>2
    <3> QED BY <2>11, <2>12, <3>2, <3>3, <3>4
  <2> QED BY <1>3, <2>13, <2>14
<1> QED BY <1>2, <1>3 DEF SourceStep

\* A property starts with all of it.
LEMMA InitInv == Init => Inv
<1> SUFFICES ASSUME Init PROVE Inv OBVIOUS
<1>1. PICK I \in SUBSET {b \in Booking : mode = "none" /\ Source[b] = "external"}, at \in [Booking -> Stay] :
       /\ \A b, c \in I : b # c => at[b] \cap at[c] = {}
       /\ bk = [b \in Booking |-> IF b \in I THEN Ordered(at[b]) ELSE Absent]
       /\ link = [b \in Booking |-> IF b \in I THEN ImportedLink ELSE NoLink]
       /\ fact = [b \in Booking |-> [v \in Version |->
                    IF b \in I /\ v = 1 THEN [kind |-> "upsert", nights |-> at[b]] ELSE NoFact]]
  BY DEF Init
<1>2. \A b \in Booking : at[b] \in SUBSET Night /\ at[b] # {} BY DEF Stay
<1>3. /\ 0 \in 0..MaxFact /\ 1 \in 0..MaxFact /\ 0 \in 0..MaxMoney /\ 1 \in Version
  BY SourceAssumption DEF Version
<1>4. NoLink \in Links /\ ImportedLink \in Links
  <2>1. NoLink \in Links BY <1>3, SMTT(30) DEF NoLink, Links
  <2>2. ImportedLink \in Links BY <1>3, <2>1, ZenonT(60) DEF ImportedLink, Links
  <2> QED BY <2>1, <2>2
<1>5. /\ NoLink.ver = 0 /\ ImportedLink.ver = 1
      /\ NoLink.diverged = FALSE /\ ImportedLink.diverged = FALSE
  <2>1. NoLink.ver = 0 /\ NoLink.diverged = FALSE BY DEF NoLink
  <2>2. ImportedLink.ver = 1 /\ ImportedLink.diverged = NoLink.diverged
    BY <1>4, ZenonT(60) DEF ImportedLink, Links
  <2> QED BY <2>1, <2>2
<1>6. Absent \in Bookings /\ \A b \in Booking : Ordered(at[b]) \in Bookings BY <1>2, OrderedType
<1>7. /\ Absent.status = "absent" /\ Absent.hold = "none" BY DEF Absent
<1>8. \A b \in Booking : /\ Ordered(at[b]).status = "confirmed" /\ Ordered(at[b]).hold = "none"
                         /\ Ordered(at[b]).nights = at[b]
  BY <1>2, OrderedType
<1>9. \A b \in Booking : [kind |-> "upsert", nights |-> at[b]] \in Fact BY SMTT(30) DEF Fact
<1>10. NoOperation \in Operations BY SMTT(30) DEF NoOperation, Operations
<1>11. TypeOK
  <2>1. mode \in {"none", "owlnest"} /\ command = NoCommand /\ shut = {} BY DEF Init
  <2>2. op \in [Booking -> Operations] BY <1>10 DEF Init
  <2>3. bk \in [Booking -> Bookings] BY <1>1, <1>6
  <2>4. link \in [Booking -> Links] BY <1>1, <1>4
  <2>5. fact \in [Booking -> [Version -> Fact \cup {NoFact}]] BY <1>1, <1>9
  <2> QED BY <2>1, <2>2, <2>3, <2>4, <2>5 DEF TypeOK
<1>12. \A b \in Booking : \/ b \in I /\ bk[b] = Ordered(at[b]) /\ link[b] = ImportedLink
                          \/ b \notin I /\ bk[b] = Absent /\ link[b] = NoLink
  <2>1. /\ bk = [b \in Booking |-> IF b \in I THEN Ordered(at[b]) ELSE Absent]
        /\ link = [b \in Booking |-> IF b \in I THEN ImportedLink ELSE NoLink]
    BY <1>1
  <2>2. \A b \in Booking : /\ bk[b] = IF b \in I THEN Ordered(at[b]) ELSE Absent
                           /\ link[b] = IF b \in I THEN ImportedLink ELSE NoLink
    BY <2>1, Zenon
  <2> QED BY <2>2, Zenon
<1>13. HoldInv BY <1>7, <1>8, <1>12 DEF HoldInv, Running
<1>14. \A b \in I : fact[b][1] = [kind |-> "upsert", nights |-> at[b]] BY <1>1, <1>3
<1>21. \A b \in Booking : b \notin I => link[b].ver = 0 /\ bk[b].status = "absent" BY <1>5, <1>7, <1>12
<1>22. \A b \in I : link[b].ver = 1 /\ bk[b].status = "confirmed" /\ bk[b].nights = at[b]
  BY <1>5, <1>8, <1>12
<1>15. LinkInv
  <2> SUFFICES ASSUME NEW b \in Booking
               PROVE  /\ link[b].ver > 0 => Source[b] = "external" /\ fact[b][link[b].ver] \in Fact
                      /\ bk[b].status # "cancelled"
    BY DEF LinkInv
  <2>1. CASE b \in I
    <3>1. link[b].ver = 1 /\ bk[b].status = "confirmed" BY <1>22, <2>1
    <3>2. fact[b][1] \in Fact BY <1>9, <1>14, <2>1
    <3> QED BY <2>1, <3>1, <3>2
  <2>2. CASE b \notin I BY <1>21, <2>2
  <2> QED BY <2>1, <2>2
<1>16. AnswerInv BY DEF Init, AnswerInv
<1>17. NoNightTwice
  <2>1. \A b \in Booking : Taken(b) = IF b \in I THEN at[b] ELSE {}
    BY <1>7, <1>8, <1>12 DEF Taken, Occupies
  <2> QED BY <1>1, <2>1 DEF NoNightTwice
<1>18. OwnMoneyIsReviewed BY <1>7, <1>8, <1>12 DEF OwnMoneyIsReviewed
<1>19. SourceIsAnswered
  <2>1. \A b \in Booking, v \in Version : fact[b][v] # NoFact => b \in I /\ v = 1 BY <1>1
  <2> QED BY <1>5, <1>12, <2>1 DEF SourceIsAnswered
<1>20. FollowsSource
  <2> SUFFICES ASSUME NEW b \in Booking, link[b].ver > 0
               PROVE  LET f == fact[b][link[b].ver] IN
                      f.kind = "upsert" /\ bk[b].status = "confirmed" /\ bk[b].nights = f.nights
    BY DEF FollowsSource
  <2>1. b \in I BY <1>21
  <2>2. link[b].ver = 1 /\ bk[b].status = "confirmed" /\ bk[b].nights = at[b] BY <1>22, <2>1
  <2>3. fact[b][1] = [kind |-> "upsert", nights |-> at[b]] BY <1>14, <2>1
  <2>4. fact[b][1].kind = "upsert" /\ fact[b][1].nights = at[b] BY <2>3
  <2> QED BY <2>2, <2>4
<1> QED BY <1>11, <1>13, <1>15, <1>16, <1>17, <1>18, <1>19, <1>20 DEF Inv

\* Every step keeps it.
LEMMA NextInv == Inv /\ [Next]_vars => Inv'
<1> SUFFICES ASSUME Inv, [Next]_vars PROVE Inv' OBVIOUS
<1>1. CASE UNCHANGED vars
  <2>1. UNCHANGED <<mode, bk, op, link, fact, command, shut>> BY <1>1 DEF vars
  <2>2. TypeOK' /\ HoldInv' /\ LinkInv' /\ AnswerInv'
    BY <2>1 DEF Inv, TypeOK, HoldInv, LinkInv, AnswerInv
  <2>3. NoNightTwice' /\ OwnMoneyIsReviewed' /\ SourceIsAnswered' /\ FollowsSource'
    BY <2>1 DEF Inv, NoNightTwice, Taken, Occupies, OwnMoneyIsReviewed, SourceIsAnswered, FollowsSource
  <2> QED BY <2>2, <2>3 DEF Inv
<1>2. CASE Next
  <2>1. TypeOK BY DEF Inv
  <2>2. TypeOK' /\ Steps /\ CommandSteps BY <1>2, <2>1, NextSteps
  <2>3. AnswerInv' BY <2>1, <2>2, AnswerStepInv DEF Inv
  <2>4. CASE \E b \in Booking : OrderStep(b)
    <3>1. PICK b \in Booking : OrderStep(b) BY <2>4
    <3>2. /\ Free(Taken(b)' \ Taken(b), b)
          /\ \A c \in Booking \ {b} : Taken(c)' = Taken(c) /\ Fences(c)' = Fences(c)
      BY <2>1, <3>1, GainsAreFree
    <3>3. NoNightTwice' BY <3>2 DEF Inv, NoNightTwice, Free
    <3>4. HoldInv' /\ LinkInv' /\ OwnMoneyIsReviewed' /\ SourceIsAnswered' /\ FollowsSource'
      BY <2>2, <3>1, OrderStepInv
    <3> QED BY <2>2, <2>3, <3>3, <3>4 DEF Inv
  <2>5. CASE \E b \in Booking, v \in Version, f \in Fact : SourceStep(b, v, f)
    <3>1. PICK b \in Booking, v \in Version, f \in Fact : SourceStep(b, v, f) BY <2>5
    <3>2. /\ Free(Taken(b)' \ Taken(b), b)
          /\ \A c \in Booking \ {b} : Taken(c)' = Taken(c) /\ Fences(c)' = Fences(c)
      BY <2>1, <3>1, GainsAreFree
    <3>3. NoNightTwice' BY <3>2 DEF Inv, NoNightTwice, Free
    <3>4. HoldInv' /\ LinkInv' /\ OwnMoneyIsReviewed' /\ SourceIsAnswered' /\ FollowsSource'
      BY <2>2, <3>1, SourceStepInv
    <3> QED BY <2>2, <2>3, <3>3, <3>4 DEF Inv
  <2>6. CASE UNCHANGED <<bk, op, link, fact>>
    <3>1. HoldInv' /\ LinkInv' /\ NoNightTwice' BY <2>6 DEF Inv, HoldInv, LinkInv, NoNightTwice, Taken, Occupies
    <3>2. OwnMoneyIsReviewed' /\ SourceIsAnswered' /\ FollowsSource'
      BY <2>6 DEF Inv, OwnMoneyIsReviewed, SourceIsAnswered, FollowsSource
    <3> QED BY <2>2, <2>3, <3>1, <3>2 DEF Inv
  <2> QED BY <2>2, <2>4, <2>5, <2>6 DEF Steps
<1> QED BY <1>1, <1>2

-----------------------------------------------------------------------------
(* Theorems. *)

\* The inductive invariant holds throughout, for any bookings, nights and sources.
THEOREM InvAlways == Spec => []Inv
  BY InitInv, NextInv, PTL DEF Spec

\* Every variable of the authority keeps its type.
THEOREM TypeCorrect == Spec => []TypeOK
<1>1. Inv => TypeOK BY DEF Inv
<1> QED BY <1>1, InvAlways, PTL

\* However staff, LINE, agencies, holds and retained orders compete for a room night, it
\* has one taker.
THEOREM NoNightTwiceAlways == Spec => []NoNightTwice
<1>1. Inv => NoNightTwice BY DEF Inv
<1> QED BY <1>1, InvAlways, PTL

\* An order of staff is never cancelled over money it received, however late that came.
THEOREM OwnMoneyIsReviewedAlways == Spec => []OwnMoneyIsReviewed
<1>1. Inv => OwnMoneyIsReviewed BY DEF Inv
<1> QED BY <1>1, InvAlways, PTL

\* Reports of a source, late, twice or out of order, are applied or fenced for review.
THEOREM SourceIsAnsweredAlways == Spec => []SourceIsAnswered
<1>1. Inv => SourceIsAnswered BY DEF Inv
<1> QED BY <1>1, InvAlways, PTL

\* Without an open review, an order that nobody retained is as its source last had it.
THEOREM FollowsSourceAlways == Spec => []FollowsSource
<1>1. Inv => FollowsSource BY DEF Inv
<1> QED BY <1>1, InvAlways, PTL

\* A command has one outcome and one answer, however its delivery, its repetition and its
\* withdrawal cross.
THEOREM OneAnswerPerCommandAlways == Spec => []OneAnswerPerCommand
<1>1. Inv => OneAnswerPerCommand
  <2> SUFFICES ASSUME Inv, command # NoCommand
               PROVE  /\ command.effects <= 1
                      /\ Cardinality(command.told) <= 1
                      /\ "applied" \in command.told => command.effects = 1
                      /\ "not_applied" \in command.told => command.effects = 0
    BY DEF OneAnswerPerCommand
  <2>1. AnswerInv BY DEF Inv
  <2>2. \A x : Cardinality({x}) = 1 BY FS_Singleton
  <2>3. Cardinality({}) = 0 BY FS_EmptySet
  <2>4. command.told = {} \/ \E x : command.told = {x} BY <2>1, Zenon DEF AnswerInv
  <2>5. Cardinality(command.told) \in {0, 1}
    <3>1. CASE command.told = {} BY <2>3, <3>1
    <3>2. CASE \E x : command.told = {x}
      <4>1. PICK x : command.told = {x} BY <3>2
      <4> QED BY <2>2, <4>1, Zenon
    <3> QED BY <2>4, <3>1, <3>2
  <2>6. command.effects \in {0, 1} BY <2>1 DEF AnswerInv
  <2>7. "applied" \in command.told => command.effects = 1 BY <2>1 DEF AnswerInv
  <2>8. "not_applied" \in command.told => command.effects = 0 BY <2>1 DEF AnswerInv
  <2> QED BY <2>5, <2>6, <2>7, <2>8
<1> QED BY <1>1, InvAlways, PTL

\* A cancelled order takes no night again.
THEOREM CancelledStays == Spec => CancelledStaysCancelled
<1>1. Inv /\ [Next]_vars => [\A b \in Booking : bk[b].status = "cancelled" => bk'[b].status = "cancelled"]_bk
  <2> SUFFICES ASSUME Inv, [Next]_vars, bk' # bk, NEW b \in Booking, bk[b].status = "cancelled"
               PROVE  bk'[b].status = "cancelled"
    OBVIOUS
  <2>1. Next BY DEF vars
  <2>2. Steps BY <2>1, NextSteps DEF Inv
  <2>3. ASSUME NEW c \in Booking, OrderStep(c) PROVE bk'[b].status = "cancelled"
    <3>1. CASE b # c BY <2>3, <3>1 DEF OrderStep, Others
    <3>2. CASE b = c
      BY <2>3, <3>2 DEF OrderStep, Remains, Enters, Moves, Cancels, Converts, Releases, Pays, Retains, Reschedules
    <3> QED BY <3>1, <3>2
  <2>4. ASSUME NEW c \in Booking, NEW v \in Version, NEW f \in Fact, SourceStep(c, v, f)
        PROVE  bk'[b].status = "cancelled"
    <3>1. CASE b # c BY <2>4, <3>1 DEF SourceStep, Others
    <3>2. CASE b = c
      <4>1. link[b].tomb # {} BY <2>4, <3>2 DEF SourceStep, Inv, LinkInv
      <4>2. Follows(b, v, f) BY <2>4, <3>2 DEF SourceStep, Reviews
      <4>3. f.kind # "upsert" BY <4>1, <4>2 DEF Follows, Obstacle
      <4>4. bk'[b] = [bk[b] EXCEPT !.status = "cancelled"] BY <4>2, <4>3 DEF Follows, Followed
      <4>5. bk[b] \in Bookings BY DEF Inv, TypeOK
      <4> QED BY <4>4, <4>5, Zenon DEF Bookings
    <3> QED BY <3>1, <3>2
  <2> QED BY <2>2, <2>3, <2>4 DEF Steps
<1> QED BY <1>1, InvAlways, PTL DEF Spec, CancelledStaysCancelled

\* The authority implements RoomNights: every handler is a change of one booking, and gives
\* it no night that another has or that a fence of another keeps back.
THEOREM Refinement == Spec => ImplementsRoomNights
<1> DEFINE taken == [b \in Booking |-> Taken(b)]
           kept == [b \in Booking |-> Fences(b)]
<1>1. TypeOK => taken \in [Booking -> SUBSET Night] /\ kept \in [Booking -> SUBSET Night]
  <2> SUFFICES ASSUME TypeOK, NEW b \in Booking
               PROVE  Taken(b) \in SUBSET Night /\ Fences(b) \in SUBSET Night
    OBVIOUS
  <2>1. bk[b] \in Bookings /\ op[b] \in Operations /\ link[b] \in Links BY DEF TypeOK
  <2>2. /\ bk[b].nights \in SUBSET Night /\ bk[b].aside \in SUBSET Night
        /\ op[b].close \in SUBSET Night /\ op[b].open \in SUBSET Night
        /\ link[b].fence \in SUBSET Night
    BY <2>1, Zenon DEF Bookings, Operations, Links
  <2> QED BY <2>2 DEF Taken, Fences, Kept, OpFence
<1>4. TypeOK' => taken' \in [Booking -> SUBSET Night] /\ kept' \in [Booking -> SUBSET Night]
  <2> SUFFICES ASSUME TypeOK', NEW b \in Booking
               PROVE  Taken(b)' \in SUBSET Night /\ Fences(b)' \in SUBSET Night
    OBVIOUS
  <2>1. bk'[b] \in Bookings /\ op'[b] \in Operations /\ link'[b] \in Links BY DEF TypeOK
  <2>2. /\ bk'[b].nights \in SUBSET Night /\ bk'[b].aside \in SUBSET Night
        /\ op'[b].close \in SUBSET Night /\ op'[b].open \in SUBSET Night
        /\ link'[b].fence \in SUBSET Night
    BY <2>1, Zenon DEF Bookings, Operations, Links
  <2> QED BY <2>2 DEF Taken, Fences, Kept, OpFence
<1>2. Init => Promise!Init
  <2> SUFFICES ASSUME Init PROVE Promise!Init OBVIOUS
  <2>1. Inv BY InitInv
  <2>2. TypeOK /\ NoNightTwice BY <2>1 DEF Inv
  <2>3. ASSUME NEW b \in Booking PROVE Fences(b) = {}
    <3>1. op[b] = NoOperation BY DEF Init
    <3>2. bk[b].aside = {} /\ link[b].fence = {}
      <4>1. Absent \in Bookings /\ Absent.aside = {} BY OrderedType DEF Absent
      <4>2. \A N : [Absent EXCEPT !.status = "confirmed", !.nights = N].aside = {}
        BY <4>1, Zenon DEF Bookings
      <4>3. bk[b] = Absent \/ \E N : bk[b] = Ordered(N) BY DEF Init
      <4>4. bk[b].aside = {} BY <4>1, <4>2, <4>3 DEF Ordered
      <4>5. link[b] \in {NoLink, ImportedLink} BY DEF Init
      <4>6. link[b].fence = {}
        <5>1. NoLink.fence = {} BY DEF NoLink
        <5>2. 0 \in 0..MaxFact BY SourceAssumption
        <5>3. NoLink \in Links BY <5>2, SMTT(30) DEF NoLink, Links
        <5>4. ImportedLink.fence = NoLink.fence BY <5>3, Zenon DEF ImportedLink, Links
        <5> QED BY <4>5, <5>1, <5>4
      <4> QED BY <4>4, <4>6
    <3> QED BY <3>1, <3>2 DEF Fences, Kept, OpFence, Unsettled, NoOperation
  <2>4. kept = [b \in Booking |-> {}] BY <2>3
  <2>5. \A b, c \in Booking : b # c => taken[b] \cap taken[c] = {} BY <2>2 DEF NoNightTwice
  <2> QED BY <1>1, <2>2, <2>4, <2>5 DEF Promise!Init
<1>3. Inv /\ Inv' /\ [Next]_vars => [Promise!Next]_<<taken, kept>>
  <2> SUFFICES ASSUME Inv, Inv', [Next]_vars PROVE [Promise!Next]_<<taken, kept>> OBVIOUS
  <2>1. TypeOK /\ TypeOK' BY DEF Inv
  <2>2. taken' \in [Booking -> SUBSET Night] /\ kept' \in [Booking -> SUBSET Night]
    BY <1>4, <2>1
  <2>3. ASSUME NEW b \in Booking,
               OrderStep(b) \/ \E v \in Version, f \in Fact : SourceStep(b, v, f)
        PROVE  Promise!Next
    <3>1. /\ Free(Taken(b)' \ Taken(b), b)
          /\ \A c \in Booking \ {b} : Taken(c)' = Taken(c) /\ Fences(c)' = Fences(c)
      BY <2>1, <2>3, GainsAreFree
    <3>2. \A c \in Booking \ {b} : /\ taken'[c] = taken[c] /\ kept'[c] = kept[c]
                                    /\ (taken'[b] \ taken[b]) \cap (taken[c] \cup kept[c]) = {}
      BY <3>1 DEF Free
    <3>3. Promise!Change(b) BY <2>2, <3>2 DEF Promise!Change
    <3> QED BY <3>3 DEF Promise!Next
  <2>4. ASSUME UNCHANGED <<bk, op, link>> PROVE UNCHANGED <<taken, kept>>
    BY <2>4 DEF Taken, Occupies, Fences, Kept, OpFence, Unsettled
  <2>5. CASE Next
    <3>1. Steps BY <2>1, <2>5, NextSteps
    <3> QED BY <2>3, <2>4, <3>1 DEF Steps
  <2>6. CASE UNCHANGED vars BY <2>4, <2>6 DEF vars
  <2> QED BY <2>5, <2>6
<1> QED BY <1>2, <1>3, InvAlways, PTL DEF Spec, ImplementsRoomNights, Promise!Spec
=============================================================================
