---------------------------- MODULE RoomWorkProofs ----------------------------
EXTENDS PropertyInventoryProofs

\* That the authority's unsettled room changes lose no night that was closed at the channel
\* (FormerNightsHeld) and show no order as synchronised that is not closed (SettledIsShut),
\* for any bookings, nights and rounds of changes.  The work a booking carries, its sync
\* state and its operation must fit each other: Books says how, for each kind of work, and
\* the invariant ChannelInv adds that every closed night is in what some booking Holds.  A
\* handler is first judged on the record of its one booking (RoomStep), then as an action.

\* What an operation keeps back, and what an order is remembered to have closed.
FenceOf(o) == IF o.state \in {"sync_pending", "review_required"} THEN o.close \cup o.open ELSE {}
Waits(o) == o.state \in {"sync_pending", "review_required"}
Remembers(r, o) ==
  IF r.status \in {"confirmed", "retained"}
  THEN IF r.work # "none" THEN r.base
       ELSE IF r.status = "confirmed" /\ r.sync = "verified" THEN r.nights ELSE {}
  ELSE IF r.status = "cancelled" /\ Waits(o) /\ o.line THEN r.base ELSE {}
Holds(r, o) == Remembers(r, o) \cup r.aside \cup FenceOf(o)

\* An order without an unsettled room change: only its first close can be under way.
PlainOrder(r, o) ==
  /\ r.base = {} /\ r.aside = {}
  /\ r.status = "confirmed" => r.sync \in {"awaiting_manual_sync", "pending", "review_required", "verified"}
  /\ r.status = "retained" => r.sync \in {"not_required", "verified"}
  /\ Waits(o) => o.close = r.nights /\ o.open = {} /\ o.own /\ ~o.line /\ r.status = "confirmed"
\* An order whose unsettled change LINE closes and opens in two operations.
LineOrder(r, o) ==
  /\ r.status = "confirmed"
  /\ r.sync \in {"action_required", "verified", "pending", "review_required"}
  /\ r.sync = "verified" => r.base = r.nights
  /\ ~Waits(o) => r.aside = r.base \ r.nights
  /\ Waits(o) =>
       /\ o.line
       /\ \/ o.open = {} /\ o.close = r.nights \ r.base /\ o.close # {} /\ o.own /\ r.aside = r.base \ r.nights
          \/ ~o.own /\ o.close = {} /\ o.open = r.base \ r.nights /\ r.nights \subseteq r.base /\ r.aside = {}
\* One operation does both for staff.
StaffOrder(r, o) ==
  /\ r.sync \in {"awaiting_manual_sync", "pending", "review_required"}
  /\ r.was \in {"verified", "not_required"}
  /\ r.base # {} => r.was = "verified"
  /\ ~Waits(o) => r.aside = r.base \ Current(r)
  /\ Waits(o) => /\ ~o.line /\ r.aside = {}
                 /\ o.close = Current(r) \ r.base /\ o.open = r.base \ Current(r)
\* No operation does it by hand.
HandOrder(r, o) ==
  /\ ~Waits(o) /\ o.state = "none"
  /\ r.sync \in {"manually_confirmed", "action_required"}
  /\ r.sync = "manually_confirmed" => r.base = Current(r)
  /\ r.aside = r.base \ Current(r)
\* What a cancelled order leaves behind.
GoneOrder(r, o) ==
  /\ r.work # "os"
  /\ r.work = "none" => r.base = {} /\ r.aside = {}
  /\ r.work = "hand" => o.state = "none" /\ r.aside = r.base
  /\ r.work = "line" => r.aside \subseteq r.base
  /\ Waits(o) => \/ o.own /\ o.close # {}
                 \/ ~o.own /\ o.close = {} /\ (o.line => r.work = "line")
  /\ Waits(o) /\ o.line =>
       \/ r.base \subseteq r.aside \cup FenceOf(o)
       \/ r.sync = "review_required" /\ r.base \subseteq r.nights \cup r.aside \cup FenceOf(o)

\* The work, the sync state and the operation of an order fit each other, and what it is
\* remembered to have closed is in the closed nights S.
Books(r, o, S) ==
  /\ r.status # "held"
  /\ r.status = "absent" => r = Absent /\ o = NoOperation
  /\ r.status \in {"confirmed", "retained"} =>
       /\ Waits(o) => r.key
       /\ Waits(o) <=> r.sync \in {"pending", "review_required"}
       /\ r.work = "none" => PlainOrder(r, o)
       /\ r.work = "line" => LineOrder(r, o)
       /\ r.work = "os" => StaffOrder(r, o)
       /\ r.work = "hand" => HandOrder(r, o)
       /\ r.status = "retained" <=> r.nights = {}
       /\ Remembers(r, o) \subseteq S
  /\ r.status = "cancelled" => GoneOrder(r, o)

\* The inductive invariant.
ChannelInv ==
  IF mode = "none"
  THEN /\ shut = {}
       /\ \A b \in Booking : /\ bk[b].sync = "not_required" /\ bk[b].work = "none" /\ op[b].state = "none"
                             /\ bk[b].aside = {}
  ELSE /\ \A b \in Booking : Books(bk[b], op[b], shut)
       /\ \A n \in shut : \E b \in Booking : n \in Holds(bk[b], op[b])

-----------------------------------------------------------------------------
(* What the bookkeeping of unsettled room changes makes of an order. *)

\* The parts of an order that record its unsettled room change.
Parts(s, work, base, aside, sync, key) ==
  s.work = work /\ s.base = base /\ s.aside = aside /\ s.sync = sync /\ s.key = key

\* updateLinePending keeps the baseline and fences what of it the order gave up.
LEMMA LineParts ==
  ASSUME NEW r \in Bookings, NEW N \in SUBSET Night
  PROVE  LET s == LineWork(r, N) IN
         /\ s \in Bookings /\ SameOrder(r, s)
         /\ Parts(s, r.work, r.base, r.base \ N,
                  IF r.base # N THEN "action_required"
                  ELSE IF N # {} THEN "verified" ELSE "not_required", FALSE)
<1>1. LineWork(r, N) \in Bookings /\ SameOrder(r, LineWork(r, N)) BY LineWorkFrame
<1> QED BY <1>1, Zenon DEF LineWork, Parts, Bookings

\* So does updateManualHandling.
LEMMA HandParts ==
  ASSUME NEW r \in Bookings, NEW N \in SUBSET Night
  PROVE  LET s == HandWork(r, N) IN
         /\ s \in Bookings /\ SameOrder(r, s)
         /\ Parts(s, r.work, r.base, r.base \ N,
                  IF r.base = N THEN "manually_confirmed" ELSE "action_required", FALSE)
<1>1. HandWork(r, N) \in Bookings /\ SameOrder(r, HandWork(r, N)) BY HandWorkFrame
<1> QED BY <1>1, Zenon DEF HandWork, Parts, Bookings

\* Where saveOsRoomChange starts from, and how synchronised the order was there.
From(r) == IF r.work \in {"os", "line"} THEN r.base ELSE r.nights
Was(r) ==
  IF r.work = "os" THEN r.was
  ELSE IF r.work = "line" THEN IF r.base # {} THEN "verified" ELSE "not_required" ELSE r.sync

\* saveOsRoomChange starts from the baseline, if there is one, and else from the nights of
\* the order; back there, the order is as synchronised as it was.
LEMMA OsParts ==
  ASSUME NEW r \in Bookings, NEW N \in SUBSET Night
  PROVE  LET s == OsWork(r, N) IN
         /\ s \in Bookings /\ SameOrder(r, s)
         /\ From(r) = N => s.work = "none" /\ s.base = {} /\ s.aside = {} /\ s.sync = Was(r)
         /\ From(r) # N => /\ Parts(s, "os", From(r), From(r) \ N, "awaiting_manual_sync", FALSE)
                           /\ s.was = Was(r)
<1> DEFINE s == Baseline(r)
           t == OsWork(r, N)
<1>1. s \in Bookings BY BaselineFrame
<1>2. t \in Bookings /\ SameOrder(r, t) BY OsWorkFrame
<1>3. s.work = "os" /\ s.base = From(r) /\ s.was = Was(r)
  BY ZenonT(60) DEF Baseline, From, Was, Bookings
<1> HIDE DEF s
<1>4. CASE s.base = N
  <2>1. t = [s EXCEPT !.work = "none", !.base = {}, !.aside = {}, !.sync = s.was,
                 !.key = s.wasKey, !.was = "not_required", !.wasKey = FALSE]
    BY <1>4 DEF OsWork, s
  <2>2. t.work = "none" /\ t.base = {} /\ t.aside = {} /\ t.sync = s.was
    BY <1>1, <2>1, ZenonT(60) DEF Bookings
  <2> QED BY <1>2, <1>3, <1>4, <2>2
<1>5. CASE s.base # N
  <2>1. t = [s EXCEPT !.aside = s.base \ N, !.sync = "awaiting_manual_sync", !.key = FALSE]
    BY <1>5 DEF OsWork, s
  <2>2. Parts(t, s.work, s.base, s.base \ N, "awaiting_manual_sync", FALSE) /\ t.was = s.was
    BY <1>1, <2>1, ZenonT(60) DEF Bookings, Parts
  <2> QED BY <1>2, <1>3, <1>5, <2>2 DEF Parts
<1> QED BY <1>4, <1>5

-----------------------------------------------------------------------------
(* A change of one order at a property with a channel. *)

\* From order r with operation o to s with p, while the closed nights go from S to T: the
\* books stay in order, and what stays or becomes closed is remembered.
RoomStep(r, o, S, s, p, T) ==
  /\ Books(s, p, T)
  /\ T \subseteq S \cup Holds(s, p)
  /\ Holds(r, o) \cap T \subseteq Holds(s, p)

\* What an order in force is remembered to have closed it still has or keeps back.
LEMMA RememberedIsKept ==
  ASSUME NEW r \in Bookings, NEW o \in Operations, NEW S \in SUBSET Night, Books(r, o, S)
  PROVE  /\ r.status \in {"confirmed", "retained"} =>
              Remembers(r, o) \subseteq Current(r) \cup r.aside \cup FenceOf(o)
         /\ r.status = "cancelled" =>
              \/ Remembers(r, o) \subseteq r.aside \cup FenceOf(o)
              \/ r.sync = "review_required" /\ Remembers(r, o) \subseteq r.nights \cup r.aside \cup FenceOf(o)
<1>1. r.work \in {"none", "line", "os", "hand"} /\ r.status \in Status BY Zenon DEF Bookings
<1>2. ASSUME r.status \in {"confirmed", "retained"}
      PROVE  Remembers(r, o) \subseteq Current(r) \cup r.aside \cup FenceOf(o)
  <2>1. CASE r.work = "none" BY <1>2, <2>1 DEF Remembers, Current
  <2>2. CASE r.work = "line" BY <1>2, <2>2 DEF Books, LineOrder, Remembers, Current, FenceOf, Waits
  <2>3. CASE r.work = "os" BY <1>2, <2>3 DEF Books, StaffOrder, Remembers, Current, FenceOf, Waits
  <2>4. CASE r.work = "hand" BY <1>2, <2>4 DEF Books, HandOrder, Remembers, Current, FenceOf, Waits
  <2> QED BY <1>1, <2>1, <2>2, <2>3, <2>4
<1>3. ASSUME r.status = "cancelled"
      PROVE  \/ Remembers(r, o) \subseteq r.aside \cup FenceOf(o)
             \/ r.sync = "review_required" /\ Remembers(r, o) \subseteq r.nights \cup r.aside \cup FenceOf(o)
  BY <1>3 DEF Books, GoneOrder, Remembers
<1> QED BY <1>2, <1>3

\* The books of an order stay in order when nights it neither has nor keeps are opened.
LEMMA BooksStay ==
  ASSUME NEW r \in Bookings, NEW o \in Operations, NEW S \in SUBSET Night, NEW T \in SUBSET Night,
         Books(r, o, S), (S \ T) \cap (Current(r) \cup r.aside \cup FenceOf(o)) = {}
  PROVE  Books(r, o, T)
<1>1. r.status \in {"confirmed", "retained"} => Remembers(r, o) \subseteq T
  BY RememberedIsKept DEF Books
<1> QED BY <1>1 DEF Books

\* A room step of one order keeps the invariant.
LEMMA RoomStepKeeps ==
  ASSUME TypeOK, TypeOK', ChannelInv, mode = "owlnest", mode' = mode, NEW b \in Booking,
         RoomStep(bk[b], op[b], shut, bk'[b], op'[b], shut'),
         \A c \in Booking \ {b} : bk'[c] = bk[c] /\ op'[c] = op[c],
         \A c \in Booking \ {b} : (shut \ shut') \cap (Taken(c) \cup Fences(c)) = {}
  PROVE  ChannelInv'
<1>1. /\ \A c \in Booking : Books(bk[c], op[c], shut)
      /\ \A n \in shut : \E c \in Booking : n \in Holds(bk[c], op[c])
  BY DEF ChannelInv
<1>2. \A c \in Booking : Books(bk'[c], op'[c], shut')
  <2> SUFFICES ASSUME NEW c \in Booking, c # b PROVE Books(bk'[c], op'[c], shut') BY DEF RoomStep
  <2>1. bk[c] \in Bookings /\ op[c] \in Operations /\ shut \in SUBSET Night /\ shut' \in SUBSET Night
    BY DEF TypeOK
  <2>2. (shut \ shut') \cap (Current(bk[c]) \cup bk[c].aside \cup FenceOf(op[c])) = {}
    BY DEF Current, Taken, Occupies, Fences, Kept, OpFence, Unsettled, FenceOf
  <2>3. Books(bk[c], op[c], shut) BY <1>1
  <2>4. Books(bk[c], op[c], shut') BY <2>1, <2>2, <2>3, BooksStay
  <2> QED BY <2>4
<1>3. ASSUME NEW n \in shut' PROVE \E c \in Booking : n \in Holds(bk'[c], op'[c])
  <2>1. CASE n \in Holds(bk'[b], op'[b]) BY <2>1
  <2>2. CASE n \notin Holds(bk'[b], op'[b])
    <3>1. n \in shut /\ n \notin Holds(bk[b], op[b]) BY <1>3, <2>2 DEF RoomStep
    <3>2. PICK c \in Booking : n \in Holds(bk[c], op[c]) BY <1>1, <3>1
    <3>3. bk'[c] = bk[c] /\ op'[c] = op[c] BY <3>1, <3>2
    <3>4. n \in Holds(bk'[c], op'[c]) BY <3>2, <3>3
    <3> QED BY <3>4
  <2> QED BY <2>1, <2>2
<1> QED BY <1>2, <1>3 DEF ChannelInv

-----------------------------------------------------------------------------
(* Each handler is a room step, for a property with a channel. *)

\* LINE moves an order, which keeps its baseline.
LEMMA AmendedByLine ==
  ASSUME NEW r \in Bookings, NEW o \in Operations, NEW S \in SUBSET Night, NEW N \in SUBSET Night,
         NEW s \in Bookings, Books(r, o, S), r.status = "confirmed", r.work = "line", ~Waits(o),
         N # {}, s.status = "confirmed", s.nights = N,
         Parts(s, "line", r.base, r.base \ N,
               IF r.base # N THEN "action_required" ELSE IF N # {} THEN "verified" ELSE "not_required", FALSE)
  PROVE  RoomStep(r, o, S, s, o, S)
<1>1. LineOrder(r, o) /\ r.base \subseteq S BY DEF Books, Remembers
<1>2. s.work = "line" /\ s.base = r.base /\ s.aside = r.base \ N BY DEF Parts
<1>3. s.sync = IF r.base # N THEN "action_required" ELSE "verified" BY DEF Parts
<1>4. LineOrder(s, o) BY <1>2, <1>3 DEF LineOrder
<1>5. Remembers(s, o) = r.base /\ Remembers(r, o) = r.base BY <1>2 DEF Remembers
<1>6. Books(s, o, S) BY <1>1, <1>2, <1>3, <1>4, <1>5 DEF Books
<1>7. Holds(r, o) \subseteq Holds(s, o) BY <1>1, <1>2, <1>5 DEF Holds, LineOrder, FenceOf, Waits
<1> QED BY <1>6, <1>7 DEF RoomStep

\* An order that staff settle by hand is moved, retained or rescheduled.
LEMMA ReworkedByHand ==
  ASSUME NEW r \in Bookings, NEW o \in Operations, NEW S \in SUBSET Night, NEW N \in SUBSET Night,
         NEW s \in Bookings, Books(r, o, S), r.status \in {"confirmed", "retained"}, r.work = "hand",
         s.status \in {"confirmed", "retained"}, s.status = "retained" <=> N = {}, s.nights = N,
         Parts(s, "hand", r.base, r.base \ N,
               IF r.base = N THEN "manually_confirmed" ELSE "action_required", FALSE)
  PROVE  RoomStep(r, o, S, s, o, S)
<1>1. HandOrder(r, o) /\ r.base \subseteq S BY DEF Books, Remembers
<1>2. s.work = "hand" /\ s.base = r.base /\ s.aside = r.base \ N BY DEF Parts
<1>3. s.sync = IF r.base = N THEN "manually_confirmed" ELSE "action_required" BY DEF Parts
<1>4. Current(s) = N BY DEF Current
<1>5. HandOrder(s, o) BY <1>1, <1>2, <1>3, <1>4 DEF HandOrder
<1>6. Remembers(s, o) = r.base /\ Remembers(r, o) = r.base BY <1>2 DEF Remembers
<1>7. Books(s, o, S) BY <1>1, <1>2, <1>3, <1>5, <1>6 DEF Books, HandOrder
<1>8. Holds(r, o) \subseteq Holds(s, o) BY <1>1, <1>2, <1>6 DEF Holds, HandOrder, FenceOf, Waits
<1> QED BY <1>7, <1>8 DEF RoomStep

\* The same for an order whose change an operation will settle: its baseline is what it
\* had closed before the first of the changes.
LEMMA ReworkedByStaff ==
  ASSUME NEW r \in Bookings, NEW o \in Operations, NEW S \in SUBSET Night, NEW N \in SUBSET Night,
         NEW s \in Bookings, Books(r, o, S), r.status \in {"confirmed", "retained"}, r.work # "hand", ~Waits(o),
         r.work = "none" => r.sync = "verified",
         s.status \in {"confirmed", "retained"}, s.status = "retained" <=> N = {}, s.nights = N,
         From(r) = N => s.work = "none" /\ s.base = {} /\ s.aside = {} /\ s.sync = Was(r),
         From(r) # N => /\ Parts(s, "os", From(r), From(r) \ N, "awaiting_manual_sync", FALSE)
                        /\ s.was = Was(r)
  PROVE  RoomStep(r, o, S, s, o, S)
<1>1. r.work \in {"none", "line", "os"} BY DEF Bookings
<1>2. Was(r) \in {"verified", "not_required"} /\ (From(r) # {} => Was(r) = "verified")
  BY <1>1 DEF Books, StaffOrder, Was, From
<1>3. From(r) \subseteq S /\ Holds(r, o) \subseteq From(r)
  <2>1. CASE r.work = "none"
    <3>1. PlainOrder(r, o) BY <2>1 DEF Books
    <3>2. Remembers(r, o) = IF r.status = "confirmed" THEN r.nights ELSE {} BY <2>1 DEF Remembers
    <3>3. r.status = "retained" => r.nights = {} BY DEF Books
    <3> QED BY <2>1, <3>1, <3>2, <3>3 DEF Books, PlainOrder, Holds, From, FenceOf, Waits
  <2>2. CASE r.work = "line"
    BY <2>2 DEF Books, LineOrder, Holds, Remembers, From, FenceOf, Waits
  <2>3. CASE r.work = "os"
    BY <2>3 DEF Books, StaffOrder, Holds, Remembers, From, FenceOf, Waits
  <2> QED BY <1>1, <2>1, <2>2, <2>3
<1>4. Current(s) = N BY DEF Current
<1>5. FenceOf(o) = {} BY DEF FenceOf, Waits
<1>6. CASE From(r) = N
  <2>1. s.work = "none" /\ s.base = {} /\ s.aside = {} /\ s.sync = Was(r) BY <1>6
  <2>2. s.status = "confirmed" => s.sync = "verified" BY <1>2, <1>6, <2>1
  <2>3. PlainOrder(s, o) BY <1>2, <2>1, <2>2 DEF PlainOrder
  <2>4. Remembers(s, o) = IF s.status = "confirmed" THEN N ELSE {} BY <2>1, <2>2 DEF Remembers
  <2>5. Books(s, o, S) BY <1>2, <1>3, <1>6, <2>1, <2>3, <2>4 DEF Books
  <2>6. Holds(r, o) \subseteq Holds(s, o) BY <1>3, <1>6, <2>4 DEF Holds
  <2> QED BY <2>5, <2>6 DEF RoomStep
<1>7. CASE From(r) # N
  <2>1. /\ s.work = "os" /\ s.base = From(r) /\ s.aside = From(r) \ N
        /\ s.sync = "awaiting_manual_sync" /\ s.was = Was(r)
    BY <1>7 DEF Parts
  <2>2. StaffOrder(s, o) BY <1>2, <1>4, <2>1 DEF StaffOrder
  <2>3. Remembers(s, o) = From(r) BY <2>1 DEF Remembers
  <2>4. Books(s, o, S) BY <1>3, <2>1, <2>2, <2>3 DEF Books
  <2>5. Holds(r, o) \subseteq Holds(s, o) BY <1>3, <2>3 DEF Holds
  <2> QED BY <2>4, <2>5 DEF RoomStep
<1> QED BY <1>6, <1>7

\* A plain order that was never closed is moved, retained or rescheduled.
LEMMA ReworkedUnclosed ==
  ASSUME NEW r \in Bookings, NEW o \in Operations, NEW S \in SUBSET Night, NEW N \in SUBSET Night,
         NEW s \in Bookings, Books(r, o, S), r.status \in {"confirmed", "retained"}, r.work = "none", ~Waits(o),
         r.sync # "verified",
         s.status \in {"confirmed", "retained"}, s.status = "retained" <=> N = {}, s.nights = N,
         s.work = "none", s.base = {}, s.aside = {},
         s.sync = IF N # {} THEN "awaiting_manual_sync" ELSE "not_required"
  PROVE  RoomStep(r, o, S, s, o, S)
<1>1. PlainOrder(r, o) BY DEF Books
<1>2. PlainOrder(s, o) BY DEF PlainOrder
<1>3. Remembers(s, o) = {} /\ Remembers(r, o) = {} BY DEF Remembers
<1>4. Books(s, o, S) BY <1>2, <1>3 DEF Books
<1>5. Holds(r, o) \subseteq Holds(s, o) BY <1>1, <1>3 DEF Holds, PlainOrder
<1> QED BY <1>4, <1>5 DEF RoomStep

\* A new order.
LEMMA Entered ==
  ASSUME NEW r \in Bookings, NEW o \in Operations, NEW S \in SUBSET Night, NEW N \in SUBSET Night,
         NEW s \in Bookings, Books(r, o, S), r.status = "absent",
         s.status = "confirmed", s.nights = N, s.base = {}, s.aside = {}, N # {},
         \/ s.work = "line" /\ s.sync = "action_required"
         \/ s.work = "none" /\ s.sync = "awaiting_manual_sync"
  PROVE  RoomStep(r, o, S, s, o, S)
<1>1. r = Absent /\ o = NoOperation BY DEF Books
<1>2. o.state = "none" BY <1>1 DEF NoOperation
<1>3. ~Waits(o) /\ FenceOf(o) = {} BY <1>2 DEF Waits, FenceOf
<1>4. r.aside = {} /\ Remembers(r, o) = {} BY <1>1 DEF Absent, Remembers
<1>5. Holds(r, o) = {} BY <1>3, <1>4 DEF Holds
<1>6. s.work = "none" => PlainOrder(s, o) BY <1>3 DEF PlainOrder
<1>7. s.work = "line" => LineOrder(s, o) BY <1>3 DEF LineOrder
<1>8. Remembers(s, o) = {} BY DEF Remembers
<1>9. Books(s, o, S) BY <1>3, <1>6, <1>7, <1>8 DEF Books
<1> QED BY <1>5, <1>9 DEF RoomStep

\* LINE cancels an order: all it had closed is fenced.
LEMMA CancelledByLine ==
  ASSUME NEW r \in Bookings, NEW o \in Operations, NEW S \in SUBSET Night, NEW s \in Bookings,
         Books(r, o, S), r.status = "confirmed", r.work = "line", ~Waits(o), s.status = "cancelled",
         s.work = "line", s.base = r.base, s.aside = r.base
  PROVE  RoomStep(r, o, S, s, o, S)
<1>1. GoneOrder(s, o) BY DEF GoneOrder
<1>2. Books(s, o, S) BY <1>1 DEF Books
<1>3. Holds(r, o) \subseteq Holds(s, o) BY DEF Holds, Remembers, FenceOf, Waits, Books, LineOrder
<1> QED BY <1>2, <1>3 DEF RoomStep

\* Staff cancel an order that they settle by hand.
LEMMA CancelledByHand ==
  ASSUME NEW r \in Bookings, NEW o \in Operations, NEW S \in SUBSET Night, NEW s \in Bookings,
         Books(r, o, S), r.status = "confirmed", r.work = "hand", s.status = "cancelled",
         s.work = "hand", s.base = r.base, s.aside = r.base
  PROVE  RoomStep(r, o, S, s, o, S)
<1>1. HandOrder(r, o) BY DEF Books
<1>2. GoneOrder(s, o) BY <1>1 DEF GoneOrder, HandOrder
<1>3. Books(s, o, S) BY <1>2 DEF Books
<1>4. Holds(r, o) \subseteq Holds(s, o) BY <1>1 DEF Holds, Remembers, FenceOf, Waits, HandOrder
<1> QED BY <1>3, <1>4 DEF RoomStep

\* Staff cancel an order that was never closed.
LEMMA CancelledUnclosed ==
  ASSUME NEW r \in Bookings, NEW o \in Operations, NEW S \in SUBSET Night, NEW s \in Bookings,
         Books(r, o, S), r.status = "confirmed", r.work = "none", r.sync = "awaiting_manual_sync",
         s.status = "cancelled", s.work = "none", s.base = r.base, s.aside = r.aside
  PROVE  RoomStep(r, o, S, s, o, S)
<1>1. PlainOrder(r, o) /\ ~Waits(o) BY DEF Books
<1>2. GoneOrder(s, o) BY <1>1 DEF GoneOrder, PlainOrder
<1>3. Books(s, o, S) BY <1>2 DEF Books
<1>4. Holds(r, o) \subseteq Holds(s, o) BY <1>1 DEF Holds, Remembers
<1> QED BY <1>3, <1>4 DEF RoomStep

\* Staff cancel an order while its operation is under way: both are under review.
LEMMA CancelledUnderWay ==
  ASSUME NEW r \in Bookings, NEW o \in Operations, NEW S \in SUBSET Night, NEW s \in Bookings,
         NEW p \in Operations, Books(r, o, S), r.status = "confirmed", r.work \in {"none", "line"},
         r.sync \in {"pending", "review_required"},
         s.status = "cancelled", s.work = r.work, s.base = r.base, s.aside = r.aside, s.nights = r.nights,
         s.sync = "review_required",
         p.state = "review_required", p.close = o.close, p.open = o.open, p.line = o.line, p.own = o.own
  PROVE  RoomStep(r, o, S, s, p, S)
<1>1. Waits(o) /\ Waits(p) /\ FenceOf(p) = FenceOf(o) BY DEF Books, Waits, FenceOf
<1>2. CASE r.work = "none"
  <2>1. PlainOrder(r, o) /\ r.base = {} /\ r.aside = {} BY <1>2 DEF Books, PlainOrder
  <2>2. o.own /\ ~o.line /\ o.close = r.nights BY <1>1, <2>1 DEF PlainOrder
  <2>3. Remembers(r, o) = {} BY <1>2 DEF Remembers
  <2>4. r.nights # {} BY DEF Books
  <2>5. GoneOrder(s, p) BY <1>1, <1>2, <2>1, <2>2, <2>4 DEF GoneOrder
  <2>6. Books(s, p, S) BY <2>5 DEF Books
  <2>7. Holds(r, o) \subseteq Holds(s, p) BY <1>1, <2>3 DEF Holds
  <2> QED BY <2>6, <2>7 DEF RoomStep
<1>3. CASE r.work = "line"
  <2>1. LineOrder(r, o) /\ Remembers(r, o) = r.base BY <1>3 DEF Books, Remembers
  <2>2. Remembers(s, p) = r.base BY <1>1, <1>3, <2>1 DEF Remembers, LineOrder
  <2>3. r.base \subseteq r.nights \cup r.aside \cup FenceOf(p)
    BY <1>1, <2>1 DEF LineOrder, FenceOf, Waits
  <2>4. GoneOrder(s, p) BY <1>1, <1>3, <2>1, <2>3 DEF GoneOrder, LineOrder
  <2>5. Books(s, p, S) BY <2>4 DEF Books
  <2>6. Holds(r, o) \subseteq Holds(s, p) BY <1>1, <2>1, <2>2 DEF Holds
  <2> QED BY <2>5, <2>6 DEF RoomStep
<1> QED BY <1>2, <1>3

\* Staff cancel an order that was closed: an operation is to open its nights.
LEMMA CancelledClosed ==
  ASSUME NEW r \in Bookings, NEW o \in Operations, NEW S \in SUBSET Night, NEW s \in Bookings,
         NEW p \in Operations, Books(r, o, S), r.status = "confirmed", r.work \in {"none", "line"},
         r.sync \notin {"pending", "review_required"},
         s.status = "cancelled", s.work = r.work, s.base = r.base, s.aside = r.aside,
         p = Pending({}, r.nights, FALSE, FALSE)
  PROVE  RoomStep(r, o, S, s, p, S)
<1>1. ~Waits(o) /\ FenceOf(o) = {} BY DEF Books, Waits, FenceOf
<1>2. p.state = "sync_pending" /\ p.close = {} /\ p.open = r.nights /\ p.own = FALSE /\ p.line = FALSE
  BY DEF Pending
<1>3. FenceOf(p) = r.nights BY <1>2 DEF FenceOf
<1>4. CASE r.work = "none"
  <2>1. PlainOrder(r, o) /\ Remembers(r, o) \subseteq r.nights BY <1>4 DEF Books, Remembers
  <2>2. GoneOrder(s, p) BY <1>2, <1>4, <2>1 DEF GoneOrder, PlainOrder
  <2>3. Books(s, p, S) BY <2>2 DEF Books
  <2>4. Holds(r, o) \subseteq Holds(s, p) BY <1>1, <1>3, <2>1 DEF Holds
  <2> QED BY <2>3, <2>4 DEF RoomStep
<1>5. CASE r.work = "line"
  <2>1. LineOrder(r, o) /\ Remembers(r, o) = r.base BY <1>5 DEF Books, Remembers
  <2>2. GoneOrder(s, p) BY <1>1, <1>2, <1>5, <2>1 DEF GoneOrder, LineOrder
  <2>3. Books(s, p, S) BY <2>2 DEF Books
  <2>4. Holds(r, o) \subseteq Holds(s, p) BY <1>1, <1>3, <2>1 DEF Holds, LineOrder
  <2> QED BY <2>3, <2>4 DEF RoomStep
<1> QED BY <1>4, <1>5

\* Staff vouch for the channel.
LEMMA VouchedFor ==
  ASSUME NEW r \in Bookings, NEW o \in Operations, NEW S \in SUBSET Night, NEW s \in Bookings,
         Books(r, o, S), o.state = "none",
         \/ r.work = "hand" /\ r.status \in {"confirmed", "cancelled", "retained"}
         \/ r.work \in {"none", "line"} /\ r.base = {} /\ r.status = "confirmed" /\ r.sync # "verified",
         s.status = r.status, s.nights = r.nights, s.work = "hand", s.base = Current(r),
         s.aside = {}, s.sync = "manually_confirmed"
  PROVE  RoomStep(r, o, S, s, o, (S \ r.base) \cup Current(r))
<1> DEFINE T == (S \ r.base) \cup Current(r)
<1>1. ~Waits(o) /\ FenceOf(o) = {} BY DEF Waits, FenceOf
<1>2. Current(s) = Current(r) BY DEF Current
<1>3. Remembers(s, o) = IF s.status = "cancelled" THEN {} ELSE Current(r) BY <1>1 DEF Remembers
<1>4. r.status = "cancelled" => Current(r) = {} BY DEF Current
<1>5. Books(s, o, T)
  <2>1. CASE s.status = "cancelled"
    <3>1. GoneOrder(s, o) BY <1>1, <1>4, <2>1 DEF GoneOrder
    <3> QED BY <2>1, <3>1 DEF Books
  <2>2. CASE s.status # "cancelled"
    <3>1. HandOrder(s, o) BY <1>1, <1>2 DEF HandOrder
    <3> QED BY <1>1, <1>3, <2>2, <3>1 DEF Books
  <2> QED BY <2>1, <2>2
<1>6. T \subseteq S \cup Holds(s, o) BY <1>3, <1>4 DEF Holds
<1>7. Holds(r, o) \subseteq r.base
  <2>1. CASE r.status = "cancelled" BY <1>1, <2>1 DEF Holds, Remembers, Books, GoneOrder
  <2>2. CASE r.work = "hand" /\ r.status # "cancelled"
    BY <1>1, <2>2 DEF Holds, Remembers, Books, HandOrder
  <2>3. CASE r.work = "none" /\ r.status # "cancelled"
    BY <1>1, <2>3 DEF Holds, Remembers, Books, PlainOrder
  <2>4. CASE r.work = "line" /\ r.status # "cancelled"
    BY <1>1, <2>4 DEF Holds, Remembers, Books, LineOrder
  <2> QED BY <2>1, <2>2, <2>3, <2>4
<1>8. Holds(r, o) \cap T \subseteq Holds(s, o) BY <1>3, <1>4, <1>7 DEF Holds
<1> QED BY <1>5, <1>6, <1>8 DEF RoomStep

\* Staff ask for the operation that is to settle their change.
LEMMA AskedByStaff ==
  ASSUME NEW r \in Bookings, NEW o \in Operations, NEW S \in SUBSET Night, NEW s \in Bookings,
         NEW p \in Operations, NEW B,
         Books(r, o, S), r.status \in {"confirmed", "retained"}, r.work # "hand",
         r.sync = "awaiting_manual_sync", B = IF r.work = "os" THEN r.base ELSE {}, Current(r) # B,
         s.status = r.status, s.nights = r.nights, s.work = r.work, s.base = r.base, s.was = r.was,
         s.aside = IF r.work = "os" THEN {} ELSE r.aside, s.sync = "pending", s.key = TRUE,
         p = Pending(Current(r) \ B, B \ Current(r), FALSE, B = {})
  PROVE  RoomStep(r, o, S, s, p, S)
<1>1. r.work \in {"none", "line", "os", "hand"} BY Zenon DEF Bookings
<1>2. ~Waits(o) /\ FenceOf(o) = {} /\ r.work \in {"none", "os"} BY <1>1 DEF Books, LineOrder, Waits, FenceOf
<1>3. /\ p.state = "sync_pending" /\ p.line = FALSE /\ p.own = (B = {})
      /\ p.close = Current(r) \ B /\ p.open = B \ Current(r)
  BY DEF Pending
<1>4. Waits(p) /\ FenceOf(p) = (Current(r) \ B) \cup (B \ Current(r)) BY <1>3 DEF Waits, FenceOf
<1>5. Current(s) = Current(r) BY DEF Current
<1>6. CASE r.work = "none"
  <2>1. PlainOrder(r, o) /\ B = {} BY <1>6 DEF Books
  <2>2. r.status = "confirmed" BY <2>1 DEF Current
  <2>3. p.own /\ p.open = {} /\ p.close = r.nights BY <1>3, <2>1, <2>2 DEF Current
  <2>4. PlainOrder(s, p) BY <1>3, <1>6, <2>1, <2>2, <2>3 DEF PlainOrder
  <2>5. Remembers(r, o) = {} /\ Remembers(s, p) = {} BY <1>6 DEF Remembers
  <2>6. Books(s, p, S) BY <1>4, <1>6, <2>2, <2>4, <2>5 DEF Books
  <2>7. Holds(r, o) \subseteq Holds(s, p) BY <1>2, <1>6, <2>5 DEF Holds
  <2> QED BY <2>6, <2>7 DEF RoomStep
<1>7. CASE r.work = "os"
  <2>1. StaffOrder(r, o) /\ B = r.base BY <1>7 DEF Books
  <2>2. StaffOrder(s, p) BY <1>3, <1>4, <1>5, <1>7, <2>1 DEF StaffOrder
  <2>3. Remembers(r, o) = r.base /\ Remembers(s, p) = r.base BY <1>7 DEF Remembers
  <2>4. Books(s, p, S) BY <1>4, <1>7, <2>2, <2>3 DEF Books
  <2>5. Holds(r, o) \subseteq Holds(s, p) BY <1>2, <2>1, <2>3 DEF Holds, StaffOrder
  <2> QED BY <2>4, <2>5 DEF RoomStep
<1> QED BY <1>2, <1>6, <1>7

\* LINE asks for the nights it added to be closed.
LEMMA AskedToClose ==
  ASSUME NEW r \in Bookings, NEW o \in Operations, NEW S \in SUBSET Night, NEW s \in Bookings,
         NEW p \in Operations,
         Books(r, o, S), r.status = "confirmed", r.work = "line", ~Waits(o), r.nights \ r.base # {},
         s.status = r.status, s.nights = r.nights, s.work = r.work, s.base = r.base,
         s.aside = r.aside, s.sync = "pending", s.key = TRUE,
         p = Pending(r.nights \ r.base, {}, TRUE, TRUE)
  PROVE  RoomStep(r, o, S, s, p, S)
<1>1. /\ p.state = "sync_pending" /\ p.line = TRUE /\ p.own = TRUE
      /\ p.close = r.nights \ r.base /\ p.open = {}
  BY DEF Pending
<1>2. Waits(p) /\ FenceOf(o) = {} BY <1>1 DEF Waits, FenceOf
<1>3. LineOrder(s, p) BY <1>1, <1>2 DEF LineOrder, Books
<1>4. Remembers(r, o) = r.base /\ Remembers(s, p) = r.base BY DEF Remembers
<1>5. Books(s, p, S) BY <1>2, <1>3, <1>4 DEF Books
<1>6. Holds(r, o) \subseteq Holds(s, p) BY <1>2, <1>4 DEF Holds
<1> QED BY <1>5, <1>6 DEF RoomStep

\* LINE asks for the nights it gave up, perhaps with the order itself, to be opened.
LEMMA AskedToOpen ==
  ASSUME NEW r \in Bookings, NEW o \in Operations, NEW S \in SUBSET Night, NEW s \in Bookings,
         NEW p \in Operations,
         Books(r, o, S), r.status \in {"confirmed", "retained", "cancelled"}, r.work = "line", ~Waits(o),
         Current(r) \subseteq r.base,
         s.status = r.status, s.nights = r.nights, s.work = r.work, s.base = r.base,
         s.aside = {}, s.sync = "pending", s.key = TRUE,
         p = Pending({}, r.base \ Current(r), TRUE, FALSE)
  PROVE  RoomStep(r, o, S, s, p, S)
<1>1. /\ p.state = "sync_pending" /\ p.line = TRUE /\ p.own = FALSE
      /\ p.close = {} /\ p.open = r.base \ Current(r)
  BY DEF Pending
<1>2. Waits(p) /\ FenceOf(p) = r.base \ Current(r) /\ FenceOf(o) = {} BY <1>1 DEF Waits, FenceOf
<1>3. Remembers(s, p) = r.base BY <1>1, <1>2 DEF Remembers
<1>4. CASE r.status = "cancelled"
  <2>1. Current(r) = {} BY <1>4 DEF Current
  <2>2. GoneOrder(s, p) BY <1>1, <1>2, <1>4, <2>1 DEF GoneOrder
  <2>3. Books(s, p, S) BY <1>4, <2>2 DEF Books
  <2>4. Holds(r, o) \subseteq r.base BY <1>2, <1>4 DEF Holds, Remembers, Books, GoneOrder
  <2> QED BY <1>3, <2>3, <2>4 DEF RoomStep, Holds
<1>5. CASE r.status # "cancelled"
  <2>1. r.status = "confirmed" /\ Current(r) = r.nights BY <1>5 DEF Books, LineOrder, Current
  <2>2. LineOrder(s, p) BY <1>1, <1>2, <2>1 DEF LineOrder
  <2>3. Books(s, p, S) BY <1>2, <1>3, <2>1, <2>2 DEF Books, Remembers
  <2>4. Holds(r, o) \subseteq r.base BY <1>2, <2>1 DEF Holds, Remembers, Books, LineOrder
  <2> QED BY <1>3, <2>3, <2>4 DEF RoomStep, Holds
<1> QED BY <1>4, <1>5

\* A readback that is not as asked.
LEMMA Unsettling ==
  ASSUME NEW r \in Bookings, NEW o \in Operations, NEW S \in SUBSET Night, NEW s \in Bookings,
         NEW p \in Operations, Books(r, o, S), Waits(o),
         s.status = r.status, s.nights = r.nights, s.work = r.work, s.base = r.base, s.was = r.was,
         s.aside = r.aside, s.sync = "review_required", s.key = r.key,
         p.state = "review_required", p.close = o.close, p.open = o.open, p.line = o.line, p.own = o.own
  PROVE  RoomStep(r, o, S, s, p, S)
<1>1. Waits(p) /\ FenceOf(p) = FenceOf(o) /\ Current(s) = Current(r) BY DEF Waits, FenceOf, Current
<1>2. r.status # "absent" BY DEF Books, NoOperation, Waits
<1>3. CASE r.status = "cancelled"
  <2>1. GoneOrder(r, o) BY <1>3 DEF Books
  <2>2. GoneOrder(s, p) BY <1>1, <2>1 DEF GoneOrder, Waits
  <2>3. Books(s, p, S) BY <1>3, <2>2 DEF Books
  <2>4. Remembers(s, p) = Remembers(r, o) BY <1>1, <1>3 DEF Remembers
  <2>5. Holds(r, o) \subseteq Holds(s, p) BY <1>1, <2>4 DEF Holds
  <2> QED BY <2>3, <2>5 DEF RoomStep
<1>4. CASE r.status \in {"confirmed", "retained"}
  <2>1. r.sync \in {"pending", "review_required"} BY <1>4 DEF Books
  <2>2. Remembers(s, p) = Remembers(r, o) BY <1>4, <2>1 DEF Remembers
  <2>3. r.work = "none" => PlainOrder(s, p) BY <1>4 DEF Books, PlainOrder
  <2>4. r.work = "line" => LineOrder(s, p) BY <1>1, <1>4 DEF Books, LineOrder
  <2>5. r.work = "os" => StaffOrder(s, p) BY <1>1, <1>4 DEF Books, StaffOrder
  <2>6. r.work # "hand" BY <1>4 DEF Books, HandOrder
  <2>7. Books(s, p, S) BY <1>1, <1>4, <2>2, <2>3, <2>4, <2>5, <2>6 DEF Books
  <2>8. Holds(r, o) \subseteq Holds(s, p) BY <1>1, <2>2 DEF Holds
  <2> QED BY <2>7, <2>8 DEF RoomStep
<1>5. r.status \in {"absent", "held", "confirmed", "cancelled", "retained"} BY Zenon DEF Bookings, Status
<1> QED BY <1>2, <1>3, <1>4, <1>5 DEF Books

\* A readback settles an operation of LINE: the baseline is what is closed now.
LEMMA SettledForLine ==
  ASSUME NEW r \in Bookings, NEW o \in Operations, NEW S \in SUBSET Night, NEW s \in Bookings,
         NEW p \in Operations, NEW B,
         Books(r, o, S), Waits(o), o.line, r.work = "line", o.own => o.close \subseteq Current(r),
         B = (r.base \cup o.close) \ o.open,
         s.status = r.status, s.nights = r.nights, s.work = "line", s.base = B, s.aside = B \ Current(r),
         s.sync = IF B # Current(r) THEN "action_required"
                  ELSE IF Current(r) # {} THEN "verified" ELSE "not_required",
         p.state = "sync_verified"
  PROVE  RoomStep(r, o, S, s, p, (S \cup o.close) \ o.open)
<1> DEFINE T == (S \cup o.close) \ o.open
<1>1. ~Waits(p) /\ FenceOf(p) = {} /\ Current(s) = Current(r) BY DEF Waits, FenceOf, Current
<1>2. r.status # "absent" BY DEF Books, NoOperation, Waits
<1>3. r.status \in {"absent", "held", "confirmed", "cancelled", "retained"} BY Zenon DEF Bookings, Status
<1>4. CASE r.status = "cancelled"
  <2>1. GoneOrder(r, o) /\ Current(r) = {} BY <1>4 DEF Books, Current
  <2>2. o.close = {} BY <2>1 DEF GoneOrder
  <2>3. GoneOrder(s, p) BY <1>1, <2>1 DEF GoneOrder
  <2>4. Books(s, p, T) BY <1>4, <2>3 DEF Books
  <2>5. Holds(r, o) \subseteq r.base \cup o.open BY <1>4, <2>1, <2>2 DEF Holds, Remembers, GoneOrder, FenceOf
  <2>6. T \subseteq S /\ Holds(r, o) \cap T \subseteq Holds(s, p) BY <2>1, <2>2, <2>5 DEF Holds
  <2> QED BY <2>4, <2>6 DEF RoomStep
<1>5. CASE r.status # "cancelled"
  <2>1. r.status = "confirmed" /\ LineOrder(r, o) /\ r.base \subseteq S
    BY <1>2, <1>3, <1>5 DEF Books, LineOrder, Remembers
  <2>2. Current(r) = r.nights /\ r.nights # {} BY <2>1 DEF Current, Books
  <2>3. LineOrder(s, p) BY <1>1, <2>1, <2>2 DEF LineOrder
  <2>4. Remembers(s, p) = B /\ Remembers(r, o) = r.base BY <2>1 DEF Remembers
  <2>5. B \subseteq T BY <2>1
  <2>6. Books(s, p, T) BY <1>1, <2>1, <2>2, <2>3, <2>4, <2>5 DEF Books
  <2>7. o.close \cap o.open = {} /\ r.aside \subseteq r.base BY <2>1 DEF LineOrder
  <2>8. T \subseteq S \cup Holds(s, p) BY <2>4, <2>7 DEF Holds
  <2>9. Holds(r, o) \subseteq r.base \cup o.close \cup o.open BY <2>4, <2>7 DEF Holds, FenceOf
  <2>10. Holds(r, o) \cap T \subseteq Holds(s, p) BY <2>4, <2>9 DEF Holds
  <2> QED BY <2>6, <2>8, <2>10 DEF RoomStep
<1> QED BY <1>4, <1>5

\* A readback settles the change staff saved.
LEMMA SettledForStaff ==
  ASSUME NEW r \in Bookings, NEW o \in Operations, NEW S \in SUBSET Night, NEW s \in Bookings,
         NEW p \in Operations,
         Books(r, o, S), Waits(o), r.work = "os",
         s.status = r.status, s.nights = r.nights, s.work = "none", s.base = {}, s.aside = r.aside,
         s.sync = "verified", p.state = "sync_verified"
  PROVE  RoomStep(r, o, S, s, p, (S \cup o.close) \ o.open)
<1> DEFINE T == (S \cup o.close) \ o.open
<1>1. ~Waits(p) /\ FenceOf(p) = {} /\ Current(s) = Current(r) BY DEF Waits, FenceOf, Current
<1>2. r.status \in {"absent", "held", "confirmed", "cancelled", "retained"} BY Zenon DEF Bookings, Status
<1>3. r.status \in {"confirmed", "retained"} BY <1>2 DEF Books, GoneOrder, NoOperation, Waits
<1>4. StaffOrder(r, o) /\ r.base \subseteq S BY <1>3 DEF Books, Remembers
<1>5. /\ o.close = Current(r) \ r.base /\ o.open = r.base \ Current(r) /\ r.aside = {}
  BY <1>4 DEF StaffOrder
<1>6. Remembers(s, p) = Current(r) /\ Remembers(r, o) = r.base
  BY <1>3 DEF Remembers, Current, Books
<1>7. PlainOrder(s, p) BY <1>1, <1>3, <1>5 DEF PlainOrder
<1>8. Current(r) \subseteq T BY <1>4, <1>5
<1>9. Books(s, p, T) BY <1>1, <1>3, <1>6, <1>7, <1>8 DEF Books
<1>10. T \subseteq S \cup Holds(s, p) BY <1>5, <1>6 DEF Holds
<1>11. Holds(r, o) = r.base \cup o.close \cup o.open BY <1>5, <1>6 DEF Holds, FenceOf, Waits
<1>12. Holds(r, o) \cap T \subseteq Holds(s, p) BY <1>5, <1>6, <1>11 DEF Holds
<1> QED BY <1>9, <1>10, <1>12 DEF RoomStep

\* A readback settles the first close of an order, or the openings of a cancelled one.
LEMMA SettledPlain ==
  ASSUME NEW r \in Bookings, NEW o \in Operations, NEW S \in SUBSET Night, NEW s \in Bookings,
         NEW p \in Operations,
         Books(r, o, S), Waits(o), r.work # "os", ~(o.line /\ r.work = "line"),
         o.own => o.close \subseteq Current(r),
         s.status = r.status, s.nights = r.nights, s.work = r.work, s.base = r.base, s.aside = r.aside,
         s.sync = "verified", p.state = "sync_verified"
  PROVE  RoomStep(r, o, S, s, p, (S \cup o.close) \ o.open)
<1> DEFINE T == (S \cup o.close) \ o.open
<1>1. ~Waits(p) /\ FenceOf(p) = {} /\ Current(s) = Current(r) BY DEF Waits, FenceOf, Current
<1>2. r.status \in {"absent", "held", "confirmed", "cancelled", "retained"} BY Zenon DEF Bookings, Status
<1>3. r.work \in {"none", "line", "os", "hand"} BY Zenon DEF Bookings
<1>4. CASE r.status = "cancelled"
  <2>1. GoneOrder(r, o) /\ Current(r) = {} BY <1>4 DEF Books, Current
  <2>2. o.close = {} /\ ~o.line BY <1>3, <2>1 DEF GoneOrder
  <2>3. r.work # "hand" BY <2>1 DEF GoneOrder, Waits
  <2>4. GoneOrder(s, p) BY <1>1, <2>1, <2>3 DEF GoneOrder
  <2>5. Books(s, p, T) BY <1>4, <2>4 DEF Books
  <2>6. Holds(r, o) = r.aside \cup o.open BY <1>4, <2>2 DEF Holds, Remembers, FenceOf, Waits
  <2>7. Holds(r, o) \cap T \subseteq Holds(s, p) BY <2>6 DEF Holds
  <2> QED BY <2>2, <2>5, <2>7 DEF RoomStep
<1>5. CASE r.status # "cancelled"
  <2>1. r.status \in {"confirmed", "retained"} BY <1>2, <1>5 DEF Books, NoOperation, Waits
  <2>2. r.work = "none" BY <1>3, <2>1 DEF Books, LineOrder, HandOrder
  <2>3. PlainOrder(r, o) BY <2>1, <2>2 DEF Books
  <2>4. r.status = "confirmed" /\ o.close = r.nights /\ o.open = {} BY <2>3 DEF PlainOrder
  <2>5. PlainOrder(s, p) BY <1>1, <2>2, <2>3, <2>4 DEF PlainOrder
  <2>6. Remembers(s, p) = r.nights /\ r.nights \subseteq T BY <2>2, <2>4 DEF Remembers
  <2>7. Books(s, p, T) BY <1>1, <2>2, <2>4, <2>5, <2>6 DEF Books
  <2>8. T \subseteq S \cup Holds(s, p) BY <2>4, <2>6 DEF Holds
  <2>9. Holds(r, o) \subseteq r.nights
    <3>1. Remembers(r, o) \subseteq r.nights BY <2>2, <2>4 DEF Remembers
    <3>2. FenceOf(o) \subseteq r.nights BY <2>4 DEF FenceOf
    <3>3. r.aside = {} BY <2>3 DEF PlainOrder
    <3> QED BY <3>1, <3>2, <3>3 DEF Holds
  <2>10. Holds(r, o) \subseteq Holds(s, p) BY <2>6, <2>9 DEF Holds
  <2> QED BY <2>7, <2>8, <2>10 DEF RoomStep
<1> QED BY <1>4, <1>5

\* What of an order concerns its rooms.
SameRooms(r, s) ==
  /\ s.status = r.status /\ s.nights = r.nights /\ s.sync = r.sync /\ s.key = r.key
  /\ s.work = r.work /\ s.base = r.base /\ s.was = r.was /\ s.aside = r.aside

\* Money and time leave the rooms of an order alone.
LEMMA Untouched ==
  ASSUME NEW r \in Bookings, NEW o \in Operations, NEW S \in SUBSET Night, NEW s \in Bookings,
         Books(r, o, S), r.status # "absent", SameRooms(r, s)
  PROVE  RoomStep(r, o, S, s, o, S)
<1>1. Remembers(s, o) = Remembers(r, o) /\ Current(s) = Current(r) BY DEF Remembers, SameRooms, Current
<1>2. Holds(s, o) = Holds(r, o) BY <1>1 DEF Holds, SameRooms
<1>3. PlainOrder(r, o) => PlainOrder(s, o) BY DEF PlainOrder, SameRooms
<1>4. LineOrder(r, o) => LineOrder(s, o) BY DEF LineOrder, SameRooms
<1>5. StaffOrder(r, o) => StaffOrder(s, o) BY <1>1 DEF StaffOrder, SameRooms
<1>6. HandOrder(r, o) => HandOrder(s, o) BY <1>1 DEF HandOrder, SameRooms
<1>7. GoneOrder(r, o) => GoneOrder(s, o) BY DEF GoneOrder, SameRooms
<1>8. Books(s, o, S) BY <1>1, <1>3, <1>4, <1>5, <1>6, <1>7 DEF Books, SameRooms
<1> QED BY <1>2, <1>8 DEF RoomStep

-----------------------------------------------------------------------------
(* Each handler keeps the invariant at a property with a channel. *)

\* A handler that makes one room step, and opens no night that another order has or keeps.
LEMMA HandlerKeeps ==
  ASSUME TypeOK, TypeOK', ChannelInv, mode = "owlnest", mode' = mode, NEW b \in Booking, NEW r, NEW o,
         bk' = [bk EXCEPT ![b] = r], op' = [op EXCEPT ![b] = o],
         RoomStep(bk[b], op[b], shut, r, o, shut'),
         \A c \in Booking \ {b} : (shut \ shut') \cap (Taken(c) \cup Fences(c)) = {}
  PROVE  ChannelInv'
<1>1. bk \in [Booking -> Bookings] /\ op \in [Booking -> Operations] BY DEF TypeOK
<1>2. bk'[b] = r /\ op'[b] = o BY <1>1
<1>3. \A c \in Booking \ {b} : bk'[c] = bk[c] /\ op'[c] = op[c] BY <1>1
<1>4. RoomStep(bk[b], op[b], shut, bk'[b], op'[b], shut') BY <1>2
<1> QED BY <1>3, <1>4, RoomStepKeeps

\* What is known of an order and its operation before a handler runs.
LEMMA BooksNow ==
  ASSUME TypeOK, ChannelInv, mode = "owlnest", NEW b \in Booking
  PROVE  /\ bk[b] \in Bookings /\ op[b] \in Operations /\ shut \in SUBSET Night
         /\ Books(bk[b], op[b], shut)
         /\ bk[b].nights \in SUBSET Night /\ bk[b].base \in SUBSET Night
<1>1. bk[b] \in Bookings /\ op[b] \in Operations /\ shut \in SUBSET Night BY DEF TypeOK
<1>2. bk[b].nights \in SUBSET Night /\ bk[b].base \in SUBSET Night BY <1>1, Zenon DEF Bookings
<1>3. Books(bk[b], op[b], shut) BY DEF ChannelInv
<1> QED BY <1>1, <1>2, <1>3

\* createBooking.
LEMMA CreateBookingKeeps ==
  ASSUME TypeOK, TypeOK', ChannelInv, mode = "owlnest", NEW b \in Booking, NEW N \in Stay, CreateBooking(b, N)
  PROVE  ChannelInv'
<1> DEFINE s == IF Source[b] = "line"
                THEN [Ordered(N) EXCEPT !.work = "line", !.sync = "action_required"]
                ELSE [Ordered(N) EXCEPT !.sync = "awaiting_manual_sync"]
<1>1. N \in SUBSET Night /\ N # {} BY DEF Stay
<1>2. Ordered(N) \in Bookings BY <1>1, OrderedType
<1>3. /\ Ordered(N).status = "confirmed" /\ Ordered(N).nights = N /\ Ordered(N).work = "none"
      /\ Ordered(N).base = {} /\ Ordered(N).aside = {}
  <2>1. Absent \in Bookings BY <1>1, OrderedType
  <2>2. Absent.work = "none" /\ Absent.base = {} /\ Absent.aside = {} BY DEF Absent
  <2> QED BY <2>1, <2>2, ZenonT(60) DEF Ordered, Bookings
<1>4. Revise(b, s, op[b], TRUE) /\ shut' = shut /\ bk[b].status = "absent" BY DEF CreateBooking
<1>5. s \in Bookings BY <1>2, ZenonT(60) DEF Bookings, Sync
<1>6. /\ s.status = "confirmed" /\ s.nights = N /\ s.base = {} /\ s.aside = {}
      /\ \/ s.work = "line" /\ s.sync = "action_required"
         \/ s.work = "none" /\ s.sync = "awaiting_manual_sync"
  BY <1>2, <1>3, ZenonT(60) DEF Bookings
<1> HIDE DEF s
<1>7. RoomStep(bk[b], op[b], shut, s, op[b], shut) BY <1>1, <1>4, <1>5, <1>6, BooksNow, Entered
<1> QED BY <1>4, <1>7, HandlerKeeps DEF Revise

\* amendBooking by staff.
LEMMA AmendBookingKeeps ==
  ASSUME TypeOK, TypeOK', ChannelInv, mode = "owlnest", NEW b \in Booking, NEW N \in Stay, AmendBooking(b, N)
  PROVE  ChannelInv'
<1> DEFINE a == OsAmended(bk[b], N)
           s == [a EXCEPT !.nights = N]
<1>1. N \in SUBSET Night /\ N # {} BY DEF Stay
<1>2. bk[b].status = "confirmed" /\ shut' = shut BY DEF AmendBooking
<1>3. CASE N = bk[b].nights
  <2>1. Revise(b, bk[b], op[b], FALSE) BY <1>3 DEF AmendBooking
  <2>2. SameRooms(bk[b], bk[b]) BY DEF SameRooms
  <2>3. RoomStep(bk[b], op[b], shut, bk[b], op[b], shut) BY <1>2, <2>2, BooksNow, Untouched
  <2> QED BY <1>2, <2>1, <2>3, HandlerKeeps DEF Revise
<1>4. CASE N # bk[b].nights
  <2>1. /\ Revise(b, s, op[b], TRUE)
        /\ bk[b].sync \notin {"pending", "review_required"}
    BY <1>4 DEF AmendBooking
  <2>2. ~Waits(op[b]) BY <1>2, <2>1, BooksNow DEF Books
  <2>3. a \in Bookings /\ SameOrder(bk[b], a) BY <1>1, BooksNow, OsAmendedFrame
  <2>4. CASE bk[b].work = "hand"
    <3>1. a = HandWork(bk[b], N) BY <2>4 DEF OsAmended
    <3>2. Parts(a, "hand", bk[b].base, bk[b].base \ N,
                IF bk[b].base = N THEN "manually_confirmed" ELSE "action_required", FALSE)
      BY <1>1, <2>4, <3>1, BooksNow, HandParts
    <3> HIDE DEF a
    <3>3. s \in Bookings /\ s.status = a.status /\ s.nights = N
      BY <1>1, <2>3, ZenonT(60) DEF Bookings
    <3>4. Parts(s, a.work, a.base, a.aside, a.sync, a.key) BY <2>3, ZenonT(60) DEF Bookings, Parts
    <3>5. Parts(s, "hand", bk[b].base, bk[b].base \ N,
                IF bk[b].base = N THEN "manually_confirmed" ELSE "action_required", FALSE)
      BY <3>2, <3>4 DEF Parts
    <3>6. s.status = "confirmed" BY <1>2, <2>3, <3>3 DEF SameOrder
    <3> HIDE DEF s
    <3>7. RoomStep(bk[b], op[b], shut, s, op[b], shut)
      BY <1>1, <1>2, <2>4, <3>3, <3>5, <3>6, BooksNow, ReworkedByHand
    <3> QED BY <1>2, <2>1, <3>7, HandlerKeeps DEF Revise
  <2>5. CASE bk[b].work # "hand" /\ (bk[b].sync # "awaiting_manual_sync" \/ bk[b].work = "os")
    <3>1. a = OsWork(bk[b], N) BY <2>5 DEF OsAmended
    <3> HIDE DEF a
    <3>2. /\ From(bk[b]) = N => a.work = "none" /\ a.base = {} /\ a.aside = {} /\ a.sync = Was(bk[b])
          /\ From(bk[b]) # N => /\ Parts(a, "os", From(bk[b]), From(bk[b]) \ N, "awaiting_manual_sync", FALSE)
                                /\ a.was = Was(bk[b])
      <4>1. bk[b] \in Bookings BY BooksNow
      <4> QED BY <1>1, <3>1, <4>1, OsParts
    <3>3. s \in Bookings /\ s.status = a.status /\ s.nights = N /\ s.was = a.was
      BY <1>1, <2>3, ZenonT(60) DEF Bookings
    <3>4. Parts(s, a.work, a.base, a.aside, a.sync, a.key) BY <2>3, ZenonT(60) DEF Bookings, Parts
    <3>5. /\ From(bk[b]) = N => s.work = "none" /\ s.base = {} /\ s.aside = {} /\ s.sync = Was(bk[b])
          /\ From(bk[b]) # N => /\ Parts(s, "os", From(bk[b]), From(bk[b]) \ N, "awaiting_manual_sync", FALSE)
                                /\ s.was = Was(bk[b])
      BY <3>2, <3>3, <3>4 DEF Parts
    <3>6. s.status = "confirmed" BY <1>2, <2>3, <3>3 DEF SameOrder
    <3>7. bk[b].work = "none" => bk[b].sync = "verified"
      BY <1>2, <2>1, <2>5, BooksNow DEF Books, PlainOrder
    <3> HIDE DEF s
    <3>8. RoomStep(bk[b], op[b], shut, s, op[b], shut)
      BY <1>1, <1>2, <2>2, <2>5, <3>3, <3>5, <3>6, <3>7, BooksNow, ReworkedByStaff
    <3> QED BY <1>2, <2>1, <3>8, HandlerKeeps DEF Revise
  <2>6. CASE bk[b].work # "hand" /\ bk[b].sync = "awaiting_manual_sync" /\ bk[b].work # "os"
    <3>1. a = bk[b] BY <2>6 DEF OsAmended
    <3>2. bk[b] \in Bookings BY BooksNow
    <3>3. bk[b].work = "none" /\ bk[b].base = {} /\ bk[b].aside = {}
      <4>1. bk[b].work \in {"none", "line", "os", "hand"} BY <3>2, Zenon DEF Bookings
      <4> QED BY <1>2, <2>6, <4>1, BooksNow DEF Books, PlainOrder, LineOrder
    <3>4. /\ s \in Bookings /\ s.status = bk[b].status /\ s.nights = N /\ s.sync = bk[b].sync
          /\ s.work = bk[b].work /\ s.base = bk[b].base /\ s.aside = bk[b].aside
      BY <1>1, <3>1, <3>2, ZenonT(60) DEF Bookings
    <3> HIDE DEF s
    <3>5. RoomStep(bk[b], op[b], shut, s, op[b], shut)
      BY <1>1, <1>2, <2>2, <2>6, <3>3, <3>4, BooksNow, ReworkedUnclosed
    <3> QED BY <1>2, <2>1, <3>5, HandlerKeeps DEF Revise
  <2> QED BY <2>4, <2>5, <2>6
<1> QED BY <1>3, <1>4

\* amendBooking by LINE.
LEMMA AmendByLineKeeps ==
  ASSUME TypeOK, TypeOK', ChannelInv, mode = "owlnest", NEW b \in Booking, NEW N \in Stay, AmendByLine(b, N)
  PROVE  ChannelInv'
<1> DEFINE a == LineWork(bk[b], N)
           s == [a EXCEPT !.nights = N]
<1>1. N \in SUBSET Night /\ N # {} BY DEF Stay
<1>2. bk[b] \in Bookings /\ Books(bk[b], op[b], shut) BY BooksNow
<1>3. a \in Bookings /\ SameOrder(bk[b], a) BY <1>1, <1>2, LineParts
<1>4. Parts(a, bk[b].work, bk[b].base, bk[b].base \ N,
            IF bk[b].base # N THEN "action_required"
            ELSE IF N # {} THEN "verified" ELSE "not_required", FALSE)
  BY <1>1, <1>2, LineParts
<1>5. Revise(b, s, op[b], TRUE) /\ shut' = shut BY DEF AmendByLine
<1>6. bk[b].status = "confirmed" /\ bk[b].work = "line" /\ ~Waits(op[b])
  BY DEF AmendByLine, LineMay, Unsettled, Waits
<1> HIDE DEF a
<1>7. s \in Bookings /\ s.status = a.status /\ s.nights = N BY <1>1, <1>3, ZenonT(60) DEF Bookings
<1>8. Parts(s, a.work, a.base, a.aside, a.sync, a.key) BY <1>3, ZenonT(60) DEF Bookings, Parts
<1> HIDE DEF s
<1>9. s.status = "confirmed" BY <1>3, <1>6, <1>7 DEF SameOrder
<1>10. Parts(s, "line", bk[b].base, bk[b].base \ N,
             IF bk[b].base # N THEN "action_required"
             ELSE IF N # {} THEN "verified" ELSE "not_required", FALSE)
  BY <1>4, <1>6, <1>8 DEF Parts
<1>11. RoomStep(bk[b], op[b], shut, s, op[b], shut)
  BY <1>1, <1>6, <1>7, <1>9, <1>10, BooksNow, AmendedByLine
<1> QED BY <1>5, <1>11, HandlerKeeps DEF Revise

\* cancelBooking by LINE.
LEMMA CancelByLineKeeps ==
  ASSUME TypeOK, TypeOK', ChannelInv, mode = "owlnest", NEW b \in Booking, CancelByLine(b)
  PROVE  ChannelInv'
<1> DEFINE a == LineWork(bk[b], {})
           s == [a EXCEPT !.status = "cancelled"]
<1>1. bk[b] \in Bookings BY BooksNow
<1>2. a \in Bookings /\ a.work = bk[b].work /\ a.base = bk[b].base /\ a.aside = bk[b].base
  <2>1. bk[b].base \ {} = bk[b].base /\ {} \in SUBSET Night OBVIOUS
  <2>2. /\ a \in Bookings
        /\ Parts(a, bk[b].work, bk[b].base, bk[b].base \ {},
                 IF bk[b].base # {} THEN "action_required"
                 ELSE IF {} # {} THEN "verified" ELSE "not_required", FALSE)
    BY <1>1, <2>1, LineParts
  <2> HIDE DEF a
  <2> QED BY <2>1, <2>2 DEF Parts
<1>3. Revise(b, s, op[b], TRUE) /\ shut' = shut BY DEF CancelByLine
<1>4. bk[b].status = "confirmed" /\ bk[b].work = "line" /\ ~Waits(op[b])
  BY DEF CancelByLine, LineMay, Unsettled, Waits
<1> HIDE DEF a
<1>5. /\ s \in Bookings /\ s.status = "cancelled" /\ s.work = a.work /\ s.base = a.base
      /\ s.aside = a.aside
  BY <1>2, ZenonT(60) DEF Bookings, Status
<1> HIDE DEF s
<1>6. RoomStep(bk[b], op[b], shut, s, op[b], shut)
  BY <1>2, <1>4, <1>5, BooksNow, CancelledByLine
<1> QED BY <1>3, <1>6, HandlerKeeps DEF Revise

\* cancelBooking by staff.
LEMMA CancelBookingKeeps ==
  ASSUME TypeOK, TypeOK', ChannelInv, mode = "owlnest", NEW b \in Booking, CancelBooking(b)
  PROVE  ChannelInv'
<1> DEFINE a == Cancelled(b)[1]
           p == Cancelled(b)[2]
           s == [a EXCEPT !.status = "cancelled"]
<1>1. /\ bk[b] \in Bookings /\ op[b] \in Operations /\ shut \in SUBSET Night
      /\ Books(bk[b], op[b], shut)
  BY BooksNow
<1>2. a \in Bookings /\ SameOrder(bk[b], a) /\ p \in Operations BY CancelledFrame
<1>3. Revise(b, s, p, TRUE) /\ shut' = shut BY DEF CancelBooking
<1>4. bk[b].status = "confirmed" /\ bk[b].work # "os" BY DEF CancelBooking
<1>5. bk[b].work \in {"none", "line", "os", "hand"} BY <1>1, Zenon DEF Bookings
<1>6. /\ s \in Bookings /\ s.status = "cancelled" /\ s.nights = a.nights /\ s.work = a.work
      /\ s.base = a.base /\ s.aside = a.aside /\ s.sync = a.sync
  <2> HIDE DEF a
  <2> QED BY <1>2, ZenonT(60) DEF Bookings, Status
<1>7. a.nights = bk[b].nights BY <1>2 DEF SameOrder
<1> HIDE DEF s
<1>8. RoomStep(bk[b], op[b], shut, s, p, shut)
  <2>1. CASE bk[b].work = "hand"
    <3>1. Cancelled(b) = <<HandWork(bk[b], {}), op[b]>> BY <2>1 DEF Cancelled
    <3>2. a = HandWork(bk[b], {}) /\ p = op[b] BY <3>1
    <3> HIDE DEF a, p
    <3>3. bk[b].base \ {} = bk[b].base OBVIOUS
    <3>4. a.work = bk[b].work /\ a.base = bk[b].base /\ a.aside = bk[b].base
      BY <1>1, <3>2, <3>3, HandParts DEF Parts
    <3> QED BY <1>1, <1>4, <1>6, <2>1, <3>2, <3>4, CancelledByHand
  <2>2. CASE bk[b].work # "hand" /\ bk[b].sync = "awaiting_manual_sync"
    <3>1. Cancelled(b) = <<[bk[b] EXCEPT !.sync = "not_required"], op[b]>> BY <2>2 DEF Cancelled
    <3>2. a = [bk[b] EXCEPT !.sync = "not_required"] /\ p = op[b] BY <3>1
    <3> HIDE DEF a, p
    <3>3. a.work = bk[b].work /\ a.base = bk[b].base /\ a.aside = bk[b].aside
      BY <1>1, <3>2, ZenonT(60) DEF Bookings
    <3>4. bk[b].work = "none" BY <1>1, <1>4, <1>5, <2>2 DEF Books, LineOrder
    <3> QED BY <1>1, <1>4, <1>6, <2>2, <3>2, <3>3, <3>4, CancelledUnclosed
  <2>3. CASE bk[b].work # "hand" /\ bk[b].sync \in {"pending", "review_required"}
    <3>1. bk[b].key BY <1>1, <1>4, <2>3 DEF Books
    <3>2. Cancelled(b) = <<[bk[b] EXCEPT !.sync = "review_required"],
                           [op[b] EXCEPT !.state = "review_required"]>>
      BY <2>3, <3>1 DEF Cancelled
    <3>3. /\ a = [bk[b] EXCEPT !.sync = "review_required"]
          /\ p = [op[b] EXCEPT !.state = "review_required"]
      BY <3>2
    <3> HIDE DEF a, p
    <3>4. /\ a.work = bk[b].work /\ a.base = bk[b].base /\ a.aside = bk[b].aside
          /\ a.sync = "review_required"
      BY <1>1, <3>3, ZenonT(60) DEF Bookings
    <3>5. /\ p.state = "review_required" /\ p.close = op[b].close /\ p.open = op[b].open
          /\ p.line = op[b].line /\ p.own = op[b].own
      BY <1>1, <3>3, ZenonT(60) DEF Operations
    <3>6. bk[b].work \in {"none", "line"} BY <1>4, <1>5, <2>3
    <3> QED BY <1>1, <1>2, <1>4, <1>6, <1>7, <2>3, <3>4, <3>5, <3>6, CancelledUnderWay
  <2>4. CASE /\ bk[b].work # "hand"
             /\ bk[b].sync \notin {"awaiting_manual_sync", "pending", "review_required"}
    <3>1. Cancelled(b) = <<[bk[b] EXCEPT !.sync = "pending", !.key = TRUE],
                           Pending({}, bk[b].nights, FALSE, FALSE)>>
      BY <2>4 DEF Cancelled
    <3>2. /\ a = [bk[b] EXCEPT !.sync = "pending", !.key = TRUE]
          /\ p = Pending({}, bk[b].nights, FALSE, FALSE)
      BY <3>1
    <3> HIDE DEF a, p
    <3>3. a.work = bk[b].work /\ a.base = bk[b].base /\ a.aside = bk[b].aside
      BY <1>1, <3>2, ZenonT(60) DEF Bookings
    <3>4. bk[b].work \in {"none", "line"} BY <1>4, <1>5, <2>4
    <3> QED BY <1>1, <1>2, <1>4, <1>6, <2>4, <3>2, <3>3, <3>4, CancelledClosed
  <2> QED BY <2>1, <2>2, <2>3, <2>4
<1> HIDE DEF p
<1> QED BY <1>3, <1>8, HandlerKeeps DEF Revise

\* A night that can be given to an order is neither had nor kept by another.
LEMMA OpenedIsFree ==
  ASSUME NEW b \in Booking, NEW N \in SUBSET Night, NEW but, ~HasConflict(N, b, but),
         NEW c \in Booking \ {b}
  PROVE  N \cap (Taken(c) \cup Fences(c)) = {}
BY NoConflictIsFree DEF Free

\* confirmManualRoomHandling.
LEMMA ConfirmManualRoomHandlingKeeps ==
  ASSUME TypeOK, TypeOK', ChannelInv, mode = "owlnest", NEW b \in Booking, ConfirmManualRoomHandling(b)
  PROVE  ChannelInv'
<1> DEFINE N == Current(bk[b])
           s == [bk[b] EXCEPT !.work = "hand", !.base = N, !.aside = {},
                              !.sync = "manually_confirmed"]
<1>1. /\ bk[b] \in Bookings /\ op[b] \in Operations /\ Books(bk[b], op[b], shut)
      /\ bk[b].nights \in SUBSET Night /\ bk[b].base \in SUBSET Night
  BY BooksNow
<1>2. N \in SUBSET Night BY <1>1 DEF Current
<1>3. Revise(b, s, op[b], TRUE) /\ shut' = (shut \ bk[b].base) \cup N
  BY DEF ConfirmManualRoomHandling
<1>4. HandMay(b) /\ ~HasConflict((N \ bk[b].base) \cup (bk[b].base \ N), b, "aside")
  BY DEF ConfirmManualRoomHandling
<1>5. N = Current(bk[b]) OBVIOUS
<1> HIDE DEF N
<1>6. /\ s \in Bookings /\ s.status = bk[b].status /\ s.nights = bk[b].nights /\ s.work = "hand"
      /\ s.base = N /\ s.aside = {} /\ s.sync = "manually_confirmed"
  BY <1>1, <1>2, ZenonT(60) DEF Bookings, Sync
<1> HIDE DEF s
<1>7. /\ op[b].state = "none"
      /\ \/ bk[b].work = "hand" /\ bk[b].status \in {"confirmed", "cancelled", "retained"}
         \/ bk[b].work \in {"none", "line"} /\ bk[b].base = {} /\ bk[b].status = "confirmed"
            /\ bk[b].sync # "verified"
  BY <1>4 DEF HandMay
<1>8. RoomStep(bk[b], op[b], shut, s, op[b], (shut \ bk[b].base) \cup Current(bk[b]))
  BY <1>5, <1>6, <1>7, BooksNow, VouchedFor
<1>9. ASSUME NEW c \in Booking \ {b} PROVE (shut \ shut') \cap (Taken(c) \cup Fences(c)) = {}
  <2>1. ((N \ bk[b].base) \cup (bk[b].base \ N)) \cap (Taken(c) \cup Fences(c)) = {}
    BY <1>1, <1>2, <1>4, OpenedIsFree
  <2> QED BY <1>3, <2>1
<1>10. RoomStep(bk[b], op[b], shut, s, op[b], shut') BY <1>3, <1>5, <1>8
<1> QED BY <1>3, <1>9, <1>10, HandlerKeeps DEF Revise

\* requestManualChannelSync.
LEMMA RequestManualChannelSyncKeeps ==
  ASSUME TypeOK, TypeOK', ChannelInv, mode = "owlnest", NEW b \in Booking, RequestManualChannelSync(b)
  PROVE  ChannelInv'
<1> DEFINE N == Current(bk[b])
           B == IF bk[b].work = "os" THEN bk[b].base ELSE {}
           A == IF bk[b].work = "os" THEN {} ELSE bk[b].aside
           s == [bk[b] EXCEPT !.sync = "pending", !.key = TRUE, !.aside = A]
           p == Pending(N \ B, B \ N, FALSE, B = {})
<1>1. /\ bk[b] \in Bookings /\ op[b] \in Operations /\ Books(bk[b], op[b], shut)
      /\ bk[b].nights \in SUBSET Night /\ bk[b].base \in SUBSET Night
  BY BooksNow
<1>2. bk[b].aside \in SUBSET Night BY <1>1, Zenon DEF Bookings
<1>3. N \in SUBSET Night /\ B \in SUBSET Night /\ A \in SUBSET Night BY <1>1, <1>2 DEF Current
<1>4. /\ bk' = [bk EXCEPT ![b] = s] /\ op' = [op EXCEPT ![b] = p]
      /\ mode' = mode /\ shut' = shut
  BY DEF RequestManualChannelSync
<1>5. /\ bk[b].status \in {"confirmed", "retained"} /\ bk[b].work # "hand"
      /\ bk[b].sync = "awaiting_manual_sync" /\ Current(bk[b]) # B
  BY DEF RequestManualChannelSync
<1>6. /\ N = Current(bk[b]) /\ B = IF bk[b].work = "os" THEN bk[b].base ELSE {}
      /\ A = IF bk[b].work = "os" THEN {} ELSE bk[b].aside
  OBVIOUS
<1> HIDE DEF N, B, A
<1>7. N \ B \in SUBSET Night /\ B \ N \in SUBSET Night BY <1>3
<1>8. /\ s \in Bookings /\ s.status = bk[b].status /\ s.nights = bk[b].nights /\ s.work = bk[b].work
      /\ s.base = bk[b].base /\ s.was = bk[b].was /\ s.aside = A /\ s.sync = "pending" /\ s.key = TRUE
  BY <1>1, <1>3, ZenonT(60) DEF Bookings, Sync
<1>9. p \in Operations BY <1>7, ZenonT(60) DEF Operations, Pending
<1>10. p = Pending(Current(bk[b]) \ B, B \ Current(bk[b]), FALSE, B = {}) BY <1>6
<1> HIDE DEF s, p
<1>11. RoomStep(bk[b], op[b], shut, s, p, shut)
  BY <1>5, <1>6, <1>8, <1>9, <1>10, BooksNow, AskedByStaff
<1> QED BY <1>4, <1>11, HandlerKeeps

\* requestLineChannelAction.
LEMMA RequestLineChannelActionKeeps ==
  ASSUME TypeOK, TypeOK', ChannelInv, mode = "owlnest", NEW b \in Booking,
         NEW wish \in {"closed", "open"}, RequestLineChannelAction(b, wish)
  PROVE  ChannelInv'
<1> DEFINE add == Current(bk[b]) \ bk[b].base
           drop == bk[b].base \ Current(bk[b])
           A == IF wish = "open" THEN {} ELSE bk[b].aside
           s == [bk[b] EXCEPT !.sync = "pending", !.key = TRUE, !.aside = A]
           p == IF wish = "open" THEN Pending({}, drop, TRUE, FALSE) ELSE Pending(add, {}, TRUE, TRUE)
<1>1. /\ bk[b] \in Bookings /\ op[b] \in Operations /\ Books(bk[b], op[b], shut)
      /\ bk[b].nights \in SUBSET Night /\ bk[b].base \in SUBSET Night
  BY BooksNow
<1>2. bk[b].aside \in SUBSET Night BY <1>1, Zenon DEF Bookings
<1>3. add \in SUBSET Night /\ drop \in SUBSET Night /\ A \in SUBSET Night BY <1>1, <1>2 DEF Current
<1>4. bk' = [bk EXCEPT ![b].sync = "pending", ![b].key = TRUE,
                      ![b].aside = IF wish = "open" THEN {} ELSE @] BY DEF RequestLineChannelAction
<1>5. bk \in [Booking -> Bookings] BY DEF TypeOK
<1>6. bk' = [bk EXCEPT ![b] = s] BY <1>4, <1>5
<1>7. op' = [op EXCEPT ![b] = p] /\ mode' = mode /\ shut' = shut BY DEF RequestLineChannelAction
<1>8. /\ bk[b].work = "line" /\ bk[b].sync = "action_required" /\ ~Waits(op[b])
      /\ wish = "closed" => add # {}
      /\ wish = "open" => add = {} /\ drop # {}
  BY DEF RequestLineChannelAction, Unsettled, Waits
<1>9. /\ wish = "open" => p = Pending({}, drop, TRUE, FALSE)
      /\ wish = "closed" => p = Pending(add, {}, TRUE, TRUE)
      /\ wish = "open" => A = {}
      /\ wish = "closed" => A = bk[b].aside
      /\ add = Current(bk[b]) \ bk[b].base /\ drop = bk[b].base \ Current(bk[b])
  OBVIOUS
<1>10. p \in Operations
  <2> HIDE DEF add, drop
  <2> QED BY <1>3, ZenonT(60) DEF Operations, Pending
<1> HIDE DEF add, drop, A
<1>11. /\ s \in Bookings /\ s.status = bk[b].status /\ s.nights = bk[b].nights /\ s.work = bk[b].work
       /\ s.base = bk[b].base /\ s.aside = A /\ s.sync = "pending" /\ s.key = TRUE
  BY <1>1, <1>3, ZenonT(60) DEF Bookings, Sync
<1> HIDE DEF s, p
<1>12. bk[b].status \in {"confirmed", "retained", "cancelled"}
  <2>1. bk[b].status \in {"absent", "held", "confirmed", "cancelled", "retained"}
    BY <1>1, Zenon DEF Bookings, Status
  <2>2. bk[b].status # "absent" BY <1>1, <1>8 DEF Books, Absent
  <2> QED BY <1>1, <2>1, <2>2 DEF Books
<1>13. RoomStep(bk[b], op[b], shut, s, p, shut)
  <2>1. CASE wish = "open"
    <3>1. Current(bk[b]) \subseteq bk[b].base BY <1>8, <1>9, <2>1
    <3>2. p = Pending({}, bk[b].base \ Current(bk[b]), TRUE, FALSE) /\ s.aside = {}
      BY <1>9, <1>11, <2>1
    <3> QED BY <1>8, <1>10, <1>11, <1>12, <3>1, <3>2, BooksNow, AskedToOpen
  <2>2. CASE wish = "closed"
    <3>1. bk[b].status = "confirmed" BY <1>8, <1>9, <2>2 DEF Current
    <3>2. Current(bk[b]) = bk[b].nights BY <3>1 DEF Current
    <3>3. bk[b].nights \ bk[b].base # {} /\ p = Pending(bk[b].nights \ bk[b].base, {}, TRUE, TRUE)
      BY <1>8, <1>9, <2>2, <3>2
    <3>4. s.aside = bk[b].aside BY <1>9, <1>11, <2>2
    <3> QED BY <1>8, <1>10, <1>11, <3>1, <3>3, <3>4, BooksNow, AskedToClose
  <2> QED BY <2>1, <2>2
<1> QED BY <1>6, <1>7, <1>13, HandlerKeeps

\* What a verified readback leaves of an order whose nights are still its own to settle.
LEMMA SettledIsRoomStep ==
  ASSUME TypeOK, ChannelInv, mode = "owlnest", NEW b \in Booking, NEW p \in Operations,
         Unsettled(b), OwnsNights(b), p.state = "sync_verified"
  PROVE  RoomStep(bk[b], op[b], shut, Settled(b), p, (shut \cup op[b].close) \ op[b].open)
<1> DEFINE s == Settled(b)
<1>1. /\ bk[b] \in Bookings /\ op[b] \in Operations /\ shut \in SUBSET Night
      /\ Books(bk[b], op[b], shut)
      /\ bk[b].nights \in SUBSET Night /\ bk[b].base \in SUBSET Night
  BY BooksNow
<1>2. op[b].close \in SUBSET Night /\ op[b].open \in SUBSET Night BY <1>1, Zenon DEF Operations
<1>3. Waits(op[b]) BY DEF Waits, Unsettled
<1>4. op[b].own => op[b].close \subseteq Current(bk[b]) BY DEF OwnsNights
<1>5. s \in Bookings /\ s.status = bk[b].status /\ s.nights = bk[b].nights
  BY SettledFrame DEF SameOrder
<1>6. CASE op[b].line /\ bk[b].work = "line"
  <2> DEFINE B == (bk[b].base \cup op[b].close) \ op[b].open
             a == [bk[b] EXCEPT !.base = B]
             N == Current(bk[b])
  <2>1. B \in SUBSET Night /\ N \in SUBSET Night BY <1>1, <1>2 DEF Current
  <2>2. s = LineWork(a, N) BY <1>1, <1>6 DEF Settled
  <2>3. N = Current(bk[b]) /\ B = (bk[b].base \cup op[b].close) \ op[b].open OBVIOUS
  <2> HIDE DEF B, N
  <2>4. a \in Bookings /\ a.base = B /\ a.work = bk[b].work
    BY <1>1, <2>1, ZenonT(60) DEF Bookings
  <2> HIDE DEF a, s
  <2>5. Parts(s, a.work, a.base, a.base \ N,
              IF a.base # N THEN "action_required"
              ELSE IF N # {} THEN "verified" ELSE "not_required", FALSE)
    BY <2>1, <2>2, <2>4, LineParts
  <2>6. /\ s.work = "line" /\ s.base = B /\ s.aside = B \ Current(bk[b])
        /\ s.sync = IF B # Current(bk[b]) THEN "action_required"
                    ELSE IF Current(bk[b]) # {} THEN "verified" ELSE "not_required"
    BY <1>6, <2>3, <2>4, <2>5 DEF Parts
  <2> QED BY <1>1, <1>3, <1>4, <1>5, <1>6, <2>3, <2>6, SettledForLine DEF s
<1>7. CASE ~(op[b].line /\ bk[b].work = "line") /\ bk[b].work = "os"
  <2>1. s = [bk[b] EXCEPT !.sync = "verified", !.work = "none", !.base = {},
                     !.was = "not_required", !.wasKey = FALSE]
    BY <1>7 DEF Settled
  <2> HIDE DEF s
  <2>2. s.work = "none" /\ s.base = {} /\ s.aside = bk[b].aside /\ s.sync = "verified"
    BY <1>1, <2>1, ZenonT(60) DEF Bookings
  <2> QED BY <1>1, <1>3, <1>5, <1>7, <2>2, SettledForStaff DEF s
<1>8. CASE ~(op[b].line /\ bk[b].work = "line") /\ bk[b].work # "os"
  <2>1. s = [bk[b] EXCEPT !.sync = "verified"] BY <1>8 DEF Settled
  <2> HIDE DEF s
  <2>2. s.work = bk[b].work /\ s.base = bk[b].base /\ s.aside = bk[b].aside /\ s.sync = "verified"
    BY <1>1, <2>1, ZenonT(60) DEF Bookings
  <2> QED BY <1>1, <1>3, <1>4, <1>5, <1>8, <2>2, SettledPlain DEF s
<1> QED BY <1>6, <1>7, <1>8

\* recordChannelReadback.
LEMMA RecordReadbackKeeps ==
  ASSUME TypeOK, TypeOK', ChannelInv, mode = "owlnest", NEW b \in Booking,
         NEW exact \in BOOLEAN, RecordReadback(b, exact)
  PROVE  ChannelInv'
<1>1. /\ bk[b] \in Bookings /\ op[b] \in Operations /\ shut \in SUBSET Night
      /\ bk \in [Booking -> Bookings] /\ op \in [Booking -> Operations]
  BY DEF TypeOK
<1>2. CASE exact /\ OwnsNights(b)
  <2> DEFINE p == [op[b] EXCEPT !.state = "sync_verified"]
             s == Settled(b)
  <2>1. p \in Operations /\ p.state = "sync_verified" BY <1>1, ZenonT(60) DEF Operations
  <2>2. /\ Revise(b, s, p, TRUE)
        /\ shut' = (shut \cup op[b].close) \ op[b].open /\ Unsettled(b)
    BY <1>2 DEF RecordReadback
  <2> HIDE DEF p, s
  <2>3. RoomStep(bk[b], op[b], shut, s, p, shut')
    BY <1>2, <2>1, <2>2, SettledIsRoomStep DEF s
  <2>4. ASSUME NEW c \in Booking \ {b} PROVE (shut \ shut') \cap (Taken(c) \cup Fences(c)) = {}
    <3>1. op[b].open \in SUBSET Night BY <1>1, Zenon DEF Operations
    <3>2. ASSUME NEW n \in op[b].open PROVE n \notin Taken(c) \cup Fences(c)
      <4>1. {n} \in SUBSET Night /\ ~HasConflict({n}, b, "operation") BY <1>2, <3>1, <3>2 DEF OwnsNights
      <4>2. {n} \cap (Taken(c) \cup Fences(c)) = {} BY <4>1, OpenedIsFree
      <4> QED BY <4>2
    <3> QED BY <2>2, <3>2
  <2> QED BY <2>2, <2>3, <2>4, HandlerKeeps DEF Revise
<1>3. CASE ~(exact /\ OwnsNights(b))
  <2> DEFINE s == [bk[b] EXCEPT !.sync = "review_required"]
             p == [op[b] EXCEPT !.state = "review_required"]
  <2>1. /\ bk' = [bk EXCEPT ![b].sync = "review_required"]
        /\ op' = [op EXCEPT ![b].state = "review_required"]
        /\ mode' = mode /\ shut' = shut /\ Unsettled(b)
    BY <1>3 DEF RecordReadback
  <2>2. bk' = [bk EXCEPT ![b] = s] /\ op' = [op EXCEPT ![b] = p] BY <1>1, <2>1
  <2>3. /\ s \in Bookings /\ s.status = bk[b].status /\ s.nights = bk[b].nights /\ s.work = bk[b].work
        /\ s.base = bk[b].base /\ s.was = bk[b].was /\ s.aside = bk[b].aside
        /\ s.sync = "review_required" /\ s.key = bk[b].key
    BY <1>1, ZenonT(60) DEF Bookings, Sync
  <2>4. /\ p \in Operations /\ p.state = "review_required" /\ p.close = op[b].close
        /\ p.open = op[b].open /\ p.line = op[b].line /\ p.own = op[b].own
    BY <1>1, ZenonT(60) DEF Operations
  <2>5. Waits(op[b]) BY <2>1 DEF Waits, Unsettled
  <2> HIDE DEF s, p
  <2>6. RoomStep(bk[b], op[b], shut, s, p, shut) BY <2>3, <2>4, <2>5, BooksNow, Unsettling
  <2>7. shut \ shut' = {} /\ RoomStep(bk[b], op[b], shut, s, p, shut') BY <2>1, <2>6
  <2>8. \A c \in Booking \ {b} : (shut \ shut') \cap (Taken(c) \cup Fences(c)) = {} BY <2>7
  <2>9. mode' = mode BY <2>1
  <2> QED BY <2>2, <2>7, <2>8, <2>9, HandlerKeeps
<1> QED BY <1>2, <1>3

\* The deadline of a hold passes, a hold is extended, or money is recorded.
LEMMA MoneyKeeps ==
  ASSUME TypeOK, TypeOK', ChannelInv, mode = "owlnest", NEW b \in Booking, Money(b)
  PROVE  ChannelInv'
<1>1. /\ bk[b] \in Bookings /\ op[b] \in Operations /\ Books(bk[b], op[b], shut)
      /\ bk \in [Booking -> Bookings] /\ op \in [Booking -> Operations]
  BY BooksNow DEF TypeOK
<1>2. op' = [op EXCEPT ![b] = op[b]] /\ shut' = shut /\ mode' = mode
  BY <1>1 DEF Money, HoldExpires, ExtendHold, ConvertHold, ReleaseHold, RecordPayment, Revise
<1>3. bk[b].status # "held" BY <1>1 DEF Books
<1>4. CASE HoldExpires(b)
  <2> DEFINE s == [bk[b] EXCEPT !.hold = "overdue"]
  <2>1. bk' = [bk EXCEPT ![b] = s] BY <1>1, <1>4 DEF HoldExpires
  <2>2. s \in Bookings /\ SameRooms(bk[b], s) BY <1>1, ZenonT(60) DEF Bookings, Hold, SameRooms
  <2>3. bk[b].status # "absent" BY <1>1, <1>4 DEF HoldExpires, Books, Absent
  <2> HIDE DEF s
  <2>4. RoomStep(bk[b], op[b], shut, s, op[b], shut) BY <2>2, <2>3, BooksNow, Untouched
  <2> QED BY <1>2, <2>1, <2>4, HandlerKeeps
<1>5. ASSUME NEW amount \in {-1, 1}, RecordPayment(b, amount) PROVE ChannelInv'
  <2> DEFINE m == bk[b].money + amount
             h == IF bk[b].hold \in {"released", "late_payment"}
                  THEN IF m > 0 THEN "late_payment" ELSE "released" ELSE bk[b].hold
             s == [bk[b] EXCEPT !.money = m, !.hold = h]
  <2>1. m \in 0..MaxMoney BY <1>5 DEF RecordPayment
  <2>2. bk[b].hold \in Hold BY <1>1, Zenon DEF Bookings
  <2>3. h \in Hold BY <2>2 DEF Hold
  <2>4. Revise(b, s, op[b], FALSE) BY <1>1, <1>5, Zenon DEF RecordPayment, Bookings
  <2>5. bk[b].status # "absent" BY <1>5 DEF RecordPayment
  <2> HIDE DEF m, h
  <2>6. s \in Bookings /\ SameRooms(bk[b], s) BY <1>1, <2>1, <2>3, ZenonT(60) DEF Bookings, SameRooms
  <2> HIDE DEF s
  <2>7. RoomStep(bk[b], op[b], shut, s, op[b], shut) BY <2>5, <2>6, BooksNow, Untouched
  <2> QED BY <1>2, <2>4, <2>7, HandlerKeeps DEF Revise
<1> QED BY <1>3, <1>4, <1>5 DEF Money, ExtendHold, ConvertHold, ReleaseHold

\* retainBooking and rescheduleBooking.
LEMMA ApplyCommandKeeps ==
  ASSUME TypeOK, TypeOK', ChannelInv, mode = "owlnest", ApplyCommand
  PROVE  ChannelInv'
<1> DEFINE b == command.booking
           N == command.nights
           st == IF N = {} THEN "retained" ELSE "confirmed"
           a == Deferred(bk[b], N)
           s == [a EXCEPT !.status = st, !.nights = N, !.owned = TRUE]
<1>1. command \in Commands BY DEF TypeOK, ApplyCommand
<1>2. b \in Booking /\ N \in SUBSET Night BY <1>1, Zenon DEF Commands
<1>3. /\ bk[b] \in Bookings /\ op[b] \in Operations /\ shut \in SUBSET Night
      /\ Books(bk[b], op[b], shut) /\ op \in [Booking -> Operations]
  BY <1>2, BooksNow DEF TypeOK
<1>4. bk' = [bk EXCEPT ![b] = s] BY DEF ApplyCommand
<1>5. op' = [op EXCEPT ![b] = op[b]] /\ shut' = shut /\ mode' = mode BY <1>2, <1>3 DEF ApplyCommand
<1>6. RetentionMay(b, N) BY DEF ApplyCommand, CommandFits
<1>7. a \in Bookings /\ SameOrder(bk[b], a) BY <1>2, <1>3, DeferredFrame
<1>8. /\ st \in {"confirmed", "retained"} /\ (st = "retained" <=> N = {}) /\ st \in Status
  BY DEF Status
<1>9. a = Deferred(bk[b], N) OBVIOUS
<1> HIDE DEF a, b, N, st
<1>10. /\ s \in Bookings /\ s.status = st /\ s.nights = N /\ s.was = a.was
       /\ Parts(s, a.work, a.base, a.aside, a.sync, a.key)
  BY <1>2, <1>7, <1>8, ZenonT(60) DEF Bookings, Parts
<1> HIDE DEF s
<1>11. bk[b].status \in {"confirmed", "retained"} /\ ~Waits(op[b])
  BY <1>6 DEF RetentionMay, Unsettled, Waits
<1>12. RoomStep(bk[b], op[b], shut, s, op[b], shut)
  <2>1. CASE bk[b].work = "hand"
    <3>1. a = HandWork(bk[b], N) BY <1>9, <2>1 DEF Deferred
    <3>2. Parts(a, "hand", bk[b].base, bk[b].base \ N,
                IF bk[b].base = N THEN "manually_confirmed" ELSE "action_required", FALSE)
      BY <1>2, <1>3, <2>1, <3>1, HandParts
    <3>3. Parts(s, "hand", bk[b].base, bk[b].base \ N,
                IF bk[b].base = N THEN "manually_confirmed" ELSE "action_required", FALSE)
      BY <1>10, <3>2 DEF Parts
    <3> QED BY <1>2, <1>3, <1>8, <1>10, <1>11, <2>1, <3>3, ReworkedByHand
  <2>2. CASE bk[b].work # "hand" /\ (bk[b].work # "none" \/ bk[b].sync = "verified")
    <3>1. a = OsWork(bk[b], N) BY <1>9, <2>2 DEF Deferred
    <3>2. /\ From(bk[b]) = N => a.work = "none" /\ a.base = {} /\ a.aside = {} /\ a.sync = Was(bk[b])
          /\ From(bk[b]) # N => /\ Parts(a, "os", From(bk[b]), From(bk[b]) \ N, "awaiting_manual_sync", FALSE)
                                /\ a.was = Was(bk[b])
      BY <1>2, <1>3, <3>1, OsParts
    <3>3. /\ From(bk[b]) = N => s.work = "none" /\ s.base = {} /\ s.aside = {} /\ s.sync = Was(bk[b])
          /\ From(bk[b]) # N => /\ Parts(s, "os", From(bk[b]), From(bk[b]) \ N, "awaiting_manual_sync", FALSE)
                                /\ s.was = Was(bk[b])
      BY <1>10, <3>2 DEF Parts
    <3> QED BY <1>2, <1>3, <1>8, <1>10, <1>11, <2>2, <3>3, ReworkedByStaff
  <2>3. CASE bk[b].work = "none" /\ bk[b].sync # "verified"
    <3>1. a = [bk[b] EXCEPT !.sync = IF N # {} THEN "awaiting_manual_sync" ELSE "not_required",
                            !.key = FALSE]
      BY <1>9, <2>3 DEF Deferred
    <3>2. /\ a.work = bk[b].work /\ a.base = bk[b].base /\ a.aside = bk[b].aside
          /\ a.sync = IF N # {} THEN "awaiting_manual_sync" ELSE "not_required"
      BY <1>3, <3>1, ZenonT(60) DEF Bookings
    <3>3. bk[b].base = {} /\ bk[b].aside = {} BY <1>3, <1>11, <2>3 DEF Books, PlainOrder
    <3>4. /\ s.work = "none" /\ s.base = {} /\ s.aside = {}
          /\ s.sync = IF N # {} THEN "awaiting_manual_sync" ELSE "not_required"
      BY <1>10, <2>3, <3>2, <3>3 DEF Parts
    <3> QED BY <1>2, <1>3, <1>8, <1>10, <1>11, <2>3, <3>4, ReworkedUnclosed
  <2> QED BY <2>1, <2>2, <2>3
<1> QED BY <1>2, <1>4, <1>5, <1>12, HandlerKeeps

\* A handler that touches no booking, no operation and no night at the channel.
LEMMA NothingDone ==
  ASSUME ChannelInv, UNCHANGED <<mode, bk, op, shut>>
  PROVE  ChannelInv'
BY DEF ChannelInv

\* Every step at a property with a channel.
LEMMA ChannelSteps ==
  ASSUME TypeOK, TypeOK', ChannelInv, mode = "owlnest", Next
  PROVE  ChannelInv'
<1>1. ASSUME NEW b \in Booking, Stays(b) PROVE ChannelInv'
  <2>1. PICK N \in Stay : \/ CreateBooking(b, N) \/ CreateHold(b, N)
                          \/ AmendBooking(b, N) \/ AmendByLine(b, N)
    BY <1>1 DEF Stays
  <2>2. ~CreateHold(b, N) BY DEF CreateHold
  <2> QED BY <2>1, <2>2, CreateBookingKeeps, AmendBookingKeeps, AmendByLineKeeps
<1>2. ASSUME NEW b \in Booking, CancelBooking(b) \/ CancelByLine(b) PROVE ChannelInv'
  BY <1>2, CancelBookingKeeps, CancelByLineKeeps
<1>3. ASSUME NEW b \in Booking, Channel(b) PROVE ChannelInv'
  BY <1>3, ConfirmManualRoomHandlingKeeps, RequestManualChannelSyncKeeps,
     RequestLineChannelActionKeeps, RecordReadbackKeeps DEF Channel
<1>4. ASSUME NEW b \in Booking, Money(b) PROVE ChannelInv' BY <1>4, MoneyKeeps
<1>5. ASSUME NEW b \in Booking, Commanded(b) PROVE ChannelInv'
  BY <1>5, NothingDone DEF Commanded, PlanCommand
<1>6. ASSUME NEW b \in Booking, SourceSays(b) PROVE ChannelInv'
  BY <1>6, NothingDone DEF SourceSays, CorrectName, ApplySourceEvent
<1>7. CASE Repeat \/ AbandonCommand BY <1>7, NothingDone DEF Repeat, AbandonCommand
<1>8. CASE ApplyCommand BY <1>8, ApplyCommandKeeps
<1> QED BY <1>1, <1>2, <1>3, <1>4, <1>5, <1>6, <1>7, <1>8 DEF Next

-----------------------------------------------------------------------------
(* A property without a channel never has an unsettled room change. *)

\* An order without any dealings with a channel.
Quiet(r, o) == r.sync = "not_required" /\ r.work = "none" /\ r.aside = {} /\ o.state = "none"

\* The order that a handler leaves behind is as quiet as before.
LEMMA QuietKeeps ==
  ASSUME TypeOK, ChannelInv, mode = "none", mode' = mode, shut' = shut, NEW b \in Booking, NEW s,
         bk' = [bk EXCEPT ![b] = s], op' = op, Quiet(s, op[b])
  PROVE  ChannelInv'
<1>1. bk \in [Booking -> Bookings] BY DEF TypeOK
<1>2. shut = {} /\ \A c \in Booking : Quiet(bk[c], op[c]) BY DEF ChannelInv, Quiet
<1>3. \A c \in Booking : Quiet(bk'[c], op'[c]) BY <1>1, <1>2
<1> QED BY <1>2, <1>3 DEF ChannelInv, Quiet

\* Every step at a property without one.
LEMMA QuietSteps ==
  ASSUME TypeOK, ChannelInv, mode = "none", Next
  PROVE  ChannelInv'
<1>1. /\ bk \in [Booking -> Bookings] /\ op \in [Booking -> Operations]
      /\ \A b \in Booking : bk[b] \in Bookings
  BY DEF TypeOK
<1>2. \A b \in Booking : Quiet(bk[b], op[b]) BY DEF ChannelInv, Quiet
<1>3. \A b \in Booking : op = [op EXCEPT ![b] = op[b]] BY <1>1
<1>4. \A b \in Booking : ~Unsettled(b) BY <1>2 DEF Quiet, Unsettled
<1>5. ASSUME NEW b \in Booking, NEW r, NEW s, NEW inventory,
             r = bk[b] \/ (r \in Bookings /\ Quiet(r, op[b])), r \in Bookings,
             Revise(b, s, op[b], inventory), shut' = shut,
             s.sync = r.sync, s.work = r.work, s.aside = r.aside
      PROVE  ChannelInv'
  <2>1. Quiet(s, op[b]) BY <1>2, <1>5 DEF Quiet
  <2> QED BY <1>3, <1>5, <2>1, QuietKeeps DEF Revise
<1>6. ASSUME NEW b \in Booking, NEW N \in Stay, CreateBooking(b, N) \/ CreateHold(b, N)
      PROVE  ChannelInv'
  <2> DEFINE h == [Ordered(N) EXCEPT !.status = "held", !.hold = "active"]
  <2>1. N \in SUBSET Night BY DEF Stay
  <2>2. Ordered(N) \in Bookings BY <2>1, OrderedType
  <2>3. Quiet(Ordered(N), op[b])
    <3>1. Absent \in Bookings BY <2>1, OrderedType
    <3>2. Absent.sync = "not_required" /\ Absent.work = "none" /\ Absent.aside = {} BY DEF Absent
    <3>3. /\ Ordered(N).sync = Absent.sync /\ Ordered(N).work = Absent.work
          /\ Ordered(N).aside = Absent.aside
      BY <3>1, ZenonT(60) DEF Ordered, Bookings
    <3> QED BY <1>2, <3>2, <3>3 DEF Quiet
  <2>4. h.sync = Ordered(N).sync /\ h.work = Ordered(N).work /\ h.aside = Ordered(N).aside
    BY <2>2, ZenonT(60) DEF Bookings
  <2>5. shut' = shut /\ (Revise(b, Ordered(N), op[b], TRUE) \/ Revise(b, h, op[b], TRUE))
    BY <1>6 DEF CreateBooking, CreateHold
  <2> HIDE DEF h
  <2> QED BY <1>5, <2>2, <2>3, <2>4, <2>5
<1>7. ASSUME NEW b \in Booking, NEW N \in Stay, AmendBooking(b, N) PROVE ChannelInv'
  <2> DEFINE s == [bk[b] EXCEPT !.nights = N]
  <2>1. OsAmended(bk[b], N) = bk[b] BY <1>2 DEF OsAmended, Quiet
  <2>2. s.sync = bk[b].sync /\ s.work = bk[b].work /\ s.aside = bk[b].aside
    BY <1>1, ZenonT(60) DEF Bookings
  <2>3. shut' = shut /\ \E inventory : \/ Revise(b, bk[b], op[b], inventory)
                                       \/ Revise(b, s, op[b], inventory)
    BY <1>7, <2>1 DEF AmendBooking
  <2> HIDE DEF s
  <2> QED BY <1>1, <1>5, <2>2, <2>3
<1>8. ASSUME NEW b \in Booking, CancelBooking(b) PROVE ChannelInv'
  <2> DEFINE s == [bk[b] EXCEPT !.status = "cancelled"]
  <2>1. Cancelled(b)[1] = bk[b] /\ Cancelled(b)[2] = op[b] BY DEF Cancelled
  <2>2. s.sync = bk[b].sync /\ s.work = bk[b].work /\ s.aside = bk[b].aside
    BY <1>1, ZenonT(60) DEF Bookings
  <2>3. shut' = shut /\ Revise(b, s, op[b], TRUE) BY <1>8, <2>1 DEF CancelBooking
  <2> HIDE DEF s
  <2> QED BY <1>1, <1>5, <2>2, <2>3
<1>9. ASSUME NEW b \in Booking, HoldExpires(b) PROVE ChannelInv'
  <2> DEFINE s == [bk[b] EXCEPT !.hold = "overdue"]
  <2>1. bk' = [bk EXCEPT ![b] = s] BY <1>1, <1>9 DEF HoldExpires
  <2>2. s.sync = bk[b].sync /\ s.work = bk[b].work /\ s.aside = bk[b].aside
    BY <1>1, ZenonT(60) DEF Bookings
  <2> HIDE DEF s
  <2>3. Quiet(s, op[b]) BY <1>2, <2>2 DEF Quiet
  <2> QED BY <1>9, <2>1, <2>3, QuietKeeps DEF HoldExpires
<1>10. ASSUME NEW b \in Booking, ExtendHold(b) PROVE ChannelInv'
  <2> DEFINE s == [bk[b] EXCEPT !.hold = "active"]
  <2>1. shut' = shut /\ Revise(b, s, op[b], FALSE) BY <1>10 DEF ExtendHold
  <2>2. s.sync = bk[b].sync /\ s.work = bk[b].work /\ s.aside = bk[b].aside
    BY <1>1, ZenonT(60) DEF Bookings
  <2> HIDE DEF s
  <2> QED BY <1>1, <1>5, <2>1, <2>2
<1>11. ASSUME NEW b \in Booking, ConvertHold(b) PROVE ChannelInv'
  <2> DEFINE s == [bk[b] EXCEPT !.status = "confirmed", !.hold = "converted"]
  <2>1. shut' = shut /\ Revise(b, s, op[b], FALSE) BY <1>11 DEF ConvertHold
  <2>2. s.sync = bk[b].sync /\ s.work = bk[b].work /\ s.aside = bk[b].aside
    BY <1>1, ZenonT(60) DEF Bookings
  <2> HIDE DEF s
  <2> QED BY <1>1, <1>5, <2>1, <2>2
<1>12. ASSUME NEW b \in Booking, ReleaseHold(b) PROVE ChannelInv'
  <2> DEFINE s == [bk[b] EXCEPT !.status = "cancelled", !.hold = "released"]
  <2>1. shut' = shut /\ Revise(b, s, op[b], TRUE) BY <1>12 DEF ReleaseHold
  <2>2. s.sync = bk[b].sync /\ s.work = bk[b].work /\ s.aside = bk[b].aside
    BY <1>1, ZenonT(60) DEF Bookings
  <2> HIDE DEF s
  <2> QED BY <1>1, <1>5, <2>1, <2>2
<1>13. ASSUME NEW b \in Booking, NEW amount \in {-1, 1}, RecordPayment(b, amount) PROVE ChannelInv'
  <2> DEFINE m == bk[b].money + amount
             h == IF bk[b].hold \in {"released", "late_payment"}
                  THEN IF m > 0 THEN "late_payment" ELSE "released" ELSE bk[b].hold
             s == [bk[b] EXCEPT !.money = m, !.hold = h]
  <2>1. shut' = shut /\ Revise(b, s, op[b], FALSE)
    BY <1>1, <1>13, Zenon DEF RecordPayment, Bookings
  <2> HIDE DEF m, h
  <2>2. s.sync = bk[b].sync /\ s.work = bk[b].work /\ s.aside = bk[b].aside
    BY <1>1, ZenonT(60) DEF Bookings
  <2> HIDE DEF s
  <2> QED BY <1>1, <1>5, <2>1, <2>2
<1>14. CASE ApplyCommand
  <2> DEFINE b == command.booking
             st == IF command.nights = {} THEN "retained" ELSE "confirmed"
             s == [bk[b] EXCEPT !.status = st, !.nights = command.nights, !.owned = TRUE]
  <2>1. b \in Booking
    <3>1. command \in Commands BY <1>14 DEF TypeOK, ApplyCommand
    <3> QED BY <3>1, Zenon DEF Commands
  <2>2. Deferred(bk[b], command.nights) = bk[b] BY DEF Deferred
  <2>3. bk' = [bk EXCEPT ![b] = s] /\ op' = op /\ shut' = shut /\ mode' = mode
    BY <1>14, <2>2 DEF ApplyCommand
  <2> HIDE DEF b, st
  <2>4. s.sync = bk[b].sync /\ s.work = bk[b].work /\ s.aside = bk[b].aside
    BY <1>1, <2>1, ZenonT(60) DEF Bookings
  <2> HIDE DEF s
  <2>5. Quiet(s, op[b]) BY <1>2, <2>1, <2>4 DEF Quiet
  <2> QED BY <2>1, <2>3, <2>5, QuietKeeps
<1>15. ASSUME NEW b \in Booking, NEW v \in Version, NEW f \in Fact, ApplySourceEvent(b, v, f)
       PROVE  ChannelInv'
  <2> DEFINE c == [bk[b] EXCEPT !.status = "confirmed", !.nights = f.nights]
             d == [bk[b] EXCEPT !.status = "cancelled"]
  <2>1. /\ UNCHANGED <<mode, op, shut>>
        /\ \/ UNCHANGED bk
           \/ bk' = [bk EXCEPT ![b] = Followed(b, f)]
    BY <1>15 DEF ApplySourceEvent
  <2>2. /\ c.sync = bk[b].sync /\ c.work = bk[b].work /\ c.aside = bk[b].aside
        /\ d.sync = bk[b].sync /\ d.work = bk[b].work /\ d.aside = bk[b].aside
    BY <1>1, ZenonT(60) DEF Bookings
  <2>3. Followed(b, f) \in {bk[b], c, d} BY DEF Followed
  <2> HIDE DEF c, d
  <2>4. Quiet(Followed(b, f), op[b]) BY <1>2, <2>2, <2>3 DEF Quiet
  <2> QED BY <2>1, <2>4, NothingDone, QuietKeeps
<1>16. ASSUME NEW b \in Booking, Stays(b) \/ CancelBooking(b) \/ CancelByLine(b) \/ Channel(b)
       PROVE  ChannelInv'
  <2>1. /\ \A N \in Stay : ~AmendByLine(b, N)
        /\ ~CancelByLine(b) /\ ~ConfirmManualRoomHandling(b) /\ ~RequestManualChannelSync(b)
        /\ \A wish \in {"closed", "open"} : ~RequestLineChannelAction(b, wish)
        /\ \A exact \in BOOLEAN : ~RecordReadback(b, exact)
    BY <1>4 DEF AmendByLine, CancelByLine, LineMay, ConfirmManualRoomHandling, HandMay,
                RequestManualChannelSync, RequestLineChannelAction, RecordReadback
  <2> QED BY <1>6, <1>7, <1>8, <1>16, <2>1 DEF Stays, Channel
<1>17. ASSUME NEW b \in Booking, Money(b) \/ Commanded(b) \/ SourceSays(b) PROVE ChannelInv'
  <2>1. CASE Money(b) BY <1>9, <1>10, <1>11, <1>12, <1>13, <2>1 DEF Money
  <2>2. CASE Commanded(b) BY <2>2, NothingDone DEF Commanded, PlanCommand
  <2>3. CASE CorrectName(b) BY <2>3, NothingDone DEF CorrectName
  <2> QED BY <1>15, <1>17, <2>1, <2>2, <2>3 DEF SourceSays
<1>18. CASE Repeat \/ AbandonCommand BY <1>18, NothingDone DEF Repeat, AbandonCommand
<1> QED BY <1>14, <1>16, <1>17, <1>18 DEF Next

-----------------------------------------------------------------------------
(* Theorems. *)

\* The initial states.
LEMMA InitChannelInv == Init => ChannelInv
<1> SUFFICES ASSUME Init PROVE ChannelInv OBVIOUS
<1>1. TypeOK BY InitInv DEF Inv
<1>2. /\ shut = {} /\ op = [b \in Booking |-> NoOperation] /\ mode \in {"none", "owlnest"}
  BY DEF Init
<1>3. \A b \in Booking : op[b] = NoOperation /\ NoOperation.state = "none" BY <1>2 DEF NoOperation
<1>4. /\ Absent.sync = "not_required" /\ Absent.work = "none" /\ Absent.aside = {}
      /\ Absent.status = "absent"
  BY DEF Absent
<1>5. PICK I \in SUBSET {b \in Booking : mode = "none" /\ Source[b] = "external"},
           at \in [Booking -> Stay] :
             bk = [b \in Booking |-> IF b \in I THEN Ordered(at[b]) ELSE Absent]
  BY DEF Init
<1>6. CASE mode = "owlnest"
  <2>1. I = {} BY <1>5, <1>6
  <2>2. \A b \in Booking : bk[b] = Absent BY <1>5, <2>1
  <2>3. \A b \in Booking : Books(bk[b], op[b], shut) BY <1>3, <1>4, <2>2 DEF Books
  <2> QED BY <1>2, <1>6, <2>3 DEF ChannelInv
<1>7. CASE mode = "none"
  <2>1. ASSUME NEW b \in Booking PROVE Quiet(bk[b], op[b])
    <3>1. at[b] \in SUBSET Night BY <1>5 DEF Stay
    <3>2. Absent \in Bookings BY <3>1, OrderedType
    <3>3. /\ Ordered(at[b]).sync = Absent.sync /\ Ordered(at[b]).work = Absent.work
          /\ Ordered(at[b]).aside = Absent.aside
      BY <3>2, ZenonT(60) DEF Ordered, Bookings
    <3>4. bk[b] = Ordered(at[b]) \/ bk[b] = Absent BY <1>5
    <3> QED BY <1>3, <1>4, <3>3, <3>4 DEF Quiet
  <2> QED BY <1>2, <1>7, <2>1 DEF ChannelInv, Quiet
<1> QED BY <1>2, <1>6, <1>7

\* At every moment the books of all orders are in order.
THEOREM ChannelInvAlways == Spec => []ChannelInv
<1>1. Inv /\ Inv' /\ ChannelInv /\ [Next]_vars => ChannelInv'
  <2> SUFFICES ASSUME Inv, Inv', ChannelInv, [Next]_vars PROVE ChannelInv' OBVIOUS
  <2>1. CASE UNCHANGED vars BY <2>1, NothingDone DEF vars
  <2>2. CASE Next
    <3>1. TypeOK /\ TypeOK' /\ mode \in {"none", "owlnest"} BY DEF Inv, TypeOK
    <3> QED BY <2>2, <3>1, ChannelSteps, QuietSteps
  <2> QED BY <2>1, <2>2
<1> QED BY <1>1, InitChannelInv, InvAlways, PTL DEF Spec

\* FormerNightsHeld: a night that was closed at the channel is not forgotten by a move, a
\* retention or a cancellation (saveOsRoomChange, updateLinePending, updateManualHandling).
THEOREM FormerNightsHeldAlways == Spec => []FormerNightsHeld
<1>1. TypeOK /\ ChannelInv => FormerNightsHeld
  <2> SUFFICES ASSUME TypeOK, ChannelInv, NEW n \in shut
               PROVE  \E b \in Booking :
                        \/ n \in Taken(b) \cup Fences(b)
                        \/ bk[b].status = "cancelled" /\ bk[b].sync = "review_required" /\ n \in bk[b].nights
    BY DEF FormerNightsHeld
  <2>1. mode = "owlnest" BY DEF ChannelInv, TypeOK
  <2>2. PICK b \in Booking : n \in Holds(bk[b], op[b]) BY <2>1 DEF ChannelInv
  <2>3. /\ bk[b] \in Bookings /\ op[b] \in Operations /\ shut \in SUBSET Night
        /\ Books(bk[b], op[b], shut)
    BY <2>1, BooksNow
  <2>4. bk[b].aside \cup FenceOf(op[b]) \subseteq Fences(b)
    BY DEF Fences, Kept, OpFence, Unsettled, FenceOf
  <2>5. Current(bk[b]) \subseteq Taken(b) BY DEF Current, Taken, Occupies
  <2>6. CASE n \in bk[b].aside \cup FenceOf(op[b]) BY <2>4, <2>6
  <2>7. CASE n \in Remembers(bk[b], op[b])
    <3>1. bk[b].status \in {"confirmed", "retained", "cancelled"} BY <2>7 DEF Remembers
    <3>2. CASE bk[b].status \in {"confirmed", "retained"}
      BY <2>3, <2>4, <2>5, <2>7, <3>2, RememberedIsKept
    <3>3. CASE bk[b].status = "cancelled" BY <2>3, <2>4, <2>7, <3>3, RememberedIsKept
    <3> QED BY <3>1, <3>2, <3>3
  <2> QED BY <2>2, <2>6, <2>7 DEF Holds
<1> QED BY <1>1, TypeCorrect, ChannelInvAlways, PTL

\* SettledIsShut: an order shown as synchronised is closed at the channel on all its nights,
\* whatever amendments, retentions and readbacks it went through.
THEOREM SettledIsShutAlways == Spec => []SettledIsShut
<1>1. TypeOK /\ ChannelInv => SettledIsShut
  <2> SUFFICES ASSUME TypeOK, ChannelInv, NEW b \in Booking, bk[b].status = "confirmed",
                      bk[b].sync \in {"verified", "manually_confirmed"}
               PROVE  bk[b].nights \subseteq shut
    BY DEF SettledIsShut
  <2>1. mode = "owlnest" BY DEF ChannelInv, TypeOK
  <2>2. bk[b] \in Bookings /\ Books(bk[b], op[b], shut) BY <2>1, BooksNow
  <2>3. Remembers(bk[b], op[b]) \subseteq shut BY <2>2 DEF Books
  <2>4. bk[b].work \in {"none", "line", "os", "hand"} BY <2>2, Zenon DEF Bookings
  <2>5. CASE bk[b].work = "none" BY <2>2, <2>3, <2>5 DEF Books, PlainOrder, Remembers
  <2>6. CASE bk[b].work = "line" BY <2>2, <2>3, <2>6 DEF Books, LineOrder, Remembers
  <2>7. CASE bk[b].work = "os" BY <2>2, <2>7 DEF Books, StaffOrder
  <2>8. CASE bk[b].work = "hand" BY <2>2, <2>3, <2>8 DEF Books, HandOrder, Remembers, Current
  <2> QED BY <2>4, <2>5, <2>6, <2>7, <2>8
<1> QED BY <1>1, TypeCorrect, ChannelInvAlways, PTL
=============================================================================
