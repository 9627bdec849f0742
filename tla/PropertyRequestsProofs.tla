------------------------ MODULE PropertyRequestsProofs ------------------------
(* What the handlers preserve, for every document and request. *)
EXTENDS PropertyRequests, TLAPS

\* What each kind of request does to each part of the document.
LEMMA AfterParts ==
  ASSUME NEW d \in Document, NEW r \in Request
  PROVE  LET i == Input[r]
             e == After(d, r)
         IN /\ e \in Document
            /\ e.receipts = Append(d.receipts, r)
            /\ e.rev = [d.rev EXCEPT ![i.booking] = d.rev[i.booking] + 1]
            /\ i.kind = "create" =>
                 /\ e.status = [d.status EXCEPT ![i.booking] = "confirmed"]
                 /\ e.stay = [d.stay EXCEPT ![i.booking] = i.nights]
            /\ i.kind = "cancel" =>
                 e.status = [d.status EXCEPT ![i.booking] = "cancelled"] /\ e.stay = d.stay
            /\ i.kind = "pay" => e.status = d.status /\ e.stay = d.stay
<1>. DEFINE i == Input[r]
            e == After(d, r)
<1>1. i.kind \in {"create", "cancel", "pay"} /\ i.booking \in Booking /\ i.nights \in SUBSET Night
  BY InputAssumption DEF RequestInput
<1>2. /\ d.version \in Nat /\ d.receipts \in Seq(Request) /\ d.rev \in [Booking -> Nat]
      /\ d.stay \in [Booking -> SUBSET Night]
      /\ d.status \in [Booking -> {"none", "confirmed", "cancelled"}]
  BY DEF Document
<1>3. Append(d.receipts, r) \in Seq(Request)  BY <1>2
<1>4. Revised(d, i.booking) \in [Booking -> Nat]  BY <1>1, <1>2 DEF Revised
<1>. HIDE DEF i
<1>5. CASE i.kind = "create"
  <2>1. e = [Created(d, i) EXCEPT !.receipts = Append(d.receipts, r)]  BY <1>5 DEF After, i
  <2>2. /\ [d.status EXCEPT ![i.booking] = "confirmed"]
             \in [Booking -> {"none", "confirmed", "cancelled"}]
        /\ [d.stay EXCEPT ![i.booking] = i.nights] \in [Booking -> SUBSET Night]
        /\ d.version + 1 \in Nat
    BY <1>1, <1>2
  <2>3. e \in Document  BY <2>1, <2>2, <1>3, <1>4 DEF Created, Document
  <2>. QED  BY <1>5, <2>1, <2>3 DEF Created, Revised, Document, i
<1>6. CASE i.kind = "cancel"
  <2>1. e = [Cancelled(d, i) EXCEPT !.receipts = Append(d.receipts, r)]  BY <1>6 DEF After, i
  <2>2. /\ [d.status EXCEPT ![i.booking] = "cancelled"]
             \in [Booking -> {"none", "confirmed", "cancelled"}]
        /\ d.version + 1 \in Nat
    BY <1>1, <1>2
  <2>3. e \in Document  BY <2>1, <2>2, <1>3, <1>4 DEF Cancelled, Document
  <2>. QED  BY <1>6, <2>1, <2>3 DEF Cancelled, Revised, Document, i
<1>7. CASE i.kind = "pay"
  <2>1. e = [Paid(d, i) EXCEPT !.receipts = Append(d.receipts, r)]  BY <1>7 DEF After, i
  <2>2. e \in Document  BY <2>1, <1>3, <1>4 DEF Paid, Document
  <2>. QED  BY <1>7, <2>1, <2>2 DEF Paid, Revised, Document, i
<1>. QED  BY <1>1, <1>5, <1>6, <1>7

\* A handler turns a document into a document and adds one receipt at its end.
LEMMA AfterType ==
  ASSUME NEW d \in Document, NEW r \in Request
  PROVE  /\ After(d, r) \in Document
         /\ Len(After(d, r).receipts) = Len(d.receipts) + 1
         /\ After(d, r).receipts[Len(d.receipts) + 1] = r
         /\ \A i \in 1..Len(d.receipts) : After(d, r).receipts[i] = d.receipts[i]
<1>1. d.receipts \in Seq(Request)  BY DEF Document
<1>2. After(d, r) \in Document /\ After(d, r).receipts = Append(d.receipts, r)
  BY AfterParts
<1>. QED  BY <1>1, <1>2

\* A document's receipts before a request are among those after it.
LEMMA ReceiptsGrow ==
  ASSUME NEW d \in Document, NEW r \in Request
  PROVE  Receipted(After(d, r)) = Receipted(d) \cup {r}
<1>1. d.receipts \in Seq(Request) /\ After(d, r).receipts = Append(d.receipts, r)
  BY AfterParts DEF Document
<1>. QED  BY <1>1 DEF Receipted

SoldOnce(d) == \A a, b \in Occupying(d) : a # b => d.stay[a] \cap d.stay[b] = {}

\* A request the handlers accept leaves every night with one taker.
LEMMA AcceptedSoldOnce ==
  ASSUME NEW d \in Document, NEW r \in Request, Accepts(d, r), SoldOnce(d)
  PROVE  SoldOnce(After(d, r))
<1>. DEFINE i == Input[r]
            e == After(d, r)
<1>1. i.booking \in Booking /\ i.nights \subseteq Night
  BY InputAssumption DEF RequestInput
<1>2. d.stay \in [Booking -> SUBSET Night]
      /\ d.status \in [Booking -> {"none", "confirmed", "cancelled"}]
  BY DEF Document
<1>3. CreateFits(d, i) \/ CancelFits(d, i) \/ PayFits(d, i)  BY DEF Accepts
<1>4. CASE i.kind = "create"
  <2>1. e.status = [d.status EXCEPT ![i.booking] = "confirmed"]
        /\ e.stay = [d.stay EXCEPT ![i.booking] = i.nights]
    BY <1>4, AfterParts
  <2>2. i.nights \cap Taken(d) = {}  BY <1>3, <1>4 DEF CreateFits, CancelFits, PayFits
  <2>3. \A b \in Occupying(d) : i.nights \cap d.stay[b] = {}  BY <2>2 DEF Taken
  <2>4. \A b \in Occupying(e) : b = i.booking \/ b \in Occupying(d)
    BY <2>1, <1>2, <1>1 DEF Occupying
  <2>5. e.stay[i.booking] = i.nights /\ \A b \in Booking \ {i.booking} : e.stay[b] = d.stay[b]
    BY <2>1, <1>2, <1>1
  <2>6. Occupying(e) \subseteq Booking  BY DEF Occupying
  <2>. HIDE DEF e, i
  <2>7. SoldOnce(e)  BY <2>3, <2>4, <2>5, <2>6 DEF SoldOnce
  <2>. QED  BY <2>7 DEF e
<1>5. CASE i.kind = "cancel"
  <2>1. e.status = [d.status EXCEPT ![i.booking] = "cancelled"] /\ e.stay = d.stay
    BY <1>5, AfterParts
  <2>2. Occupying(e) \subseteq Occupying(d)  BY <2>1, <1>2, <1>1 DEF Occupying
  <2>. QED  BY <2>1, <2>2 DEF SoldOnce
<1>6. CASE i.kind = "pay"
  <2>1. e.status = d.status /\ e.stay = d.stay  BY <1>6, AfterParts
  <2>. QED  BY <2>1 DEF SoldOnce, Occupying
<1>. QED  BY <1>3, <1>4, <1>5, <1>6 DEF CreateFits, CancelFits, PayFits
=============================================================================
