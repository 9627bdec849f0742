----------------------------- MODULE RoomNights -----------------------------
(* What the booking authority promises about room nights: a night has one taker, *)
(* and a booking takes a night only while nobody else has it and no fence of     *)
(* another booking keeps it back.                                                *)
CONSTANTS Night, Booking

VARIABLES
  taken,  \* the nights each booking occupies
  kept    \* the nights fences keep back on account of each booking

Init ==
  /\ taken \in [Booking -> SUBSET Night]
  /\ \A b, c \in Booking : b # c => taken[b] \cap taken[c] = {}
  /\ kept = [b \in Booking |-> {}]

Change(b) ==
  /\ taken' \in [Booking -> SUBSET Night]
  /\ kept' \in [Booking -> SUBSET Night]
  /\ \A c \in Booking \ {b} :
       /\ taken'[c] = taken[c] /\ kept'[c] = kept[c]
       /\ (taken'[b] \ taken[b]) \cap (taken[c] \cup kept[c]) = {}

Next == \E b \in Booking : Change(b)

Spec == Init /\ [][Next]_<<taken, kept>>
=============================================================================
