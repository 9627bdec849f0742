-------------------------- MODULE MCPaymentMissions --------------------------
(* A small instance of PaymentMissions. *)
EXTENDS PaymentMissions, TLC

CONSTANTS o1, o2, room1, room2, guest1, guest2

Stay(status, room, guest, total, expected) ==
  [status |-> status, room |-> room, guest |-> guest, total |-> total, expected |-> expected]

\* An order as it was, cancelled, or moved to the other room, under another name, for less money.
Stays == {Stay("confirmed", room1, guest1, 2, 1), Stay("canceled", room1, guest1, 2, 1),
          Stay("confirmed", room2, guest2, 1, None)}

Ask(q, amount, deposit) == [amount |-> amount, deposit |-> deposit, query |-> q]

\* By number or by guest, the deposit or all of it.
Requests == {Ask(ById(o1), 1, TRUE),
             Ask([guest |-> guest1, order |-> Anything], 2, FALSE)}

Missions == Permutations(Mission)
=============================================================================
