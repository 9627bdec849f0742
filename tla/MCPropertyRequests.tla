-------------------------- MODULE MCPropertyRequests --------------------------
(* Requests for the small instances: two bookings that want the same night, the *)
(* cancellation of one, and two payments submitted against the same version.    *)
EXTENDS PropertyRequests

CONSTANTS n1, n2, b1, b2, take, rival, cancel, pay, again

Sends(kind, booking, nights, expects) ==
  [kind |-> kind, booking |-> booking, nights |-> nights, expects |-> expects]

InputOf(r) ==
  CASE r = take -> Sends("create", b1, {n1}, 0)
    [] r = rival -> Sends("create", b2, {n1, n2}, 0)
    [] r = cancel -> Sends("cancel", b1, {}, 1)
    [] r \in {pay, again} -> Sends("pay", b1, {}, 1)

Inputs == [r \in Request |-> InputOf(r)]
=============================================================================
