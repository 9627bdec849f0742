SPECIFICATION Spec
CONSTANTS
  n1 = n1
  n2 = n2
  b1 = b1
  b2 = b2
  NoBooking = NoBooking
  NoOp = NoOp
  NoClaim = NoClaim
  Night = {n1, n2}
  Booking = {b1, b2}
  Worker = {w1, w2}
  Operator = {r1}
  Op <- MoveOps
  Job <- MoveJobs
  Faults = {"crash", "put_lost", "late_put", "observe", "db"}
INVARIANT TypeOK OneWriter VerifiedNightsStayClosed
PROPERTY MoveClosesFirst VerifiedIsTrue
CHECK_DEADLOCK FALSE
