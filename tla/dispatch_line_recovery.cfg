SPECIFICATION RecoveredSpec
CONSTANTS
  n1 = n1
  n2 = n2
  b1 = b1
  b2 = b2
  NoBooking = NoBooking
  NoOp = NoOp
  NoClaim = NoClaim
  Night = {n1, n2}
  Booking = {b1, b2}
  Worker = {w1, w2}
  Operator = {r1}
  Op <- LineOps
  Job <- LineJobs
  Faults = {"crash"}
PROPERTY VerifiedClaimCleared
CHECK_DEADLOCK FALSE
