SPECIFICATION Spec
CONSTANTS
  n1 = n1
  n2 = n2
  b1 = b1
  b2 = b2
  NoBooking = NoBooking
  NoOp = NoOp
  NoClaim = NoClaim
  Night = {n1, n2}
  Booking = {b1, b2}
  Worker = {w1, w2}
  Operator = {}
  Op <- ReviewOps
  Job <- ReviewJobs
  Faults = {"crash", "put_lost", "observe", "db", "login", "stale"}
SYMMETRY Symmetry
INVARIANT ScopesDisjoint NeverReissued HoldsReviewed
CHECK_DEADLOCK FALSE
