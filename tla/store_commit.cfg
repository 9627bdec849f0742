SPECIFICATION Spec
CONSTANTS
  n1 = n1
  n2 = n2
  b1 = b1
  b2 = b2
  take = take
  rival = rival
  cancel = cancel
  pay = pay
  again = again
  Night = {n1, n2}
  Booking = {b1, b2}
  Request = {take, rival, cancel, pay, again}
  Input <- Inputs
  Client = {c1, c2}
  NoClient = NoClient
  MaxConnections = 2
  MaxFaults = 1
INVARIANT TypeOK StoreInv LedgerStands OnePaymentPerRevision
PROPERTY ImplementsLedger RefusedWasNotApplied
SYMMETRY Symmetry
CHECK_DEADLOCK FALSE
