SPECIFICATION FairSpec
CONSTANTS
  n1 = n1
  n2 = n2
  b1 = b1
  b2 = b2
  take = take
  rival = rival
  cancel = cancel
  pay = pay
  again = again
  Night = {n1, n2}
  Booking = {b1, b2}
  Request = {take}
  Input <- Inputs
  Client = {c1, c2, c3}
  NoClient = NoClient
  MaxConnections = 2
  MaxFaults = 2
PROPERTY CallsEnd
CHECK_DEADLOCK FALSE
