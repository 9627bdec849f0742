SPECIFICATION Spec
CONSTANTS
  o1 = o1
  o2 = o2
  room1 = room1
  room2 = room2
  guest1 = guest1
  guest2 = guest2
  Anything = anything
  None = none
  Order = {o1, o2}
  Mission = {m1, m2}
  Content <- Stays
  Request <- Requests
  MaxChanges = 1
INVARIANT TypeOK MissionsHold
PROPERTY EachReceiptIsDue LedgerWithinTotal KeepsPromise
SYMMETRY Missions
CHECK_DEADLOCK FALSE
