SPECIFICATION Spec
CONSTANTS
  staff = staff
  line = line
  agency = agency
  Night = {n1, n2}
  Booking = {staff, line, agency}
  Source <- OneOfEach
  MaxFact = 3
  MaxMoney = 1
  NoFact = NoFact
  NoCommand = NoCommand
INVARIANT TypeOK FormerNightsHeld SettledIsShut OwnMoneyIsReviewed SourceIsAnswered FollowsSource OneAnswerPerCommand
PROPERTY CancelledStaysCancelled ImplementsRoomNights
SYMMETRY Nights
CHECK_DEADLOCK FALSE
