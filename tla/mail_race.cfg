SPECIFICATION Spec
CONSTANTS
  Runner = {r1, r2}
  NoRunner = none
  Channels <- OneChannel
  MailChannel = {"ownerEmail"}
  MaxVersion = 1
  MaxScan = 1
  MaxFaults = 1
INVARIANT TypeOK OneMailPerJob OutcomeIsTrue
PROPERTY KeepsPromise
SYMMETRY Runners
CHECK_DEADLOCK FALSE
