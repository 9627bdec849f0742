SPECIFICATION FairSpec
CONSTANTS
  Runner = {r1}
  NoRunner = none
  Channels <- TwoChannels
  MailChannel = {"ownerEmail"}
  MaxVersion = 2
  MaxScan = 1
  MaxFaults = 1
INVARIANT OneReminderPerDeadline
PROPERTY MailStillTrue QueueDrains OverdueIsReminded
CHECK_DEADLOCK FALSE
