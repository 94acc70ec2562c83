SPECIFICATION LiveSpec
CONSTANTS
  ChannelCount = 3
  MaxUnread = 2
  MaxSends = 2
  MaxWrites = 2
CHECK_DEADLOCK FALSE
INVARIANTS
  TypeOK
PROPERTIES
  FirstLoopReadsAll
  StuckBeforeWriting
