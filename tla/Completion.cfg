SPECIFICATION LiveSpec
CONSTANTS
  Handles = {h1, h2}
  INVALID = INVALID
  None = None
  Requests = {"listener", "accepted", "rejected", "oversized"}
  MaxInstances = 2
  Recycle = TRUE
  MaxUnread = 1
  MaxSends = 4
CHECK_DEADLOCK FALSE
INVARIANTS TypeOK EveryConnectionRead
PROPERTIES FeedGapless FlushEndsUnlessHungUp
