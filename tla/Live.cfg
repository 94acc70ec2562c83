SPECIFICATION LiveSpec
CONSTANTS
  Handles = {h1, h2, h3}
  INVALID = INVALID
  None = None
  Requests = {"listener"}
  MaxInstances = 3
  Recycle = FALSE
  MaxUnread = 1
  MaxSends = 2
  QuietListeners = FALSE
  ForeignWrites = FALSE
  MaxWrites = 2
PROPERTIES FlushEndsUnlessHeldUp ClientAccepted ReadsHandled
