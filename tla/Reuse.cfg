SPECIFICATION Spec
CONSTANTS
  Handles = {h1, h2, h3}
  INVALID = INVALID
  None = None
  Requests = {"listener", "oversized"}
  MaxInstances = 3
  Recycle = TRUE
  MaxUnread = 2
  MaxSends = 3
  QuietListeners = FALSE
  ForeignWrites = TRUE
  MaxWrites = 2
SYMMETRY HandleSymmetry
INVARIANTS TypeOK OnlyListenersFed WritersLive DeafOnlyByHangUp EveryConnectionRead
PROPERTIES NoHealthyDisconnect
