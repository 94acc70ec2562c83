SPECIFICATION Spec
CONSTANTS
  Handles = {h1, h2, h3, h4}
  INVALID = INVALID
  None = None
  Requests = {"listener", "rejected"}
  MaxInstances = 4
  Recycle = FALSE
  MaxUnread = 1
  MaxSends = 3
  QuietListeners = TRUE
  ForeignWrites = FALSE
  MaxWrites = 2
SYMMETRY HandleSymmetry
PROPERTIES FeedGapless
