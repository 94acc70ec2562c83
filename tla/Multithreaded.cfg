SPECIFICATION LiveSpec
CONSTANTS
  Pipes = {h1, h2, h3}
  None = None
  MaxUnread = 2
  MaxSends = 2
  MaxAnswers = 2
CHECK_DEADLOCK FALSE
INVARIANTS
  TypeOK
  ServedUnlessEarly
PROPERTIES
  RequestsRead
