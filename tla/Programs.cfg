SPECIFICATION Spec
CONSTANTS
  Server = s
  Clients = {c1, c2}
  None = None
  Quota = 1
  MaxSends = 1
CHECK_DEADLOCK FALSE
INVARIANTS TypeOK OneOperation DeletedOnlyAfterPeer ServedUnlessEarly
PROPERTIES WritesGoOn
