SPECIFICATION Spec
CONSTANTS
  Procs = {s1, c1}
  Servers = {s1}
  None = None
  Quota = 1
  MaxWrites = 3
CHECK_DEADLOCK FALSE
SYMMETRY Symmetry
INVARIANTS
  InOrder
PROPERTIES
  RunNeedsPeerGone
