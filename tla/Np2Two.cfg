SPECIFICATION Spec
CONSTANTS
  Procs = {s1, c1, c2}
  Servers = {s1}
  None = None
  Quota = 1
  MaxWrites = 1
CHECK_DEADLOCK FALSE
SYMMETRY Symmetry
INVARIANTS
  TypeOK
  ReadChained
