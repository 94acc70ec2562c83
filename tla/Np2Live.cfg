SPECIFICATION LiveSpec
CONSTANTS
  Procs = {s1, c1}
  Servers = {s1}
  None = None
  Quota = 1
  MaxWrites = 2
CHECK_DEADLOCK FALSE
PROPERTIES
  StopAfterFailure
  WriteIsRead
