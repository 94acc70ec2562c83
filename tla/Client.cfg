SPECIFICATION LiveSpec
CONSTANTS
  Room = 1
  Listeners = {1}
  Blank = {3}
  Oversized = {5}
  Rejected = {2}
  MaxWrites = 3
  MaxSends = 5
CHECK_DEADLOCK FALSE
INVARIANTS
  TypeOK
  HeardInOrder
  WrittenOnce
  LostOnlyLate
PROPERTIES
  PostedArrives
