SPECIFICATION Spec
CONSTANTS
  b1 = b1
  b2 = b2
  b3 = b3
  Calls = {b1, b2, b3}
  Empty = Empty
INVARIANTS TypeOK OneConnection
CHECK_DEADLOCK FALSE
