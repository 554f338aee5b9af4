CONSTANTS
  Posts = {p1, p2, p3, p4}
  Capacity = 1
SPECIFICATION FairSpec
INVARIANTS
  TypeOK
  NothingLost
PROPERTIES
  ResponseArrives
  SessionForgotten
CHECK_DEADLOCK FALSE
