CONSTANTS
  Posts = {p1, p2, p3}
  Capacity = 1
SPECIFICATION FairSpec
PROPERTIES
  PostAnswered
CHECK_DEADLOCK FALSE
