CONSTANTS
  p1 = p1
  p2 = p2
  Peers <- Both
  Neighbour <- EachOther
  MAX_FAILURES = 0
SPECIFICATION ServedSpec
PROPERTY WaitEnds
CHECK_DEADLOCK FALSE
