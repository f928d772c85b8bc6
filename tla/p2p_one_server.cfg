CONSTANTS
  p1 = p1
  p2 = p2
  Peers <- Both
  Neighbour <- ServedByFirst
  MAX_FAILURES = 1
SPECIFICATION FairSpec
INVARIANTS TypeOK BufferServesOne SentIsWhole AcceptedIsCreated TakeTurns EndsWithNeighbour PeerInv
PROPERTY AskingEnds
CHECK_DEADLOCK FALSE
