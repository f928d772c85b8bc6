CONSTANTS
  Clients = {c1, c2, c3}
  NoClient = NoClient
  MAX_FD = 3
  SQ_ENTRIES = 12
  SOCKBUF = 2
  CIRC_BUF_SIZE = 3
  SIZE_MOD = 16
  N_MESSAGES = 3
  MERKLE_LEAVES = 3
  BLOCKSIZE = 3
  MAX_FAILURES = 0
  MAX_ACTIVE = 1
SPECIFICATION FairSpec
INVARIANTS BlocksAgree OnlyServedAreClosed FilledMeansBlock OneAtATimeInv
PROPERTIES DistributesInOrder EveryClientServed ServedIsClosed
CHECK_DEADLOCK FALSE
