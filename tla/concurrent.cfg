CONSTANTS
  Clients = {c1, c2}
  NoClient = NoClient
  MAX_FD = 2
  SQ_ENTRIES = 7
  SOCKBUF = 2
  CIRC_BUF_SIZE = 3
  SIZE_MOD = 16
  N_MESSAGES = 3
  MERKLE_LEAVES = 3
  BLOCKSIZE = 3
  MAX_FAILURES = 1
  MAX_ACTIVE = 2
SPECIFICATION FairSpec
INVARIANTS TypeOK BufferNeverFails ReceivedInOrder OneUnacknowledged AnswersParse IInv HandOutInv
PROPERTIES Distributes SlotsKeepTheirMessage SomeClientFinishes
CHECK_DEADLOCK FALSE
