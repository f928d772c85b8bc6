CONSTANTS
  Clients = {c1, c2}
  NoClient = NoClient
  MAX_FD = 2
  SQ_ENTRIES = 4
  SOCKBUF = 2
  CIRC_BUF_SIZE = 2
  SIZE_MOD = 16
  N_MESSAGES = 2
  MERKLE_LEAVES = 2
  BLOCKSIZE = 2
  MAX_FAILURES = 0
  MAX_ACTIVE = 2
SPECIFICATION Spec
INVARIANT FilledMeansBlock
SYMMETRY ClientSymmetry
CHECK_DEADLOCK FALSE
