CONSTANTS
  CIRC_BUF_SIZE = 3
  SIZE_MOD = 8
  MAX_MADE = 5
  PENDING = 2
  BLOCKSIZE = 2
SPECIFICATION Spec
INVARIANTS TypeOK StoredValidates GetNthIsTheLoop FilledAreLive SignedInv
CHECK_DEADLOCK FALSE
