CONSTANTS
  Threads = {"message", "server", "listener"}
  RADIX = 2
  MAX_TIME = 4
SPECIFICATION Spec
INVARIANT DateIsCreation
CHECK_DEADLOCK FALSE
