CONSTANTS
  Nonces = {0, 1, 2}
  ZeroBytes = {2, 3, 4}
  DIFFICULTY = 3
  MAX_TIME = 2
SPECIFICATION FairSpec
INVARIANTS TypeOK ClientInv PuzzleUsesLive UsedIsReady ReceivedIsAsMade
PROPERTY BlockIsPublished
CHECK_DEADLOCK FALSE
