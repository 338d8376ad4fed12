SPECIFICATION FairSpec
CONSTANTS
  IsTimeshift = FALSE
  HasTestTimer = FALSE
  HasServer = FALSE
  HasSeat = FALSE
  MaxComment = 2
  MaxSignal = 0
  MaxWrite = 1
  MaxEnding = 1
  MaxDelay = 1
INVARIANTS TypeOK OneReader NobodyLeft
PROPERTIES NoTwoConnections NeverStuckOnTold
CHECK_DEADLOCK FALSE
