SPECIFICATION Spec
CONSTANTS
  IsTimeshift = TRUE
  HasTestTimer = FALSE
  HasServer = FALSE
  HasSeat = FALSE
  MaxComment = 1
  MaxSignal = 0
  MaxWrite = 0
  MaxEnding = 2
  MaxDelay = 0
INVARIANTS WaitingForComments
CHECK_DEADLOCK FALSE
