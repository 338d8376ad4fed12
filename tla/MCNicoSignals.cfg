SPECIFICATION Spec
CONSTANTS
  IsTimeshift = FALSE
  HasTestTimer = TRUE
  HasServer = TRUE
  HasSeat = TRUE
  MaxComment = 1
  MaxSignal = 1
  MaxWrite = 0
  MaxEnding = 0
  MaxDelay = 0
PROPERTIES ManagersUsedByTheRules
CHECK_DEADLOCK FALSE
