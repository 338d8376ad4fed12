SPECIFICATION Spec
CONSTANTS
  MaxSeq = 3
  ListLength = 2
  Keep = 1
  Reload = 2
  MaxFault = 0
  MaxStart = 2
  MayDie = FALSE
INVARIANT BackUntil404
CHECK_DEADLOCK FALSE
