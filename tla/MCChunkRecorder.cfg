SPECIFICATION Spec
CONSTANTS
  MaxSeq = 3
  ListLength = 2
  Keep = 1
  Reload = 2
  MaxFault = 2
  MaxStart = 2
  MayDie = TRUE
INVARIANTS TypeOK Is200MeansStored NoSilentGap
PROPERTY ChunksAreKept
CHECK_DEADLOCK FALSE
