\* Two streams, one at a time, with a frame in each track.
SPECIFICATION FairSpec
CONSTANTS
  N = 2
  MaxConn = 1
  Official = TRUE
  Recorded = FALSE
  Tries = 2
  Length = 0
  Skew = 0
  Second = 1
INVARIANTS
  AtMostMaxConn
  ReturnedMeansDone
PROPERTY
  ProgramEnds
\* The program ends.
CHECK_DEADLOCK FALSE
