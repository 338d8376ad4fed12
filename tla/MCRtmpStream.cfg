\* One stream of an official timeshift, recorded in up to three attempts.
SPECIFICATION Spec
CONSTANTS
  N = 1
  MaxConn = 1
  Official = TRUE
  Recorded = TRUE
  Tries = 3
  Length = 5
  Skew = 2
  Second = 2
INVARIANTS
  TypeOK
  NoGap
  TimesTrue
  CompleteMeansAll
\* The program ends.
CHECK_DEADLOCK FALSE
