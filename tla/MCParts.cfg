SPECIFICATION PartsSpec
CONSTANTS
  Process = {givesUp, endless}
  Once = {}
  Endless = {endless}
  Limit = 1
  ChanSize = 1
  PipeSize = 1
  MaxLine <- MCMaxLine
  Opts <- MCOpts
  N = 3
  Time <- MCTime
  MaxRuns = 2
  Seqno = {0, 1, 2}
  \* limits below, between and at the qualities, or none
  Bandwidth = {2, 4, 6}
  Limits = {0, 1, 4, 5}
  SeqNo = {0, 1, 2}
  \* from the beginning, or from the middle of the second chunk
  MaxSeq = 2
  ListLength = 2
  Reload = 1
  TsStarts = {0, 3}
  MaxFault = 1
  Newest = 4
  Date <- MCDate
  Batch = 3
  Few = 2
  MaxWire = 3
INVARIANTS
  PartsTypeOK
  LossExplained
  OneRecorder
  FilesAreRuns
  DeletedMeansConverted
  BestWithinLimit
  FailuresBounded
  GapExplained
  CommentsExplained
PROPERTIES
  RecordEnds
  RetryEnds
CHECK_DEADLOCK FALSE
