SPECIFICATION Spec
CONSTANTS
  Process = {p}
  Once = {}
  Endless = {}
  Limit = 1
INVARIANT RetriesAfterRecording
CHECK_DEADLOCK FALSE
