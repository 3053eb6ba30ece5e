CONSTANTS
  Modes = {"dev"}
  HTTPLogs = {TRUE}
  BufferSize = 2
  MaxLog = 2
SPECIFICATION Spec
CHECK_DEADLOCK FALSE
INVARIANT EveryLogWritten
