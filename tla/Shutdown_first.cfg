CONSTANTS
  Modes = {"first"}
  HTTPLogs = {TRUE}
  BufferSize = 1
  MaxLog = 2
SPECIFICATION FairSpec
CHECK_DEADLOCK FALSE
PROPERTY TerminateIsRead
