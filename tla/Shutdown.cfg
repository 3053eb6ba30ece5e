CONSTANTS
  Modes = {"dev", "first", "joiner"}
  HTTPLogs = {TRUE, FALSE}
  BufferSize = 2
  MaxLog = 4
SPECIFICATION FairSpec
CHECK_DEADLOCK FALSE
INVARIANTS TypeOK LogsKept
PROPERTIES ShutdownCompletes LogCallsReturn
