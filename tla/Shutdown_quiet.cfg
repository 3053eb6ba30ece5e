CONSTANTS
  Modes = {"joiner"}
  HTTPLogs = {FALSE}
  BufferSize = 2
  MaxLog = 4
SPECIFICATION FairSpec
CHECK_DEADLOCK FALSE
PROPERTY LoggingGoesOn
