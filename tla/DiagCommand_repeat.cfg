SPECIFICATION Spec
CHECK_DEADLOCK FALSE
CONSTANTS
  DownloadAttempts = 1
  EfuseBytes = 1
  Repeats = 2
  MaxCommands = 2
  MaxFaults = 0
INVARIANT
  RepeatedTxAcknowledged
