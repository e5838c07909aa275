SPECIFICATION Spec
CHECK_DEADLOCK FALSE
CONSTANTS
  DownloadAttempts = 2
  EfuseBytes = 2
  Repeats = 2
  MaxCommands = 3
  MaxFaults = 2
INVARIANTS
  AcknowledgedFirst
  LayersInOrder
  TrafficOnPreparedChip
  ReportsWhatRan
  NothingLeftOn
