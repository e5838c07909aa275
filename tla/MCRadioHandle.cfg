SPECIFICATION Spec
CONSTANTS
  Streams <- MCStreams
  BestEffort <- MCBestEffort
  TxPower = TRUE
  Calibrate = TRUE
  RxForwards = TRUE
  Bounded = FALSE
  MaxRuns = 2
  MaxPolls = 1
INVARIANTS
  ReadyMeansPrepared
  HealthAndJoinAgree
  StoppedFreesAddresses
PROPERTIES
  ImplementsContract
  WaitReturns
  StopEndsRun
