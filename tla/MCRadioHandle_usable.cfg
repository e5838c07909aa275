SPECIFICATION Spec
CONSTANTS
  Streams <- MCStreams
  BestEffort <- MCBestEffort
  TxPower = TRUE
  Calibrate = TRUE
  RxForwards = TRUE
  Bounded = TRUE
  MaxRuns = 2
  MaxPolls = 1
INVARIANTS
  ReadyMeansUsable
