SPECIFICATION Spec
CONSTANTS
  Schedule <- TddRxFirst
  U64Max = 20
  HeartbeatEnabled = TRUE
  HalfPeriod = 2
  Sockets = {s1}
  Milli = 2
  Duration = 6
  RxTimeout = 2
  TxBurstLimit = 1
  TxMinInterval = 0
  MaxDatagrams = 2
  MaxIngress = 2
  Horizon = 6
INVARIANTS
  BoundsKept
  LedOffAtReturn
PROPERTIES
  DurationLeadsToReturn
  ToggleSpacing
