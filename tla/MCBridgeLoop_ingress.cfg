SPECIFICATION Spec
CONSTANTS
  Schedule <- Continuous
  U64Max = 20
  HeartbeatEnabled = FALSE
  HalfPeriod = 0
  Sockets = {s1, s2}
  Milli = 1
  Duration = 0
  RxTimeout = 1
  TxBurstLimit = 1
  TxMinInterval = 0
  MaxDatagrams = 2
  MaxIngress = 2
  Horizon = 1
INVARIANTS
  TypeOK
  IngressAccounted
  NoOrphanThread
  TelemetryAgrees
  StopReasonJustified
PROPERTIES
  PendingIsExact
  StopLeadsToReturn
  QueueServed
