SPECIFICATION Spec
CONSTANTS
  NStreams = 1
  NTunnel = 2
  RequiredStreams = {1}
  UseSudoForTun = TRUE
INVARIANTS
  NothingOutlivesJoin
  FailedStartupStopsAll
  BlamedDiedAlone
  JoinVerdict
PROPERTIES
  JoinTerminates
