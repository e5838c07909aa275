SPECIFICATION Spec
CONSTANTS
  NStreams = 2
  NTunnel = 2
  RequiredStreams = {1}
  UseSudoForTun = TRUE
INVARIANTS
  BestEffortSpawnKeepsLink
