SPECIFICATION Spec
CONSTANTS
  FwPages = 2
  MAX_DOWNLOADS = 2
  TX_PAGE_BOUNDARY_8812 = 2
  LAST_ENTRY = 4
  EfuseLength = 2
  MaxSessions = 2
  MaxFaults = 2
  MAX_SWEEPS = 2
  MAX_ATTEMPTS = 2
  MAX_RX_CANDIDATES = 2
  Configs <- MCConfigs
  Candidates <- MCCandidates
INVARIANTS
  ReadyMeansFresh
  RestoredMeansBackup
  LiveMeansCalibrated
PROPERTIES
  BringUpEnds
CHECK_DEADLOCK FALSE
