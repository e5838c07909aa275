SPECIFICATION Spec
CONSTANTS
  MaxRecords = 3
  MaxBlocks = 3
  MaxCands = 3
  U64Max = 9
  WindowMax = 3
  GuardMax = 2
  MaxGap = 2
  Horizon = 14
INVARIANTS
  ChannelPlanConsistent
  TransferWalked
  LogDecoded
  CandidatesSelected
  WindowsDivided
  EveryWindowServed
CHECK_DEADLOCK FALSE
