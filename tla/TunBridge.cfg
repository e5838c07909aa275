SPECIFICATION Spec
CONSTANTS
  RadioMtu = 8
  AggTimeouts = {0, 2}
  KeepaliveInterval = 3
  Sizes = {1, 3, 7}
  MaxPackets = 4
  Horizon = 6
INVARIANTS
  TunnelLossless
  OldestNotLate
CHECK_DEADLOCK FALSE
