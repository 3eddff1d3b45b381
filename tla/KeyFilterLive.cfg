SPECIFICATION FairSpec
CONSTANTS
  Keyboards = {1}
  Locations = {1, 2}
  RetryTicks = 1
  SettleTicks = 3
  RecoveryTicks = 2
  Beats = TRUE
  MaxFaults = 2
  MaxMoves = 2
PROPERTIES
  OwedIsSettled
  RecoveryEnds
