SPECIFICATION Spec
CONSTANTS
  Keyboards = {1, 2}
  Locations = {1, 2}
  RetryTicks = 1
  SettleTicks = 2
  RecoveryTicks = 1
  Beats = FALSE
  MaxFaults = 1
  MaxMoves = 1
INVARIANTS
  TypeOK
  FilteredForTheOne
  BoundOverFilter
  HoldOverFilter
PROPERTIES
  KeepsTheLease
  CleanEndGivesBack
