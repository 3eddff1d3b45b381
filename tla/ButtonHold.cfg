SPECIFICATION FairSpec
CONSTANTS
  HoldDebounce = 2
  TriggerDebounce = 1
  FirstRepeat = 3
  NextRepeat = 2
  Flicker = FALSE
  MaxFailures = 2
INVARIANTS
  TypeOK
  HoldIsTracked
  HoldNeedsItsGates
  RepeatIsTracked
PROPERTIES
  FreshPressOnly
  NothingAfterTheEnd
  HoldEnds
