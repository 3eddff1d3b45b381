SPECIFICATION Spec
CONSTANTS
  Lines = {1, 2, 3}
  Capacity = 3
  MaxRuns = 3
INVARIANTS
  CopyIsPrefix
  ReasonIsOfTheLastRun
PROPERTIES
  KeepsRecent
