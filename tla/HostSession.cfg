SPECIFICATION Spec
CONSTANTS
  Locations = {1}
  StirSets = {{"session", "profile"}}
  MaxStirs = 2
  PipeRoom = 1
INVARIANTS
  UnavailableSessionIsLetGo
