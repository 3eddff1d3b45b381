SPECIFICATION Spec
CONSTANTS
  Locations = {1}
  StirSets = {{"profile"}}
  MaxStirs = 1
  PipeRoom = 1
PROPERTIES
  CleanStopIsAccepted
