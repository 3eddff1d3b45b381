SPECIFICATION Spec
CONSTANTS
  Locations = {1}
  StirSets = {{"permission"}}
  MaxStirs = 1
  PipeRoom = 1
INVARIANTS
  MissingPermissionIsKnown
