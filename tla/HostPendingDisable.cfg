SPECIFICATION Spec
CONSTANTS
  Locations = {1}
  StirSets = {
    {"permission", "disable", "retry", "crash"},
    {"listener crash", "disable", "retry", "open fails"}}
  MaxStirs = 4
  PipeRoom = 1
PROPERTIES
  LatchEndsOverPassThrough
