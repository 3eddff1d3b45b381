SPECIFICATION Spec
CONSTANTS
  Locations = {1}
  StirSets = {
    {"controller", "focus", "session", "enable", "disable", "profile", "retry", "quit", "crash"},
    {"controller", "disable", "retry", "quit", "crash", "launch fails", "open fails", "apply fails",
     "restore fails", "release fails", "HID fails", "listener crash"},
    {"permission", "disable", "retry", "enable", "profile", "controller", "focus",
     "crash", "listener crash", "open fails"}}
  MaxStirs = 4
  PipeRoom = 1
INVARIANTS
  TypeOK
  BeliefIsGrounded
  DisabledHasNoListener
  ActiveHasItsEvidence
  LatchStopsListener
  LeftMappingIsLatched
  SafeMarkerIsEarned
PROPERTIES
  LatchEndsEarlyOnlyByRefusal
