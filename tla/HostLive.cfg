SPECIFICATION FairSpec
CONSTANTS
  Locations = {1}
  StirSets = {{"disable", "retry", "quit", "profile", "session", "controller", "launch fails", "restore fails"}}
  MaxStirs = 3
  PipeRoom = 1
PROPERTIES
  StopIsServed
  QuitIsAnswered
