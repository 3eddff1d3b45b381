SPECIFICATION Spec
CONSTANTS
  Keys = {"BLACK4", "WHITE3"}
  Modifiers = {}
  Buttons = {"PEDAL"}
  ShortSlots = 1
  LongSlots = 2
  Mapped = {"BLACK4", "WHITE3", "CW", "CCW"}
  Room = 2
INVARIANTS
  TypeOK
  EventsTellState
  DecodersCatchUp
  HeldIsNotRouted
