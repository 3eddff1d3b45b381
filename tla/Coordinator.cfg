SPECIFICATION Spec
INVARIANTS
  TypeOK
  DispatchIsGated
  LatchStands
PROPERTIES
  LatchLeftOnlyByHand
  LatchExitIsProven
  PendingDisableEndsDisabled
  DispatchNeedsEveryGate
  NamedFailureIsSticky
