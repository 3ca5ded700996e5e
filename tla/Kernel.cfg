SPECIFICATION FairSpec
CONSTANTS
  Lines = {0, 14}
  Faults = {0, 2, 13}
  KeyCap = 2
  DispCap = 3200
  StackCap = 5
INVARIANTS
  TypeOK
  HandlersInPlace
  OnlyKeyboard
  AcknowledgedOnce
  IretdFindsFrame
  FrameComplete
PROPERTY
  KeysServed
CHECK_DEADLOCK FALSE
