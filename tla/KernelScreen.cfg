SPECIFICATION Spec
CONSTANTS
  Lines = {0}
  Faults = {0}
  KeyCap = 1
  DispCap = 65535
  StackCap = 0
INVARIANT
  NoDisplayFault
CHECK_DEADLOCK FALSE
