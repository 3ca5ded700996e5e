SPECIFICATION Spec
CONSTANTS
  W = 8
  P = 4
  PipeCap = 2
  Duration = 1
  MayKill = FALSE
INVARIANT
  WriteErrorsCoded
