SPECIFICATION Spec
CONSTANTS
  Args <- MCArgs
  DEF_DURATION = 3
  DEF_SIZE = 1
  DEF_TIMES = 1
  DEF_STRIDE = 1
  KB = 4
  Align = 2
  IntKb = 3
  Long = 2
  LongLong = 8
  Mapped = 2
  Million = 2
  MaxClock = 3
INVARIANTS
  TypeOK
  InBuffer
  RoundsCounted
  LinesOnce
  ElapsedRight
PROPERTIES
  BenchEnds
