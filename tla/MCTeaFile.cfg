SPECIFICATION Spec
CONSTANTS
  Byte = 8
  BLOCK = 4
  TEA_ROUNDS = 32
  TEA_DELTA = 57
  NL = 2
  Parts = {1}
  MaxRuns = 2
  Exor <- MCExor
  gkey <- MCgkey
  Files <- MCFiles
  Leftovers <- MCLeftovers
INVARIANTS BlocksInvertible WholeFile
\* after the last run nothing happens any more
CHECK_DEADLOCK FALSE
