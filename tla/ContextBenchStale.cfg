SPECIFICATION Spec
CONSTANTS
  Pids = {1, 2}
  MaxRuns = 2
  NProc = 5
  Duration = 1
  W = 4
  P = 2
  MayKill = TRUE
INVARIANT
  OwnLogsOnly
