SPECIFICATION FairSpec
CONSTANTS
  W = 8
  P = 4
  PipeCap = 2
  Duration = 1
  MayKill = TRUE
INVARIANTS
  TypeOK
  NoSyncError
  OneTurn
  LoggedRoundsAnswered
  LogAfterSlave
  PeerDeathSeen
PROPERTIES
  PairEnds
  KeepsPromise
