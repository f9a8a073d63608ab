SPECIFICATION MCHostFairSpec
CONSTANTS
  r1 = r1
  r2 = r2
  boot = boot
  u1 = u1
  DoctorOp <- MCDoctorOp
  UpdaterOp <- MCUpdaterOp
  ClearsLiveLock = FALSE
  MaxAcquisitions = 2
  RefreshOp <- MCRefreshOp
  ArtifactCount = 2
  HostScript = {1}
  MaxBody = 2
  PruneOp = boot
  ReleaseCount = 3
  Rolling = rolling
  Keep = 1
  MaxMoves = 2
INVARIANTS
  MutatorHoldsLock
  AnswerIsTrue
PROPERTIES
  ImplementsArtifactStore
  RunningImageStays
  RollbackSurvives
  ImplementsSingleWriter
  LockIsFreedAgain
CHECK_DEADLOCK FALSE
