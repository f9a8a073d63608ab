SPECIFICATION RecoveryFairSpec
CONSTANTS
  p1 = p1
  u1 = u1
  DoctorOp <- MCDoctorOp
  UpdaterOp <- MCUpdaterOp
  ClearsLiveLock = FALSE
  MaxAcquisitions = 3
  LastGood <- MCLastGood
  MaxContents = 1
INVARIANTS
  OkMeansRecovered
  RestoredStaysRestored
PROPERTIES
  RecoveryUsesLock
  RequestEnds
CHECK_DEADLOCK FALSE
