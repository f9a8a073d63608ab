SPECIFICATION HealFairSpec
CONSTANTS
  r1 = r1
  r2 = r2
  recover = recover
  u1 = u1
  Request <- TwoRequests
  MaxHealJobs = 2
  MAX_JOBS = 1
  DoctorOp <- MCDoctorOp
  UpdaterOp <- MCUpdaterOp
  ClearsLiveLock = FALSE
  MaxAcquisitions = 4
INVARIANTS
  NpmUnderLock
  RunningJobIsRegistered
PROPERTIES
  HealUsesLock
  NoRefusalOffOwnHeal
  JobEnds
CHECK_DEADLOCK FALSE
