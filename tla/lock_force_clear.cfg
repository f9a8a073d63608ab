SPECIFICATION Spec
CONSTANTS
  d1 = d1
  d2 = d2
  d3 = d3
  u1 = u1
  DoctorOp <- MCThreeDoctorOps
  UpdaterOp <- MCUpdaterOp
  ClearsLiveLock = TRUE
  MaxAcquisitions = 4
SYMMETRY DoctorSymmetry
INVARIANTS
  ForeignUnlinkOnlyInWindow
CHECK_DEADLOCK FALSE
