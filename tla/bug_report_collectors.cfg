SPECIFICATION ReportSpec
CONSTANTS
  MaxReports = 2
  Existing = 1
  MAX_JOBS = 2
  RETENTION = 2
INVARIANTS
  OneCollector
CHECK_DEADLOCK FALSE
