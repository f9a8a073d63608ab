SPECIFICATION MCConsoleSpec
CONSTANTS
  d1 = d1
  d2 = d2
  MaxReports = 2
  Existing = 2
  MAX_JOBS = 1
  RETENTION = 2
  BACKFILL_LIMIT = 2
  MaxLines = 3
  MaxOutages = 1
  MaxGlitches = 1
  TAIL = 1
  MaxBreaks = 1
  Dependency <- MCDependency
  MaxRequests = 4
  MaxPolls = 2
INVARIANTS
  RetentionHolds
  OneFeed
  PageShowsHistory
  RefreshShowsNew
  LookupIsLatest
  LinkIsOfBundle
PROPERTIES
  ReportIsOwn
  CollectionEnds
  LinesArrive
  OutcomeIsTold
CHECK_DEADLOCK FALSE
